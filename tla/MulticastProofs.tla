--------------------------- MODULE MulticastProofs ---------------------------
(***************************************************************************)
(* Safety of multicast ranging, for any datagrams and services: what       *)
(* multi_data_rx hands on (RxInv), what multi_tx sends (TxInv), and that a *)
(* behaviour of Multicast is one of each half.                             *)
(***************************************************************************)
EXTENDS Multicast, FiniteSets, FiniteSetTheorems, SequenceTheorems, TLAPS

-----------------------------------------------------------------------------
(* Receiving.  IsPdu of a buffer b of which l words were received.         *)
PduIn(b, l, j, n) ==
    /\ n >= HDR /\ j + n <= l
    /\ b[j + 1] = HEAD /\ b[j + 2] = n /\ b[j + n] = TAIL

(* Where the PDUs of q end.                                                *)
EndOf(q) == IF q = <<>> THEN 0 ELSE q[Len(q)].at + q[Len(q)].length

(* The PDUs of q follow each other from the first word.                    *)
Chained(q) ==
    \A j \in 1 .. Len(q) : q[j].at = IF j = 1 THEN 0 ELSE q[j - 1].at + q[j - 1].length

RxTyped ==
    /\ buf \in [1 .. BufLen -> Nat] /\ len \in 0 .. BufLen /\ dataidx \in 0 .. len
    /\ pc \in {"idle", "split"} /\ received \in 0 .. MaxDatagrams
    /\ dispatched \in Seq([at : Nat, length : Nat, handled : BOOLEAN])

(* The position is where the last PDU ends, and a call that has returned   *)
(* had a reason to.                                                        *)
RxInv ==
    /\ RxTyped
    /\ \A j \in 1 .. Len(dispatched) : PduIn(buf, len, dispatched[j].at, dispatched[j].length)
    /\ Chained(dispatched)
    /\ dataidx = EndOf(dispatched)
    /\ pc = "idle" /\ received > 0 => dataidx >= len \/ GivesUp(dataidx)

(* Nothing was received.                                                   *)
LEMMA RxInit == ASSUME MultiRxAssumption, Init PROVE RxInv
<1>1. /\ buf \in [1 .. BufLen -> Nat] /\ len = 0 /\ dataidx = 0 /\ pc = "idle" /\ received = 0
      /\ dispatched = <<>> /\ BufLen \in Nat /\ MaxDatagrams \in Nat
  BY DEF Init, MultiRxAssumption
<1> QED BY <1>1 DEF RxInv, RxTyped, Chained, EndOf

(* What check_p_hdr_til accepts is a complete PDU.  The head and the tail  *)
(* are no lengths of the header, so the tail it looks at is behind it.     *)
LEMMA Accepted ==
    ASSUME MultiRxAssumption, RxTyped, dataidx < len, check_p_hdr_til(dataidx) # 0
    PROVE  /\ check_p_hdr_til(dataidx) = word(dataidx + 1)
           /\ PduIn(buf, len, dataidx, check_p_hdr_til(dataidx))
<1> DEFINE n == word(dataidx + 1)
<1>1. check_p_hdr_til(dataidx) = n /\ word(dataidx) = HEAD /\ n + dataidx <= len /\ n # 0
      /\ word(dataidx + n - 1) = TAIL
  BY DEF check_p_hdr_til, InReceived, HasTail, TIL
<1>2. /\ BufLen \in Nat /\ len \in 0 .. BufLen /\ dataidx \in Nat /\ buf \in [1 .. BufLen -> Nat]
      /\ HEAD # TAIL /\ TAIL # 2
  <2>1. BufLen \in Nat /\ HEAD # TAIL /\ TAIL \notin 0 .. HDR
    BY DEF MultiRxAssumption
  <2>2. 2 \in 0 .. HDR
    BY DEF HDR
  <2>3. TAIL # 2
    BY <2>1, <2>2
  <2>4. len \in 0 .. BufLen /\ dataidx \in 0 .. len /\ buf \in [1 .. BufLen -> Nat]
    BY DEF RxTyped
  <2>5. dataidx \in Nat
    BY <2>1, <2>4
  <2> QED BY <2>1, <2>3, <2>4, <2>5
<1>3. n \in Nat
  BY <1>2 DEF word
<1> HIDE DEF n
<1>4. n # 1
  BY <1>1, <1>2, <1>3
<1>5. n # 2
  <2>1. CASE n = 2
    <3>1. word(dataidx + n - 1) = word(dataidx + 1)
      BY <2>1, <1>2
    <3> QED BY <3>1, <2>1, <1>1, <1>2 DEF n
  <2> QED BY <2>1
<1>6. n >= 3
  BY <1>1, <1>3, <1>4, <1>5
<1>7. /\ word(dataidx) = buf[dataidx + 1] /\ word(dataidx + 1) = buf[dataidx + 2]
      /\ word(dataidx + n - 1) = buf[dataidx + n]
  <2>1. /\ dataidx \in 0 .. BufLen - 1 /\ dataidx + 1 \in 0 .. BufLen - 1
        /\ dataidx + n - 1 \in 0 .. BufLen - 1
    BY <1>1, <1>2, <1>3, <1>6
  <2>2. dataidx + n - 1 + 1 = dataidx + n /\ dataidx + 1 + 1 = dataidx + 2
    BY <1>2, <1>3
  <2> QED BY <2>1, <2>2 DEF word
<1>8. dataidx + n <= len
  BY <1>1, <1>2, <1>3
<1> QED BY <1>1, <1>6, <1>7, <1>8 DEF PduIn, HDR, n

(* A PDU at the position would have been accepted.                         *)
LEMMA NotAccepted ==
    ASSUME RxTyped, BufLen \in Nat, GivesUp(dataidx), NEW n \in Nat
    PROVE  ~PduIn(buf, len, dataidx, n)
<1> SUFFICES ASSUME PduIn(buf, len, dataidx, n) PROVE FALSE
  OBVIOUS
<1>1. /\ n >= 3 /\ dataidx + n <= len /\ len \in 0 .. BufLen /\ dataidx \in Nat
      /\ buf[dataidx + 1] = HEAD /\ buf[dataidx + 2] = n /\ buf[dataidx + n] = TAIL
  BY DEF PduIn, RxTyped, HDR
<1>2. /\ dataidx \in 0 .. BufLen - 1 /\ dataidx + 1 \in 0 .. BufLen - 1
      /\ dataidx + n - 1 \in 0 .. BufLen - 1
  BY <1>1
<1>3. dataidx + n - 1 + 1 = dataidx + n /\ dataidx + 1 + 1 = dataidx + 2 /\ n + dataidx <= len
  BY <1>1
<1>4. word(dataidx) = HEAD /\ word(dataidx + 1) = n /\ word(dataidx + n - 1) = TAIL
  BY <1>1, <1>2, <1>3 DEF word
<1>5. check_p_hdr_til(dataidx) = n
  BY <1>3, <1>4 DEF check_p_hdr_til, InReceived, HasTail, TIL
<1> QED BY <1>1, <1>5 DEF GivesUp

(* A datagram arrives.                                                     *)
LEMMA MultiRxKeepsRxInv ==
    ASSUME MultiRxAssumption, RxInv, NEW d \in Datagrams, multi_rx(d)
    PROVE  RxInv'
<1>1. d \in Seq(Nat) /\ Len(d) \in 1 .. BufLen /\ BufLen \in Nat /\ MaxDatagrams \in Nat
  BY DEF MultiRxAssumption
<1>2. \A k \in 1 .. BufLen : k <= Len(d) => d[k] \in Nat
  BY <1>1
<1>3. buf' \in [1 .. BufLen -> Nat]
  BY <1>2 DEF multi_rx, RxInv, RxTyped
<1>4. len' \in 0 .. BufLen /\ dataidx' = 0 /\ pc' = "split" /\ dispatched' = <<>>
      /\ received' \in 0 .. MaxDatagrams
  BY <1>1 DEF multi_rx, RxInv, RxTyped
<1>5. RxTyped'
  BY <1>1, <1>3, <1>4 DEF RxTyped
<1>6. 1 .. Len(dispatched') = {} /\ EndOf(dispatched') = 0
  BY <1>4 DEF EndOf
<1> QED BY <1>4, <1>5, <1>6 DEF RxInv, Chained

(* A PDU is handed on.                                                     *)
LEMMA SplitKeepsRxInv ==
    ASSUME MultiRxAssumption, RxInv, Split
    PROVE  RxInv'
<1> DEFINE n == check_p_hdr_til(dataidx)
           e == multi_pdu_rx(dataidx)
           Pdu == [at : Nat, length : Nat, handled : BOOLEAN]
<1>1. n = word(dataidx + 1) /\ PduIn(buf, len, dataidx, n)
  BY Accepted DEF RxInv, Split
<1>2. dispatched' = Append(dispatched, e) /\ dataidx' = dataidx + n /\ UNCHANGED <<buf, len, pc, received>>
      /\ pc = "split"
  BY DEF Split, AfterPdu
<1>3. e.at = dataidx /\ e.length = n
  BY <1>1 DEF multi_pdu_rx
<1>4. dataidx \in Nat /\ n \in Nat
  <2>1. word(dataidx + 1) \in Nat
    BY DEF word, RxInv, RxTyped, MultiRxAssumption
  <2> QED BY <2>1, <1>1 DEF RxInv, RxTyped
<1>5. e \in Pdu
  BY <1>1, <1>4 DEF multi_pdu_rx
<1> HIDE DEF n, e
<1>6. dispatched \in Seq(Pdu)
  BY DEF RxInv, RxTyped
<1> HIDE DEF Pdu
<1>7. /\ dispatched' \in Seq(Pdu) /\ Len(dispatched') = Len(dispatched) + 1 /\ Len(dispatched) \in Nat
      /\ \A j \in 1 .. Len(dispatched) : dispatched'[j] = dispatched[j]
      /\ dispatched'[Len(dispatched) + 1] = e
  BY <1>2, <1>5, <1>6
<1>8. \A j \in 1 .. Len(dispatched') : PduIn(buf, len, dispatched'[j].at, dispatched'[j].length)
  <2>1. \A j \in 1 .. Len(dispatched) : PduIn(buf, len, dispatched'[j].at, dispatched'[j].length)
    BY <1>7 DEF RxInv
  <2>2. PduIn(buf, len, dispatched'[Len(dispatched) + 1].at, dispatched'[Len(dispatched) + 1].length)
    BY <1>1, <1>3, <1>7
  <2>3. \A j \in 1 .. Len(dispatched') : j \in 1 .. Len(dispatched) \/ j = Len(dispatched) + 1
    BY <1>7
  <2> QED BY <2>1, <2>2, <2>3
<1>9. Chained(dispatched')
  <2>1. ASSUME NEW j \in 1 .. Len(dispatched')
        PROVE  dispatched'[j].at = IF j = 1 THEN 0 ELSE dispatched'[j - 1].at + dispatched'[j - 1].length
    <3>1. CASE j \in 1 .. Len(dispatched)
      <4>1. j # 1 => j - 1 \in 1 .. Len(dispatched)
        BY <3>1, <1>7
      <4> QED BY <3>1, <4>1, <1>7 DEF RxInv, Chained
    <3>2. CASE j = Len(dispatched) + 1
      <4>1. dispatched'[j].at = EndOf(dispatched)
        BY <3>2, <1>3, <1>7 DEF RxInv
      <4>2. CASE Len(dispatched) = 0
        <5>1. dispatched = <<>> /\ j = 1
          BY <4>2, <3>2, <1>6, <1>7, EmptySeq
        <5> QED BY <5>1, <4>1 DEF EndOf
      <4>3. CASE Len(dispatched) # 0
        <5>1. dispatched # <<>> /\ j # 1 /\ j - 1 = Len(dispatched) /\ j - 1 \in 1 .. Len(dispatched)
          BY <4>3, <3>2, <1>7
        <5> QED BY <5>1, <4>1, <1>7 DEF EndOf
      <4> QED BY <4>2, <4>3
    <3> QED BY <3>1, <3>2, <1>7
  <2> QED BY <2>1 DEF Chained
<1>10. dataidx' = EndOf(dispatched')
  <2>1. dispatched' # <<>> /\ dispatched'[Len(dispatched')] = e
    BY <1>7
  <2> QED BY <2>1, <1>2, <1>3 DEF EndOf
<1>11. dataidx' \in 0 .. len
  BY <1>1, <1>2, <1>4 DEF PduIn, RxInv, RxTyped, MultiRxAssumption
<1>12. RxTyped'
  BY <1>2, <1>7, <1>11 DEF RxInv, RxTyped, Pdu
<1> QED BY <1>2, <1>8, <1>9, <1>10, <1>12 DEF RxInv

(* multi_data_rx returns.                                                  *)
LEMMA ReturnKeepsRxInv ==
    ASSUME MultiRxAssumption, RxInv, Return
    PROVE  RxInv'
<1>1. UNCHANGED <<buf, len, dataidx, dispatched, received>> /\ pc' = "idle"
      /\ (dataidx < len => GivesUp(dataidx))
  BY DEF Return
<1>2. dataidx >= len \/ GivesUp(dataidx)
  BY <1>1 DEF RxInv, RxTyped, MultiRxAssumption
<1>3. GivesUp(dataidx)' <=> GivesUp(dataidx)
  BY <1>1 DEF GivesUp, check_p_hdr_til, word, InReceived, HasTail
<1> QED BY <1>1, <1>2, <1>3 DEF RxInv, RxTyped

(* Together.                                                               *)
LEMMA RxStep == ASSUME MultiRxAssumption, RxInv, [Next]_vars PROVE RxInv'
<1>1. CASE UNCHANGED vars
  <2>1. UNCHANGED <<buf, len, pc, dataidx, dispatched, received>>
    BY <1>1 DEF vars
  <2>2. GivesUp(dataidx)' <=> GivesUp(dataidx)
    BY <2>1 DEF GivesUp, check_p_hdr_til, word, InReceived, HasTail
  <2> QED BY <2>1, <2>2 DEF RxInv, RxTyped
<1> QED BY <1>1, MultiRxKeepsRxInv, SplitKeepsRxInv, ReturnKeepsRxInv DEF Next, Splitting

(* What RxInv says of the buffer is what the property says of the datagram. *)
LEMMA RxAccounted == ASSUME MultiRxAssumption, RxInv PROVE TypeOK /\ DatagramAccounted
<1>1. /\ BufLen \in Nat /\ len \in 0 .. BufLen /\ buf \in [1 .. BufLen -> Nat]
      /\ dispatched \in Seq([at : Nat, length : Nat, handled : BOOLEAN])
  BY DEF RxInv, RxTyped, MultiRxAssumption
<1>2. \A k \in 1 .. len : datagram[k] = buf[k]
  <2>1. buf \in Seq(Nat) /\ Len(buf) = BufLen
    BY <1>1
  <2> QED BY <2>1, <1>1, SubSeqProperties DEF datagram
<1>3. ASSUME NEW j \in Nat, NEW n \in Nat
      PROVE  IsPdu(j, n) <=> PduIn(buf, len, j, n)
  <2>1. n >= HDR /\ j + n <= len => j + 1 \in 1 .. len /\ j + 2 \in 1 .. len /\ j + n \in 1 .. len
    BY <1>1 DEF HDR
  <2> QED BY <2>1, <1>2 DEF IsPdu, PduIn
<1>4. DOMAIN dispatched = 1 .. Len(dispatched)
      /\ \A j \in 1 .. Len(dispatched) : dispatched[j].at \in Nat /\ dispatched[j].length \in Nat
  <2>1. \A j \in 1 .. Len(dispatched) : dispatched[j] \in [at : Nat, length : Nat, handled : BOOLEAN]
    BY <1>1, ElementOfSeq
  <2> QED BY <2>1, <1>1
<1>5. DispatchedWasReceived
  BY <1>3, <1>4 DEF DispatchedWasReceived, RxInv, Chained
<1>6. NothingLeftBehind
  <2> SUFFICES ASSUME pc = "idle", received > 0, NEW n \in 1 .. len
               PROVE  ~IsPdu(EndOf(dispatched), n)
    BY DEF NothingLeftBehind, EndOf
  <2>1. n \in Nat /\ dataidx = EndOf(dispatched) /\ dataidx \in Nat
    BY <1>1 DEF RxInv, RxTyped
  <2>2. ~PduIn(buf, len, dataidx, n)
    <3>1. CASE GivesUp(dataidx)
      BY <3>1, <2>1, <1>1, NotAccepted DEF RxInv
    <3>2. CASE dataidx >= len
      BY <3>2, <2>1, <1>1 DEF PduIn, HDR
    <3> QED BY <3>1, <3>2 DEF RxInv
  <2> QED BY <2>1, <2>2, <1>3
<1>7. TypeOK
  BY <1>1 DEF TypeOK, RxInv, RxTyped
<1> QED BY <1>5, <1>6, <1>7 DEF DatagramAccounted

-----------------------------------------------------------------------------
(* Sending.  The marked services that multi_tx has passed.                 *)
Passed(flgs, n) == {s \in flgs : s < n}

(* The first l bytes of b are the first l of the data of s.                *)
BytesOf(s, b, l) == \A k \in 1 .. l : b[k] = [from |-> s, offset |-> k - 1]

(* s is the greatest of S.                                                 *)
IsLast(s, S) == s \in S /\ \A t \in S : t <= s

(* While multi_tx collects there is a byte per service that it has passed, *)
(* and the bytes are the last one's.                                       *)
TxInv ==
    /\ Tx!TypeOK
    /\ txpc = "collect" =>
           /\ txlen = Cardinality(Passed(flg, i)) /\ txlen <= i
           /\ txlen > 0 => \E s \in Passed(flg, i) : IsLast(s, Passed(flg, i))
           /\ \A s \in Tx!Services : IsLast(s, Passed(flg, i)) => BytesOf(s, txbuf, txlen)

(* The set MultiTx counts is finite, and the count is the same operator.   *)
LEMMA Counts == \A S : Tx!Cardinality(S) = Cardinality(S)
BY DEF Tx!Cardinality, Cardinality, Tx!IsFiniteSet, IsFiniteSet

(* Finitely many services have been passed.                                *)
LEMMA PassedFinite ==
    ASSUME NEW flgs \in SUBSET Nat, NEW n \in Nat
    PROVE  IsFiniteSet(Passed(flgs, n))
<1>1. IsFiniteSet(0 .. n)
  BY FS_Interval
<1>2. Passed(flgs, n) \in SUBSET (0 .. n)
  <2>1. \A s \in flgs : s < n => s \in 0 .. n
    OBVIOUS
  <2> QED BY <2>1, Zenon DEF Passed
<1> QED BY <1>1, <1>2, FS_Subset

(* Passing a service counts it if it is marked.                            *)
LEMMA PassedNext ==
    ASSUME NEW flgs \in SUBSET Nat, NEW n \in Nat
    PROVE  /\ n \in flgs => /\ Passed(flgs, n + 1) = Passed(flgs, n) \cup {n}
                            /\ Cardinality(Passed(flgs, n + 1)) = Cardinality(Passed(flgs, n)) + 1
           /\ n \notin flgs => Passed(flgs, n + 1) = Passed(flgs, n)
<1>1. n \in flgs => Passed(flgs, n + 1) = Passed(flgs, n) \cup {n}
  <2> SUFFICES ASSUME n \in flgs PROVE Passed(flgs, n + 1) = Passed(flgs, n) \cup {n}
    OBVIOUS
  <2>1. \A s \in flgs : s < n + 1 <=> s < n \/ s = n
    OBVIOUS
  <2> QED BY <2>1, Zenon DEF Passed
<1>2. n \notin flgs => Passed(flgs, n + 1) = Passed(flgs, n)
  <2> SUFFICES ASSUME n \notin flgs PROVE Passed(flgs, n + 1) = Passed(flgs, n)
    OBVIOUS
  <2>1. \A s \in flgs : s < n + 1 <=> s < n
    OBVIOUS
  <2> QED BY <2>1, Zenon DEF Passed
<1>3. n \notin Passed(flgs, n)
  BY DEF Passed
<1>4. Cardinality(Passed(flgs, n) \cup {n}) = Cardinality(Passed(flgs, n)) + 1
  BY <1>3, PassedFinite, FS_AddElement
<1> QED BY <1>1, <1>2, <1>4

(* What the assumption says of the constants.                              *)
LEMMA TxConstants ==
    /\ multi_p_max \in Nat \ {0} /\ TxBytes \in Nat /\ TxBytes >= multi_p_max
    /\ Tx!Services \subseteq Nat
BY MulticastAssumption DEF Tx!MultiTxAssumption, Tx!Services

(* No service is marked.                                                   *)
LEMMA TxInit == ASSUME Tx!Init PROVE TxInv
BY TxConstants DEF Tx!Init, TxInv, Tx!TypeOK, Tx!foreign

(* Calls other than a reception.                                           *)
LEMMA CalledKeepsTxInv == ASSUME TxInv, Tx!Called PROVE TxInv'
<1>1. ASSUME NEW s \in Tx!Services, Tx!Supply(s) PROVE TxInv'
  BY <1>1 DEF Tx!Supply, TxInv, Tx!TypeOK
<1>2. ASSUME NEW icount \in Ticks, Tx!expire_handle(icount) PROVE TxInv'
  BY <1>2 DEF Tx!expire_handle, TxInv, Tx!TypeOK
<1>3. CASE Tx!multi_tx
  <2>1. /\ txlen' = 0 /\ txpc' = "collect" /\ i' = 0 /\ UNCHANGED <<flg, data, txbuf>>
    BY <1>3 DEF Tx!multi_tx, Tx!FirstLen
  <2>2. Tx!TypeOK'
    BY <2>1, TxConstants DEF TxInv, Tx!TypeOK
  <2>3. Passed(flg, 0) = {}
    <3>1. \A s \in flg : s \in Nat
      BY TxConstants DEF TxInv, Tx!TypeOK
    <3>2. \A s \in flg : ~(s < 0)
      BY <3>1
    <3> QED BY <3>2, Zenon DEF Passed
  <2>4. Cardinality(Passed(flg, 0)) = 0
    BY <2>3, FS_EmptySet
  <2>5. \A s \in Tx!Services : ~IsLast(s, Passed(flg, 0))
    BY <2>3 DEF IsLast
  <2> QED BY <2>1, <2>2, <2>4, <2>5 DEF TxInv
<1> QED BY <1>1, <1>2, <1>3 DEF Tx!Called

(* A datagram overwrites the buffer.                                       *)
LEMMA ReceptionKeepsTxInv ==
    ASSUME TxInv, NEW n \in 1 .. TxBytes, Tx!multi_rx(n)
    PROVE  TxInv'
<1>1. /\ txbuf' = [k \in 1 .. TxBytes |-> IF k <= n THEN Tx!foreign ELSE txbuf[k]]
      /\ txlen' = n /\ txpc' = "idle" /\ UNCHANGED <<flg, data, i>>
  BY DEF Tx!multi_rx
<1>2. \A k \in 1 .. TxBytes : txbuf'[k] = Tx!foreign \/ txbuf'[k].from \in Tx!Services
  BY <1>1 DEF TxInv, Tx!TypeOK
<1> QED BY <1>1, <1>2, TxConstants DEF TxInv, Tx!TypeOK

(* A service that is marked puts its bytes in the buffer.                  *)
LEMMA CollectKeepsTxInv == ASSUME TxInv, Tx!Collect PROVE TxInv'
<1>1. /\ txbuf' = [k \in 1 .. TxBytes |-> IF k <= txlen + 1 THEN [from |-> i, offset |-> k - 1] ELSE txbuf[k]]
      /\ txpc = "collect" /\ i < multi_p_max /\ i \in flg
      /\ txlen' = txlen + 1 /\ i' = i + 1 /\ UNCHANGED <<flg, data, txpc>>
  BY DEF Tx!Collect, Tx!Copied, Tx!PassesOver
<1>2. flg \in SUBSET Nat /\ i \in Nat /\ i \in Tx!Services /\ txlen \in Nat /\ txlen <= i
      /\ txlen = Cardinality(Passed(flg, i))
  BY <1>1, TxConstants DEF TxInv, Tx!TypeOK
<1>3. Passed(flg, i') = Passed(flg, i) \cup {i} /\ Cardinality(Passed(flg, i')) = txlen + 1
  BY <1>1, <1>2, PassedNext
<1>4. \A k \in 1 .. TxBytes : txbuf'[k] = Tx!foreign \/ txbuf'[k].from \in Tx!Services
  BY <1>1, <1>2 DEF TxInv, Tx!TypeOK
<1>5. txlen + 1 <= i + 1 /\ i + 1 <= multi_p_max /\ txlen + 1 <= TxBytes
  BY <1>1, <1>2, TxConstants
<1>6. Tx!TypeOK'
  BY <1>1, <1>2, <1>4, <1>5, TxConstants DEF TxInv, Tx!TypeOK
<1>7. ASSUME NEW s \in Tx!Services, IsLast(s, Passed(flg, i'))
      PROVE  BytesOf(s, txbuf', txlen')
  <2>1. s \in Passed(flg, i) \cup {i} /\ i <= s
    BY <1>3, <1>7 DEF IsLast
  <2>2. s = i
    BY <2>1, <1>2, TxConstants DEF Passed
  <2> QED BY <2>2, <1>1, <1>2, <1>5, TxConstants DEF BytesOf
<1>8. txlen' <= i'
  BY <1>1, <1>2, <1>5
<1>9. IsLast(i, Passed(flg, i'))
  BY <1>2, <1>3 DEF IsLast, Passed
<1>10. flg' = flg
  BY <1>1
<1> QED BY <1>1, <1>3, <1>6, <1>7, <1>8, <1>9, <1>10 DEF TxInv, IsLast

(* A service that is not marked is passed over.                            *)
LEMMA SkipKeepsTxInv == ASSUME TxInv, Tx!Skip PROVE TxInv'
<1>1. /\ txpc = "collect" /\ i < multi_p_max /\ i \notin flg
      /\ i' = i + 1 /\ UNCHANGED <<flg, data, txbuf, txlen, txpc>>
  BY DEF Tx!Skip, Tx!PassesOver
<1>2. flg \in SUBSET Nat /\ i \in Nat /\ txlen \in Nat /\ txlen <= i
  BY <1>1, TxConstants DEF TxInv, Tx!TypeOK
<1>3. Passed(flg, i') = Passed(flg, i)
  BY <1>1, <1>2, PassedNext
<1>4. txlen <= i' /\ i' \in 0 .. multi_p_max
  BY <1>1, <1>2, TxConstants
<1>5. Tx!TypeOK'
  BY <1>1, <1>4 DEF TxInv, Tx!TypeOK
<1> QED BY <1>1, <1>3, <1>4, <1>5 DEF TxInv

(* multi_tx ends.                                                          *)
LEMMA EndsKeepTxInv == ASSUME TxInv, Tx!Crash \/ Tx!Send PROVE TxInv'
<1>1. /\ txpc' \in {"dead", "idle"} /\ i' \in 0 .. multi_p_max
      /\ UNCHANGED <<flg, data, txbuf, txlen>>
  BY TxConstants DEF Tx!Crash, Tx!Send, TxInv, Tx!TypeOK
<1> QED BY <1>1 DEF TxInv, Tx!TypeOK

(* Together.                                                               *)
LEMMA TxStep == ASSUME TxInv, [Tx!Next]_(Tx!vars) PROVE TxInv'
<1>1. CASE UNCHANGED Tx!vars
  BY <1>1 DEF Tx!vars, TxInv, Tx!TypeOK
<1> QED BY <1>1, CalledKeepsTxInv, ReceptionKeepsTxInv, CollectKeepsTxInv, SkipKeepsTxInv, EndsKeepTxInv
        DEF Tx!Next, Tx!Collecting

(* What is sent when every service has been passed.                        *)
LEMMA SendSendsOwnBytes ==
    ASSUME TxInv, Tx!Send, sent' # <<>>
    PROVE  LET last == CHOOSE s \in flg : \A t \in flg : t <= s
           IN  sent' = [k \in 1 .. Tx!Cardinality(flg) |-> [from |-> last, offset |-> k - 1]]
<1> DEFINE last == CHOOSE s \in flg : \A t \in flg : t <= s
<1>1. /\ txpc = "collect" /\ i = multi_p_max
      /\ sent' = [k \in 1 .. txlen |-> IF k <= TxBytes THEN txbuf[k] ELSE Tx!foreign]
  BY DEF Tx!Send
<1>2. Passed(flg, i) = flg /\ flg \in SUBSET Nat /\ flg \subseteq Tx!Services
  <2>1. flg \subseteq Tx!Services
    BY DEF TxInv, Tx!TypeOK
  <2>2. \A s \in Tx!Services : s \in Nat /\ s < multi_p_max
    BY TxConstants DEF Tx!Services
  <2>3. \A s \in flg : s < i
    BY <2>1, <2>2, <1>1
  <2>4. Passed(flg, i) = flg
    BY <2>3, Zenon DEF Passed
  <2> QED BY <2>1, <2>2, <2>4
<1>3. txlen = Cardinality(flg) /\ txlen \in 0 .. TxBytes
  BY <1>1, <1>2 DEF TxInv, Tx!TypeOK
<1>4. txlen > 0
  <2>1. CASE txlen = 0
    <3>1. sent' = <<>>
      BY <2>1, <1>1
    <3> QED BY <3>1
  <2> QED BY <2>1, <1>3, TxConstants
<1>5. \E s \in flg : \A t \in flg : t <= s
  BY <1>1, <1>2, <1>4 DEF TxInv, IsLast
<1>6. IsLast(last, flg)
  BY <1>5 DEF IsLast
<1> HIDE DEF last
<1>7. BytesOf(last, txbuf, txlen)
  BY <1>1, <1>2, <1>6 DEF TxInv, IsLast
<1>8. \A k \in 1 .. txlen : (IF k <= TxBytes THEN txbuf[k] ELSE Tx!foreign) = [from |-> last, offset |-> k - 1]
  BY <1>3, <1>7, TxConstants DEF BytesOf
<1>9. sent' = [k \in 1 .. txlen |-> [from |-> last, offset |-> k - 1]]
  BY <1>1, <1>8
<1> QED BY <1>3, <1>9, Counts DEF last

-----------------------------------------------------------------------------
(* A behaviour of Multicast is one of each half: each half's step is one   *)
(* of the other's or leaves it alone.                                      *)
LEMMA MulticastStep ==
    ASSUME MultiRxAssumption, [MulticastNext]_allVars
    PROVE  [Next]_vars /\ [Tx!Next]_(Tx!vars)
<1>1. ASSUME NEW d \in Datagrams, Receive(d)
      PROVE  Next /\ Tx!Next
  <2>1. BytesSeen(d) \in 1 .. TxBytes
    BY TxConstants DEF BytesSeen, MultiRxAssumption
  <2> QED BY <1>1, <2>1 DEF Receive, Next, Tx!Next
<1>2. CASE SplitOn
  BY <1>2 DEF SplitOn, Next, txVars, Tx!vars
<1>3. CASE TxCalled \/ CollectOn
  BY <1>3 DEF TxCalled, CollectOn, Tx!Next
<1>4. CASE UNCHANGED allVars
  BY <1>4 DEF allVars, txVars, Tx!vars
<1> QED BY <1>1, <1>2, <1>3, <1>4 DEF MulticastNext

(* So each half has its invariant.                                         *)
LEMMA HalvesCorrect == MulticastSpec => []RxInv /\ []TxInv
<1>1. MulticastInit => RxInv /\ TxInv
  BY RxInit, TxInit, MultiRxAssumption DEF MulticastInit
<1>2. RxInv /\ TxInv /\ [MulticastNext]_allVars => RxInv' /\ TxInv'
  BY MulticastStep, RxStep, TxStep, MultiRxAssumption
<1> QED BY <1>1, <1>2, PTL DEF MulticastSpec

(* multi_rx and multi_tx: positions and lengths stay inside the buffer     *)
(* that they share.                                                        *)
THEOREM TypeCorrect == MulticastSpec => []BothTyped
<1>1. RxInv /\ TxInv => BothTyped
  BY RxAccounted, MultiRxAssumption DEF BothTyped, TxInv
<1> QED BY <1>1, HalvesCorrect, PTL

(* multi_data_rx: whatever a datagram holds and whatever was in the buffer *)
(* before, the complete PDUs at its start are handed on, and nothing else. *)
THEOREM DatagramAccountedCorrect == MulticastSpec => []DatagramAccounted
<1>1. RxInv => DatagramAccounted
  BY RxAccounted, MultiRxAssumption
<1> QED BY <1>1, HalvesCorrect, PTL

(* multi_tx: a datagram has a byte per marked service, all of them the     *)
(* last one's, and none that was received.                                 *)
THEOREM SendsOwnBytesCorrect == MulticastSpec => SendsOwnBytes
<1> DEFINE Own ==
      sent' # sent /\ sent' # <<>> =>
          LET last == CHOOSE s \in flg : \A t \in flg : t <= s
          IN  sent' = [k \in 1 .. Tx!Cardinality(flg) |-> [from |-> last, offset |-> k - 1]]
<1>1. TxInv /\ [MulticastNext]_allVars => [Own]_(Tx!vars)
  <2> SUFFICES ASSUME TxInv, [Tx!Next]_(Tx!vars), sent' # sent, sent' # <<>>
               PROVE  Tx!Send
    BY MulticastStep, SendSendsOwnBytes, MultiRxAssumption
  <2> QED BY DEF Tx!vars, Tx!Next, Tx!Called, Tx!Supply, Tx!expire_handle, Tx!multi_tx, Tx!multi_rx,
              Tx!Collecting, Tx!Collect, Tx!Skip, Tx!Crash
<1>2. MulticastSpec => [][Own]_(Tx!vars)
  <2> HIDE DEF Own
  <2> QED BY <1>1, HalvesCorrect, PTL DEF MulticastSpec
<1> QED BY <1>2, PTL DEF SendsOwnBytes, Tx!SendsOwnBytes
=============================================================================
