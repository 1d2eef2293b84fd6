---------------------------- MODULE CmdTxProofs -----------------------------
(***************************************************************************)
(* Safety of CmdTx for any number of types, any header sizes, any command  *)
(* length and any frame lengths not below the MAC header.                  *)
(***************************************************************************)
EXTENDS CmdTx, WellFoundedInduction, TLAPS

(* Within a call, a type already visited has data left only if its         *)
(* sub-packet filled the frame, and no type is visited twice.              *)
VisitedInv ==
    pc = "loop" =>
        /\ \A u \in 0 .. i - 1 : u \in Types /\ cmd_buf[u].len # 0 => wlen = max_maclen
        /\ \A t \in frame : t < i

(* firstpkg tells whether the current command has a sub-packet yet.        *)
FirstpkgInv == \A t \in Types : cmd_buf[t].firstpkg <=> wire[t] = <<>>

(* f holds the payload of the first k sub-packets of s.                    *)
Sums(f, s) == /\ f \in [0 .. Len(s) -> Nat] /\ f[0] = 0
              /\ \A k \in 1 .. Len(s) : f[k] = f[k - 1] + s[k].n

(* What LenIsRemaining says, with the sums of the sub-packets for Payload. *)
RemainingInv ==
    \A t \in Types : cmd_buf[t].index # 0 =>
        \E f : Sums(f, wire[t]) /\ f[Len(wire[t])] + cmd_buf[t].len = CmdLen

IInv == TypeOK /\ FrameFits /\ LowerTypesFirst /\ FirstpkgOnWire
          /\ VisitedInv /\ FirstpkgInv

USE SizesAssumption

-----------------------------------------------------------------------------
(* Nothing is loaded and no call made: every part holds.                   *)
LEMMA InitIInv == Init => IInv
<1> SUFFICES ASSUME Init PROVE IInv
  OBVIOUS
<1>1. TypeOK
  BY DEF Init, TypeOK, Types
<1>2. FrameFits /\ LowerTypesFirst /\ FirstpkgOnWire /\ VisitedInv /\ FirstpkgInv
  BY DEF Init, FrameFits, LowerTypesFirst, FirstpkgOnWire, VisitedInv, FirstpkgInv
<1> QED BY <1>1, <1>2 DEF IInv

(* Loading a command, outside of any call.                                 *)
LEMMA LoadKeepsIInv ==
    ASSUME IInv, NEW t \in Types, tx_cmd_indata(t)
    PROVE  IInv'
<1> DEFINE fresh == [len |-> CmdLen, firstpkg |-> TRUE, fragment |-> FALSE,
                     index |-> (cmd_buf[t].index + 1) % 64, sublen |-> 0]
<1>1. /\ pc = "idle" /\ loads < MaxLoads /\ loads' = loads + 1
      /\ cmd_buf' = [cmd_buf EXCEPT ![t] = fresh]
      /\ wire' = [wire EXCEPT ![t] = <<>>]
      /\ UNCHANGED <<pc, i, wlen, max_maclen, frame>>
  BY DEF IInv, TypeOK, tx_cmd_indata, ResetFirstpkg, call
<1>2. fresh \in [len : 0 .. CmdLen, firstpkg : BOOLEAN, fragment : BOOLEAN,
                 index : 0 .. 63, sublen : Nat]
  <2>1. cmd_buf[t].index \in 0 .. 63
    BY DEF IInv, TypeOK
  <2>2. (cmd_buf[t].index + 1) % 64 \in 0 .. 63
    BY <2>1
  <2> QED BY <2>2
<1>3. fresh.firstpkg = TRUE
  OBVIOUS
<1> HIDE DEF fresh
<1>4. TypeOK'
  BY <1>1, <1>2 DEF IInv, TypeOK
<1>5. FirstpkgOnWire' /\ FirstpkgInv'
  BY <1>1, <1>3 DEF IInv, TypeOK, FirstpkgOnWire, FirstpkgInv
<1>6. FrameFits' /\ LowerTypesFirst' /\ VisitedInv'
  BY <1>1 DEF IInv, FrameFits, LowerTypesFirst, VisitedInv
<1> QED BY <1>4, <1>5, <1>6 DEF IInv

(* The one step of tx_cmd that sends: the case that needs VisitedInv.      *)
LEMMA SendKeepsIInv ==
    ASSUME IInv, Send
    PROVE  IInv'
<1> DEFINE sl == sublen(i)
           rest == cmd_buf[i].len - (sl - CMD_HDR_LEN)
           pkt == [firstpkg |-> cmd_buf[i].firstpkg, fragment |-> cmd_buf[i].fragment,
                   index |-> cmd_buf[i].index, sublen |-> cmd_buf[i].sublen,
                   from |-> 0, n |-> sl - CMD_HDR_LEN]
           buf == [cmd_buf[i] EXCEPT !.firstpkg = FALSE, !.len = rest,
                                     !.fragment = rest # 0, !.sublen = sl]
<1>1. /\ i \in Types /\ i \in 0 .. MAX_CMD_TYPE - 1 /\ pc = "loop"
      /\ cmd_buf[i].len \in 1 .. CmdLen
      /\ wlen \in Nat /\ max_maclen \in Nat
      /\ max_maclen - wlen > CMD_HDR_LEN
  <2>1. pc = "loop" /\ i < MAX_CMD_TYPE /\ cmd_buf[i].len # 0 /\ mac_remainlen > CMD_HDR_LEN
    BY DEF Send, InLoop, HasSpace
  <2>2. i \in 0 .. MAX_CMD_TYPE /\ wlen \in Nat /\ max_maclen \in Nat
    BY DEF IInv, TypeOK
  <2>3. i \in 0 .. MAX_CMD_TYPE - 1 /\ i \in Types
    BY <2>1, <2>2 DEF Types
  <2>4. cmd_buf[i].len \in 0 .. CmdLen
    BY <2>3 DEF IInv, TypeOK
  <2> QED BY <2>1, <2>2, <2>3, <2>4 DEF mac_remainlen
<1>2. /\ sl \in Nat /\ sl > CMD_HDR_LEN
      /\ wlen + sl <= max_maclen
      /\ rest \in 0 .. CmdLen
      /\ rest # 0 => wlen + sl = max_maclen
  BY <1>1 DEF sublen, Fits, mac_remainlen
<1>3. pkt \in SubPackets
  <2>1. cmd_buf[i] \in [len : 0 .. CmdLen, firstpkg : BOOLEAN, fragment : BOOLEAN,
                        index : 0 .. 63, sublen : Nat]
    BY <1>1 DEF IInv, TypeOK
  <2>2. sl - CMD_HDR_LEN \in Nat \ {0}
    BY <1>2
  <2> HIDE DEF sl
  <2> QED BY <2>1, <2>2 DEF SubPackets
<1>4. /\ wire' = [wire EXCEPT ![i] = Append(@, pkt)]
      /\ wlen' = wlen + sl
      /\ frame' = frame \cup {i}
      /\ cmd_buf' = [cmd_buf EXCEPT ![i] = buf]
      /\ i' = i + 1
      /\ UNCHANGED <<pc, max_maclen, loads>>
  BY <1>1 DEF Send, Rest, IInv, TypeOK
<1>5. pkt.firstpkg = cmd_buf[i].firstpkg
  OBVIOUS
<1>6. /\ buf \in [len : 0 .. CmdLen, firstpkg : BOOLEAN, fragment : BOOLEAN,
                   index : 0 .. 63, sublen : Nat]
       /\ buf.len = rest /\ buf.firstpkg = FALSE
  <2>1. cmd_buf[i] \in [len : 0 .. CmdLen, firstpkg : BOOLEAN, fragment : BOOLEAN,
                        index : 0 .. 63, sublen : Nat]
    BY <1>1 DEF IInv, TypeOK
  <2> HIDE DEF sl, rest
  <2> QED BY <1>2, <2>1
<1> HIDE DEF sl, rest, pkt, buf
<1>7. /\ cmd_buf'[i] = buf
       /\ \A t \in Types : t # i => cmd_buf'[t] = cmd_buf[t]
  BY <1>1, <1>4 DEF IInv, TypeOK
<1>8. TypeOK'
  <2>1. cmd_buf' \in [Types -> [len : 0 .. CmdLen, firstpkg : BOOLEAN,
                                fragment : BOOLEAN, index : 0 .. 63, sublen : Nat]]
    BY <1>1, <1>4, <1>6 DEF IInv, TypeOK
  <2>2. wire' \in [Types -> Seq(SubPackets)]
    BY <1>1, <1>3, <1>4 DEF IInv, TypeOK
  <2>3. i' \in 0 .. MAX_CMD_TYPE /\ wlen' \in Nat
    BY <1>1, <1>2, <1>4
  <2>4. frame' \in SUBSET Types
    BY <1>1, <1>4 DEF IInv, TypeOK
  <2> QED BY <2>1, <2>2, <2>3, <2>4, <1>4 DEF IInv, TypeOK
<1>9. FrameFits'
  BY <1>2, <1>4 DEF FrameFits
<1>10. \A u \in 0 .. i - 1 : u \in Types /\ cmd_buf[u].len = 0 /\ cmd_buf'[u] = cmd_buf[u]
  <2> TAKE u \in 0 .. i - 1
  <2>1. u \in Types /\ u # i
    BY <1>1 DEF Types
  <2>2. wlen # max_maclen
    BY <1>1
  <2> QED BY <1>1, <1>7, <2>1, <2>2 DEF IInv, VisitedInv
<1>11. LowerTypesFirst'
  BY <1>1, <1>4, <1>10 DEF IInv, VisitedInv, LowerTypesFirst, Types
<1>12. VisitedInv'
  <2>1. ASSUME NEW u \in 0 .. i, cmd_buf'[u].len # 0 PROVE wlen' = max_maclen'
    <3>1. u = i
      BY <1>1, <1>10, <2>1
    <3> QED BY <1>2, <1>4, <1>6, <1>7, <2>1, <3>1
  <2>2. \A t \in frame' : t < i'
    BY <1>1, <1>4 DEF IInv, TypeOK, VisitedInv, Types
  <2>3. 0 .. i' - 1 = 0 .. i
    BY <1>1, <1>4
  <2> QED BY <2>1, <2>2, <2>3 DEF VisitedInv
<1>13. FirstpkgOnWire' /\ FirstpkgInv'
  <2>1. wire[i] \in Seq(SubPackets) /\ wire'[i] = Append(wire[i], pkt)
    BY <1>1, <1>4 DEF IInv, TypeOK
  <2>2. \A k \in DOMAIN wire'[i] : wire'[i][k].firstpkg <=> k = 1
    <3>1. CASE wire[i] = <<>>
      BY <1>1, <1>5, <2>1, <3>1 DEF IInv, FirstpkgInv
    <3>2. CASE wire[i] # <<>>
      <4>1. pkt.firstpkg = FALSE
        BY <1>1, <1>5, <3>2 DEF IInv, FirstpkgInv, TypeOK
      <4>2. \A k \in DOMAIN wire[i] : wire[i][k].firstpkg <=> k = 1
        BY <1>1 DEF IInv, FirstpkgOnWire
      <4>3. Len(wire[i]) >= 1
        BY <2>1, <3>2
      <4> QED BY <2>1, <4>1, <4>2, <4>3
    <3> QED BY <3>1, <3>2
  <2>3. cmd_buf'[i].firstpkg = FALSE /\ wire'[i] # <<>>
    <3>1. cmd_buf'[i].firstpkg = FALSE
      BY <1>6, <1>7
    <3>2. Len(wire'[i]) = Len(wire[i]) + 1 /\ Len(wire[i]) \in Nat
      BY <1>3, <2>1
    <3> QED BY <3>1, <3>2
  <2>4. \A t \in Types : t # i => wire'[t] = wire[t] /\ cmd_buf'[t] = cmd_buf[t]
    BY <1>4 DEF IInv, TypeOK
  <2> QED BY <2>2, <2>3, <2>4 DEF IInv, FirstpkgOnWire, FirstpkgInv
<1> QED BY <1>8, <1>9, <1>11, <1>12, <1>13 DEF IInv

(* The other turns of the loop leave the buffers alone.                    *)
LEMMA StepIInv == IInv /\ [Next]_vars => IInv'
<1> SUFFICES ASSUME IInv, [Next]_vars PROVE IInv'
  OBVIOUS
<1>1. CASE UNCHANGED vars
  BY <1>1 DEF IInv, vars, call, TypeOK, FrameFits, LowerTypesFirst, FirstpkgOnWire,
      VisitedInv, FirstpkgInv
<1>2. ASSUME NEW t \in Types, tx_cmd_indata(t) PROVE IInv'
  BY <1>2, LoadKeepsIInv
<1>3. ASSUME NEW m \in Maclens, Call(m) PROVE IInv'
  BY <1>3 DEF IInv, Call, TypeOK, FrameFits, LowerTypesFirst, FirstpkgOnWire,
      VisitedInv, FirstpkgInv
<1>4. CASE NothingToSend
  BY <1>4 DEF IInv, NothingToSend, InLoop, TypeOK, FrameFits, LowerTypesFirst,
      FirstpkgOnWire, VisitedInv, FirstpkgInv, Types
<1>5. CASE Send
  BY <1>5, SendKeepsIInv
<1>6. CASE Return
  BY <1>6 DEF IInv, Return, TypeOK, FrameFits, LowerTypesFirst, FirstpkgOnWire,
      VisitedInv, FirstpkgInv
<1> QED BY <1>1, <1>2, <1>3, <1>4, <1>5, <1>6 DEF Next, Tx

(* So the invariant holds in every behaviour.                              *)
LEMMA SpecIInv == Spec => []IInv
BY InitIInv, StepIInv, PTL DEF Spec

-----------------------------------------------------------------------------
(* The least-number principle, from the well-foundedness of the numbers.   *)
LEMMA Least ==
    ASSUME NEW S \in SUBSET Nat, S # {}
    PROVE  \E n \in S : \A m \in S : n <= m
<1>1. PICK n \in S : \A m \in S : ~ (<<m, n>> \in OpToRel(<, Nat))
  BY NatLessThanWellFounded, WFMin
<1>2. ASSUME NEW m \in S PROVE n <= m
  <2>1. <<m, n>> \in Nat \X Nat
    OBVIOUS
  <2>2. ~ (m < n)
    BY <1>1, <2>1 DEF OpToRel
  <2> QED BY <2>2
<1> QED BY <1>2

(* There is one sequence of sums, and Payload is its last element.  The    *)
(* first place where two of them differed would follow one where they      *)
(* agree.                                                                  *)
LEMMA PayloadIsSum ==
    ASSUME NEW s, Len(s) \in Nat, NEW f, Sums(f, s)
    PROVE  Payload(s) = f[Len(s)]
<1> DEFINE IsRecursive(g) ==
               g = [k \in 0 .. Len(s) |-> IF k = 0 THEN 0 ELSE g[k - 1] + s[k].n]
           chosen == CHOOSE g : IsRecursive(g)
           differ == {k \in 0 .. Len(s) : chosen[k] # f[k]}
<1>1. IsRecursive(chosen)
  <2>1. IsRecursive(f)
    BY DEF Sums
  <2> QED BY <2>1
<1>2. Payload(s) = chosen[Len(s)]
  BY DEF Payload
<1> HIDE DEF chosen
<1>3. differ = {}
  <2> SUFFICES ASSUME differ # {} PROVE FALSE
    OBVIOUS
  <2>1. differ \in SUBSET Nat
    OBVIOUS
  <2>2. PICK n \in differ : \A m \in differ : n <= m
    BY <2>1, Least
  <2>3. n # 0
    BY <1>1, <2>2 DEF Sums
  <2>4. n \in 1 .. Len(s) /\ n - 1 \in 0 .. Len(s)
    BY <2>2, <2>3
  <2>5. chosen[n - 1] = f[n - 1]
    BY <2>2, <2>4
  <2>6. chosen[n] = chosen[n - 1] + s[n].n /\ f[n] = f[n - 1] + s[n].n
    BY <1>1, <2>4 DEF Sums
  <2> QED BY <2>2, <2>5, <2>6
<1> QED BY <1>2, <1>3

(* No type has been loaded, so nothing is claimed.                         *)
LEMMA InitRemaining == Init => RemainingInv
BY DEF Init, RemainingInv, Types

(* A new command has no sub-packet, and all its bytes left.                *)
LEMMA LoadKeepsRemaining ==
    ASSUME IInv, RemainingInv, NEW t \in Types, tx_cmd_indata(t)
    PROVE  RemainingInv'
<1> DEFINE f == [k \in {0} |-> 0]
<1>1. /\ wire' = [wire EXCEPT ![t] = <<>>]
      /\ \A u \in Types : u # t => cmd_buf'[u] = cmd_buf[u]
      /\ cmd_buf'[t].len = CmdLen
  BY DEF IInv, TypeOK, tx_cmd_indata
<1>2. wire'[t] = <<>> /\ \A u \in Types : u # t => wire'[u] = wire[u]
  BY <1>1 DEF IInv, TypeOK
<1>3. Sums(f, <<>>) /\ f[Len(<<>>)] + CmdLen = CmdLen
  BY DEF Sums
<1> HIDE DEF f
<1>4. \E g : Sums(g, wire'[t]) /\ g[Len(wire'[t])] + cmd_buf'[t].len = CmdLen
  BY <1>1, <1>2, <1>3
<1> QED BY <1>1, <1>2, <1>4 DEF RemainingInv

(* What a sub-packet carries is what len loses.                            *)
LEMMA SendKeepsRemaining ==
    ASSUME IInv, RemainingInv, Send
    PROVE  RemainingInv'
<1> DEFINE n == sublen(i) - CMD_HDR_LEN
           p == [firstpkg |-> cmd_buf[i].firstpkg, fragment |-> cmd_buf[i].fragment,
                 index |-> cmd_buf[i].index, sublen |-> cmd_buf[i].sublen,
                 from |-> 0, n |-> n]
<1>1. i \in Types /\ cmd_buf[i].len \in 1 .. CmdLen /\ max_maclen - wlen > CMD_HDR_LEN
      /\ max_maclen \in Nat /\ wlen \in Nat
  <2>1. i \in 0 .. MAX_CMD_TYPE /\ i < MAX_CMD_TYPE /\ max_maclen \in Nat /\ wlen \in Nat
    BY DEF IInv, TypeOK, Send, InLoop
  <2>2. i \in Types
    BY <2>1 DEF Types
  <2>3. cmd_buf[i].len \in 0 .. CmdLen
    BY <2>2 DEF IInv, TypeOK
  <2> QED BY <2>1, <2>2, <2>3 DEF Send, HasSpace, mac_remainlen
<1>2. n \in Nat
  BY <1>1 DEF sublen, Fits, mac_remainlen
<1>3. wire' = [wire EXCEPT ![i] = Append(@, p)] /\ p.n = n
  BY DEF Send
<1>4. /\ cmd_buf'[i].len = cmd_buf[i].len - n /\ cmd_buf'[i].index = cmd_buf[i].index
      /\ \A u \in Types : u # i => cmd_buf'[u] = cmd_buf[u]
  BY <1>1 DEF IInv, TypeOK, Send, Rest
<1> HIDE DEF n, p
<1>5. wire[i] \in Seq(SubPackets) /\ wire'[i] = Append(wire[i], p)
      /\ \A u \in Types : u # i => wire'[u] = wire[u]
  BY <1>1, <1>3 DEF IInv, TypeOK
<1>6. ASSUME cmd_buf'[i].index # 0
      PROVE  \E g : Sums(g, wire'[i]) /\ g[Len(wire'[i])] + cmd_buf'[i].len = CmdLen
  <2>1. PICK f : Sums(f, wire[i]) /\ f[Len(wire[i])] + cmd_buf[i].len = CmdLen
    BY <1>1, <1>4, <1>6 DEF RemainingInv
  <2> DEFINE l == Len(wire[i])
             g == [k \in 0 .. l + 1 |-> IF k = l + 1 THEN f[l] + n ELSE f[k]]
  <2>2. l \in Nat /\ Len(wire'[i]) = l + 1
    BY <1>5
  <2>3. wire'[i][l + 1] = p /\ \A k \in 1 .. l : wire'[i][k] = wire[i][k]
    BY <1>5, <2>2
  <2> HIDE DEF l
  <2>4. f \in [0 .. l -> Nat] /\ f[0] = 0 /\ \A k \in 1 .. l : f[k] = f[k - 1] + wire[i][k].n
    BY <2>1 DEF Sums, l
  <2>5. f[l] \in Nat
    BY <2>2, <2>4
  <2>6. g \in [0 .. l + 1 -> Nat] /\ g[0] = 0 /\ g[l + 1] = f[l] + n
    BY <1>2, <2>2, <2>4, <2>5
  <2>7. ASSUME NEW k \in 1 .. l + 1 PROVE g[k] = g[k - 1] + wire'[i][k].n
    <3>1. CASE k = l + 1
      BY <1>3, <2>2, <2>3, <3>1
    <3>2. CASE k # l + 1
      <4>1. k \in 1 .. l /\ k \in 0 .. l + 1 /\ k - 1 \in 0 .. l + 1 /\ k - 1 # l + 1
        BY <2>2, <3>2
      <4> QED BY <2>3, <2>4, <3>2, <4>1
    <3> QED BY <3>1, <3>2
  <2> HIDE DEF g
  <2>8. Sums(g, wire'[i])
    BY <2>2, <2>6, <2>7 DEF Sums
  <2>9. g[l + 1] + cmd_buf'[i].len = CmdLen
    BY <1>1, <1>2, <1>4, <2>1, <2>5, <2>6 DEF l
  <2> QED BY <2>2, <2>8, <2>9
<1> QED BY <1>4, <1>5, <1>6 DEF RemainingInv

(* Nothing else touches len or the sub-packets.                            *)
LEMMA StepRemaining == IInv /\ RemainingInv /\ [Next]_vars => RemainingInv'
<1> SUFFICES ASSUME IInv, RemainingInv, [Next]_vars PROVE RemainingInv'
  OBVIOUS
<1>1. ASSUME NEW t \in Types, tx_cmd_indata(t) PROVE RemainingInv'
  BY <1>1, LoadKeepsRemaining
<1>2. CASE Send
  BY <1>2, SendKeepsRemaining
<1>3. CASE (\E m \in Maclens : Call(m)) \/ NothingToSend \/ Return \/ UNCHANGED vars
  <2>1. UNCHANGED <<cmd_buf, wire>>
    BY <1>3 DEF Call, NothingToSend, Return, vars
  <2> QED BY <2>1 DEF RemainingInv
<1> QED BY <1>1, <1>2, <1>3 DEF Next, Tx

-----------------------------------------------------------------------------
(* len is what is left to send, however a command was cut.                 *)
THEOREM RemainingCorrect == Spec => []LenIsRemaining
<1>1. IInv /\ RemainingInv => LenIsRemaining
  <2> SUFFICES ASSUME IInv, RemainingInv, NEW t \in Types, cmd_buf[t].index # 0
               PROVE  Payload(wire[t]) + cmd_buf[t].len = CmdLen
    BY DEF LenIsRemaining
  <2>1. wire[t] \in Seq(SubPackets)
    BY DEF IInv, TypeOK
  <2>2. Len(wire[t]) \in Nat
    BY <2>1
  <2>3. PICK f : Sums(f, wire[t]) /\ f[Len(wire[t])] + cmd_buf[t].len = CmdLen
    BY DEF RemainingInv
  <2> QED BY <2>2, <2>3, PayloadIsSum
<1>2. Spec => []RemainingInv
  BY InitRemaining, StepRemaining, SpecIInv, PTL DEF Spec
<1> QED BY <1>1, <1>2, SpecIInv, PTL

(* Every field keeps its range, and no sub-packet is without payload.      *)
THEOREM TypeCorrect == Spec => []TypeOK
BY SpecIInv, PTL DEF IInv

(* tx_cmd stays within the frame it was given.                             *)
THEOREM FrameFitsCorrect == Spec => []FrameFits
BY SpecIInv, PTL DEF IInv

(* Lower types are served first.                                           *)
THEOREM PriorityCorrect == Spec => []LowerTypesFirst
BY SpecIInv, PTL DEF IInv

(* firstpkg marks the first sub-packet of each command on the wire.        *)
THEOREM FirstpkgCorrect == Spec => []FirstpkgOnWire
BY SpecIInv, PTL DEF IInv

(* A frame is filled, never beyond its length, and left with room to spare *)
(* only when everything was sent.                                          *)
THEOREM FrameFilledCorrect == Spec => FrameFilled
<1>1. IInv /\ [Next]_vars => FilledUp
  <2> SUFFICES ASSUME IInv, [Next]_vars, pc = "loop", pc' = "idle",
                      NEW t \in Types, cmd_buf[t].len # 0
               PROVE  mac_remainlen <= CMD_HDR_LEN
    BY DEF FilledUp
  <2>1. Return
    BY DEF Next, Tx, tx_cmd_indata, Call, NothingToSend, Send, vars, call
  <2>2. CASE i < MAX_CMD_TYPE
    BY <2>1, <2>2 DEF Return, HasSpace, mac_remainlen, IInv, TypeOK
  <2>3. CASE i = MAX_CMD_TYPE
    BY <2>3 DEF IInv, VisitedInv, TypeOK, Types, mac_remainlen
  <2> QED BY <2>2, <2>3 DEF IInv, TypeOK
<1>2. IInv' => FrameFits'
  BY DEF IInv
<1>3. IInv /\ IInv' /\ [Next]_vars => [FrameFits' /\ FilledUp]_vars
  BY <1>1, <1>2
<1> QED BY <1>3, SpecIInv, PTL DEF Spec, FrameFilled
=============================================================================
