----------------------------- MODULE CmdRxProofs -----------------------------
(***************************************************************************)
(* Safety of rx_cmd's loop for any headers, frames, nodes and lengths.     *)
(***************************************************************************)
EXTENDS CmdRx, SequenceTheorems, WellFoundedInduction, TLAPS

USE DEF MAX_CMD_TYPE

-----------------------------------------------------------------------------
(* The least-number principle, from the well-foundedness of the numbers,   *)
(* and its mirror image in an interval.                                    *)
LEMMA Least ==
    ASSUME NEW S \in SUBSET Nat, S # {}
    PROVE  \E n \in S : \A m \in S : n <= m
<1>1. PICK n \in S : \A m \in S : ~ (<<m, n>> \in OpToRel(<, Nat))
  BY NatLessThanWellFounded, WFMin
<1>2. ASSUME NEW m \in S PROVE n <= m
  <2>1. <<m, n>> \in Nat \X Nat
    OBVIOUS
  <2>2. ~ (m < n)
    BY <1>1, <2>1 DEF OpToRel
  <2> QED BY <2>2
<1> QED BY <1>2

(* A bounded set of numbers that is not empty has a greatest one.          *)
LEMMA Greatest ==
    ASSUME NEW l \in Nat, NEW S \in SUBSET (0 .. l), S # {}
    PROVE  \E n \in S : \A m \in S : m <= n
<1> DEFINE mirrored == {m \in 0 .. l : l - m \in S}
<1>1. mirrored \in SUBSET Nat /\ mirrored # {}
  <2>1. PICK n \in S : TRUE
    OBVIOUS
  <2>2. n \in 0 .. l
    BY <2>1
  <2>3. l - n \in 0 .. l /\ l - (l - n) = n
    BY <2>2
  <2>4. l - n \in mirrored
    BY <2>1, <2>3
  <2>5. mirrored \in SUBSET Nat
    OBVIOUS
  <2> HIDE DEF mirrored
  <2> QED BY <2>4, <2>5
<1>2. PICK n \in mirrored : \A m \in mirrored : n <= m
  <2> HIDE DEF mirrored
  <2> QED BY <1>1, Least
<1>3. ASSUME NEW m \in S PROVE m <= l - n
  <2>1. m \in 0 .. l /\ n \in 0 .. l
    BY <1>2
  <2>2. l - m \in 0 .. l /\ l - (l - m) = m
    BY <2>1
  <2>3. n <= l - m
    BY <1>2, <2>2
  <2> QED BY <2>1, <2>3
<1>4. l - n \in S
  BY <1>2
<1> QED BY <1>3, <1>4

-----------------------------------------------------------------------------
(* The invariant.                                                          *)

Size == MAX_NODE_NUM * 3
Found == [type : UINT8, firstpkg : BOOLEAN, fragment : BOOLEAN, index : 0 .. 63,
          sublen : UINT16, chunk : Nat \X Nat]
Outcomes == {<<n, rx_handler(t), <<c>>>> : n \in Nodes, t \in UINT8, c \in Nat \X Nat}

(* rxlen is where the sub-packet k begins, and found is what lies there.   *)
LoopType ==
    /\ pc \in {"idle", "loop", "killed", "undefined"} /\ frames \in 0 .. MaxFrames
    /\ node \in Nodes /\ IsFrame(frame)
    /\ IF pc = "idle" THEN frame = NoFrame /\ k = 1 ELSE frame \in Frames
    /\ k \in Nat \ {0} /\ rxlen \in Nat
    /\ k <= Len(frame.pdus) + 1 => rxlen = frame.at[k]
    /\ k > Len(frame.pdus) => rxlen >= SubPacketsLen(frame)
    /\ More(rxlen, frame) =>
          /\ found \in Found
          /\ k <= Len(frame.pdus) =>
                found = [type |-> frame.pdus[k].type, firstpkg |-> frame.pdus[k].firstpkg,
                         fragment |-> frame.pdus[k].fragment, index |-> frame.pdus[k].index,
                         sublen |-> frame.pdus[k].sublen, chunk |-> <<frames, k>>]
    /\ handled \in Seq(Outcomes) /\ due \in Seq(Outcomes)
    /\ beyond # <<>> => \E f \in Frames : f.mac_frame_len > SubPacketsLen(f)

(* A buffer waits for more fragments only while the loop stays at the      *)
(* sub-packet that began it.                                               *)
Waits(b) == b.firstpkg /\ b.fragment
BufsInv ==
    /\ bufs \in [0 .. Size - 1 -> [len : Nat, firstpkg : BOOLEAN, fragment : BOOLEAN,
                                    index : Nat, sublen : Nat, data : Seq(Nat \X Nat)]]
    /\ \A a \in 0 .. Size - 1 : bufs[a].len \in 0 .. HELLO_LEN
    /\ \A a \in 0 .. Size - 1 :
          Waits(bufs[a]) => pc # "idle" /\ More(rxlen, frame) /\ a = here /\ found.firstpkg

(* What is due and was not handled yet: the sub-packets of the frame from  *)
(* the one the loop is at up to the first that does not pass, n + 1.       *)
Passed == IF k <= Len(frame.pdus) + 1 THEN k - 1 ELSE Len(frame.pdus)
DueUpTo(n) ==
    /\ Passed <= n
    /\ \A j \in 1 .. n : passes(node, frame.pdus[j])
    /\ n < Len(frame.pdus) => ~passes(node, frame.pdus[n + 1])
    /\ Len(due) = Len(handled) + n - Passed
    /\ \A j \in 1 .. Len(handled) : due[j] = handled[j]
    /\ \A j \in Passed + 1 .. n :
          due[Len(handled) + j - Passed] = command(node, frame.pdus[j], <<frames, j>>)
OrderInv == \E n \in 0 .. Len(frame.pdus) : DueUpTo(n)

LoopInv == LoopType /\ BufsInv /\ OrderInv

(* The assumptions, part by part.                                          *)
LEMMA Sizes == /\ CMD_HDR_LEN \in Nat /\ HELLO_LEN \in Nat
               /\ MAX_NODE_NUM \in Nat \ {0} /\ MaxFrames \in Nat
BY RxAssumption

(* Numbers of 8 and 16 bits are natural numbers.                           *)
LEMMA Widths == /\ \A n \in UINT8 : n \in Nat
                /\ \A n \in UINT16 : n \in Nat
                /\ 0 \in UINT8 /\ 0 \in UINT16 /\ 1 \in UINT16
BY DEF UINT8, UINT16

(* The fields of a header.                                                 *)
LEMMA HeaderFacts ==
    ASSUME NEW h \in Headers
    PROVE  /\ h.type \in UINT8 /\ h.firstpkg \in BOOLEAN /\ h.fragment \in BOOLEAN
           /\ h.index \in 0 .. 63 /\ h.sublen \in UINT16
<1>1. h \in [type : UINT8, firstpkg : BOOLEAN, fragment : BOOLEAN,
             index : 0 .. 63, sublen : UINT16]
  BY RxAssumption
<1> QED BY <1>1

(* Frames are laid out.                                                    *)
LEMMA FramesAreFrames == \A f \in Frames : IsFrame(f)
BY RxAssumption

(* What a frame gives.                                                     *)
LEMMA FrameFacts ==
    ASSUME NEW f, IsFrame(f)
    PROVE  /\ f.pdus \in Seq(Headers) /\ f.at \in Seq(Nat) /\ Len(f.pdus) \in Nat
           /\ f.mac_frame_len \in Nat /\ f.at[1] = 0
           /\ SubPacketsLen(f) \in Nat
           /\ \A j \in 1 .. Len(f.pdus) : /\ f.at[j] < f.mac_frame_len
                                          /\ f.at[j + 1] = f.at[j] + f.pdus[j].sublen
                                          /\ f.pdus[j] \in Headers /\ f.at[j] \in Nat
<1>1. /\ f.pdus \in Seq(Headers) /\ f.at \in Seq(Nat) /\ f.mac_frame_len \in UINT16
      /\ Len(f.at) = Len(f.pdus) + 1 /\ f.at[1] = 0
      /\ \A j \in 1 .. Len(f.pdus) : /\ f.at[j] < f.mac_frame_len
                                     /\ f.at[j + 1] = f.at[j] + f.pdus[j].sublen
  BY DEF IsFrame
<1>2. Len(f.pdus) \in Nat /\ f.mac_frame_len \in Nat
  BY <1>1, Widths
<1>3. \A j \in 1 .. Len(f.pdus) + 1 : f.at[j] \in Nat
  BY <1>1, <1>2
<1>4. Len(f.pdus) + 1 \in 1 .. Len(f.pdus) + 1 /\ \A j \in 1 .. Len(f.pdus) : j \in 1 .. Len(f.pdus) + 1
  BY <1>2
<1>5. \A j \in 1 .. Len(f.pdus) : f.pdus[j] \in Headers
  BY <1>1
<1> QED BY <1>1, <1>2, <1>3, <1>4, <1>5 DEF SubPacketsLen

(* No frame is a frame.                                                    *)
LEMMA NoFrameFacts == IsFrame(NoFrame) /\ NoFrame.pdus = <<>> /\ NoFrame.at = <<0>>
                      /\ ~More(0, NoFrame) /\ SubPacketsLen(NoFrame) = 0
<1>1. /\ NoFrame.pdus = <<>> /\ NoFrame.at = <<0>> /\ NoFrame.mac_frame_len = 0
  BY DEF NoFrame
<1>2. <<>> \in Seq(Headers) /\ <<0>> \in Seq(Nat)
  OBVIOUS
<1>3. NoFrame \in [pdus : Seq(Headers), at : Seq(Nat), mac_frame_len : UINT16,
                   mac_pdu_type : {"cmd", "merged", "other"}, crc : UINT16]
  BY <1>2, Widths DEF NoFrame
<1>4. IsFrame(NoFrame)
  BY <1>1, <1>3 DEF IsFrame
<1> QED BY <1>1, <1>4 DEF More, SubPacketsLen

(* Nothing was received and nothing waits.                                 *)
LEMMA LoopInit == Init => LoopInv
<1> SUFFICES ASSUME Init PROVE LoopInv
  OBVIOUS
<1>1. /\ bufs = [a \in 0 .. Size - 1 |-> [len |-> 0, firstpkg |-> FALSE, fragment |-> FALSE,
                                           index |-> 0, sublen |-> 0, data |-> <<>>]]
      /\ pc = "idle" /\ node = 0 /\ frame = NoFrame /\ k = 1 /\ rxlen = 0
      /\ handled = <<>> /\ due = <<>> /\ beyond = <<>> /\ frames = 0
  BY DEF Init, EmptyBuf, Size
<1>2. BufsInv
  BY <1>1, Sizes DEF BufsInv, Waits
<1>3. LoopType
  <2>1. 0 \in Nodes /\ 0 \in 0 .. MaxFrames
    BY Sizes DEF Nodes
  <2> QED BY <1>1, <2>1, NoFrameFacts DEF LoopType
<1>4. Len(frame.pdus) = 0 /\ Passed = 0 /\ Len(due) = 0 /\ Len(handled) = 0
  BY <1>1, NoFrameFacts DEF Passed
<1>5. DueUpTo(0)
  BY <1>4 DEF DueUpTo
<1> QED BY <1>2, <1>3, <1>4, <1>5 DEF LoopInv, OrderInv

-----------------------------------------------------------------------------
(* A turn of the loop.                                                     *)

(* A buffer that waits waits for the sub-packet the loop stays at, which   *)
(* starts over: so a sub-packet is always combined with nothing.           *)
LEMMA CombinedIsFound ==
    ASSUME LoopInv, InLoop, Copies
    PROVE  /\ found \in Found /\ here \in 0 .. Size - 1
           /\ combined = [len |-> datalen(found), firstpkg |-> found.firstpkg,
                          fragment |-> found.fragment, index |-> found.index,
                          sublen |-> found.sublen, data |-> <<found.chunk>>]
           /\ datalen(found) \in 0 .. HELLO_LEN
           /\ rx_check_cmddata_complete(combined) <=> passes(node, found)
<1>1. More(rxlen, frame) /\ found \in Found /\ node \in Nodes
  BY DEF InLoop, LoopInv, LoopType
<1>2. found.type \in UINT8 /\ found.type \in Nat /\ found.sublen \in Nat
  BY <1>1, Widths DEF Found
<1>3. here \in 0 .. Size - 1 /\ node * 3 + found.type < MAX_NODE_NUM * 3
  <2>1. here = node * 3 + found.type /\ here < MAX_NODE_NUM * 3
    BY DEF Copies, Inside, here, address
  <2>2. node \in Nat
    BY <1>1, Sizes DEF Nodes
  <2>3. MAX_NODE_NUM \in Nat
    BY Sizes
  <2> QED BY <1>2, <2>1, <2>2, <2>3 DEF Size
<1>4. ~Continues(bufs[here], found)
  BY <1>3 DEF LoopInv, BufsInv, Continues, Waits
<1>5. combined = [len |-> datalen(found), firstpkg |-> found.firstpkg,
                  fragment |-> found.fragment, index |-> found.index,
                  sublen |-> found.sublen, data |-> <<found.chunk>>]
  BY <1>4 DEF combined, rx_cmd_frag_combine
<1>6. datalen(found) \in Int /\ combined.len = datalen(found)
      /\ combined.firstpkg = found.firstpkg /\ combined.fragment = found.fragment
  BY <1>2, <1>5, Sizes DEF datalen
<1>7. datalen(found) \in 0 .. HELLO_LEN
  BY <1>6, Sizes DEF Copies
<1>8. rx_check_cmddata_complete(combined)
      <=> found.firstpkg /\ ~found.fragment /\ datalen(found) \in 1 .. HELLO_LEN
  BY <1>6, <1>7, Sizes DEF rx_check_cmddata_complete
<1>9. address(node, found) < MAX_NODE_NUM * MAX_CMD_TYPE
  BY <1>3 DEF address
<1> QED BY <1>1, <1>3, <1>5, <1>7, <1>8, <1>9 DEF passes

(* What the turn makes of the buffers: only the one it writes may wait.    *)
LEMMA CombineKeepsBufs ==
    ASSUME LoopInv, InLoop, Copies, bufs' = [bufs EXCEPT ![here] = combined]
    PROVE  /\ bufs' \in [0 .. Size - 1 -> [len : Nat, firstpkg : BOOLEAN, fragment : BOOLEAN,
                                            index : Nat, sublen : Nat, data : Seq(Nat \X Nat)]]
           /\ \A a \in 0 .. Size - 1 : bufs'[a].len \in 0 .. HELLO_LEN
           /\ \A a \in 0 .. Size - 1 :
                 Waits(bufs'[a]) => a = here /\ found.firstpkg /\ found.fragment
<1>1. /\ found.firstpkg \in BOOLEAN /\ found.fragment \in BOOLEAN /\ found.index \in 0 .. 63
      /\ found.sublen \in UINT16 /\ found.chunk \in Nat \X Nat
  BY CombinedIsFound DEF Found
<1>2. /\ combined = [len |-> datalen(found), firstpkg |-> found.firstpkg,
                     fragment |-> found.fragment, index |-> found.index,
                     sublen |-> found.sublen, data |-> <<found.chunk>>]
      /\ datalen(found) \in 0 .. HELLO_LEN /\ here \in 0 .. Size - 1
  BY CombinedIsFound
<1>3. combined \in [len : Nat, firstpkg : BOOLEAN, fragment : BOOLEAN,
                    index : Nat, sublen : Nat, data : Seq(Nat \X Nat)]
  <2>1. datalen(found) \in Nat /\ found.sublen \in Nat /\ found.index \in Nat
    BY <1>1, <1>2, Sizes, Widths
  <2>2. <<found.chunk>> \in Seq(Nat \X Nat)
    BY <1>1
  <2> QED BY <1>1, <1>2, <2>1, <2>2
<1>4. combined.len = datalen(found) /\ (Waits(combined) => found.firstpkg /\ found.fragment)
  BY <1>2 DEF Waits
<1>5. bufs \in [0 .. Size - 1 -> [len : Nat, firstpkg : BOOLEAN, fragment : BOOLEAN,
                                  index : Nat, sublen : Nat, data : Seq(Nat \X Nat)]]
  BY DEF LoopInv, BufsInv
<1>6. ASSUME NEW a \in 0 .. Size - 1
      PROVE  /\ bufs'[a].len \in 0 .. HELLO_LEN
             /\ Waits(bufs'[a]) => a = here /\ found.firstpkg /\ found.fragment
  <2>1. CASE a = here
    <3>1. bufs'[a] = combined
      BY <1>5, <2>1
    <3> QED BY <1>2, <1>4, <2>1, <3>1
  <2>2. CASE a # here
    <3>1. bufs'[a] = bufs[a]
      BY <1>5, <2>2
    <3> QED BY <2>2, <3>1 DEF LoopInv, BufsInv
  <2> QED BY <2>1, <2>2
<1> QED BY <1>2, <1>3, <1>5, <1>6

(* What is found at a place that is not at the end.                        *)
LEMMA FoundIsSubPacket ==
    ASSUME NEW f, IsFrame(f), NEW at, NEW n \in Nat \ {0}, NEW h, frames' \in Nat,
           h \in SubPackets(f, at, n), More(at, f)
    PROVE  /\ h \in Found
           /\ n <= Len(f.pdus) =>
                 h = [type |-> f.pdus[n].type, firstpkg |-> f.pdus[n].firstpkg,
                      fragment |-> f.pdus[n].fragment, index |-> f.pdus[n].index,
                      sublen |-> f.pdus[n].sublen, chunk |-> <<frames', n>>]
<1>1. ASSUME NEW g \in Headers PROVE Header(g, n) \in Found
  <2>1. /\ g.type \in UINT8 /\ g.firstpkg \in BOOLEAN /\ g.fragment \in BOOLEAN
        /\ g.index \in 0 .. 63 /\ g.sublen \in UINT16
    BY <1>1, HeaderFacts
  <2>2. <<frames', n>> \in Nat \X Nat
    OBVIOUS
  <2> QED BY <2>1, <2>2 DEF Header, Found
<1>2. CASE n <= Len(f.pdus)
  <2>1. Len(f.pdus) \in Nat /\ n \in 1 .. Len(f.pdus)
    BY <1>2, FrameFacts
  <2>2. f.pdus[n] \in Headers
    BY <2>1, FrameFacts
  <2>3. h = Header(f.pdus[n], n)
    BY <1>2 DEF SubPackets
  <2> QED BY <1>1, <2>2, <2>3 DEF Header
<1>3. CASE ~(n <= Len(f.pdus))
  BY <1>1, <1>3 DEF SubPackets
<1> QED BY <1>2, <1>3

(* A turn that hands a sub-packet on moves to the next one.                *)
LEMMA HandleMovesOn ==
    ASSUME LoopInv, Handle
    PROVE  LoopType'
<1>1. /\ InLoop /\ Copies /\ pc = "loop" /\ More(rxlen, frame)
      /\ rxlen' = rxlen + found.sublen /\ k' = k + 1
      /\ UNCHANGED <<pc, node, frame, due, frames>>
      /\ found' \in SubPackets(frame, rxlen', k + 1)
  BY DEF Handle, InLoop, NextRxlen
<1>2. /\ found \in Found /\ passes(node, found) /\ combined.data = <<found.chunk>>
  <2>1. rx_check_cmddata_complete(combined)
    BY DEF Handle
  <2> QED BY <1>1, <2>1, CombinedIsFound
<1>3. /\ k \in Nat \ {0} /\ rxlen \in Nat /\ IsFrame(frame) /\ frames \in Nat /\ node \in Nodes
      /\ frame \in Frames /\ found.sublen \in Nat /\ Len(frame.pdus) \in Nat
      /\ handled \in Seq(Outcomes) /\ SubPacketsLen(frame) \in Nat
      /\ frame.mac_frame_len \in Nat
  BY <1>1, <1>2, FrameFacts, Sizes, Widths DEF LoopInv, LoopType, Found
<1>4. /\ k' <= Len(frame.pdus) + 1 => rxlen' = frame.at[k']
      /\ k' > Len(frame.pdus) => rxlen' >= SubPacketsLen(frame)
  <2>1. CASE k <= Len(frame.pdus)
    <3>1. k \in 1 .. Len(frame.pdus) /\ rxlen = frame.at[k]
      BY <1>3, <2>1 DEF LoopInv, LoopType
    <3>2. found.sublen = frame.pdus[k].sublen
      BY <1>1, <2>1 DEF LoopInv, LoopType
    <3>3. frame.at[k + 1] = frame.at[k] + frame.pdus[k].sublen
      BY <1>3, <3>1, FrameFacts
    <3>4. rxlen' = frame.at[k + 1]
      BY <1>1, <3>1, <3>2, <3>3
    <3>5. k' > Len(frame.pdus) => k + 1 = Len(frame.pdus) + 1
      BY <1>1, <1>3, <2>1
    <3>6. rxlen' \in Nat
      BY <1>1, <1>3
    <3> QED BY <1>1, <1>3, <3>4, <3>5, <3>6 DEF SubPacketsLen
  <2>2. CASE ~(k <= Len(frame.pdus))
    <3>1. rxlen >= SubPacketsLen(frame)
      BY <1>3, <2>2 DEF LoopInv, LoopType
    <3> QED BY <1>1, <1>3, <2>2, <3>1
  <2> QED BY <2>1, <2>2
<1>5. More(rxlen', frame) =>
          /\ found' \in Found
          /\ k' <= Len(frame.pdus) =>
                found' = [type |-> frame.pdus[k'].type, firstpkg |-> frame.pdus[k'].firstpkg,
                          fragment |-> frame.pdus[k'].fragment, index |-> frame.pdus[k'].index,
                          sublen |-> frame.pdus[k'].sublen, chunk |-> <<frames', k'>>]
  <2>1. frames' \in Nat /\ k + 1 \in Nat \ {0}
    BY <1>1, <1>3
  <2> QED BY <1>1, <1>3, <2>1, FoundIsSubPacket
<1>6. handled' \in Seq(Outcomes)
  <2>1. <<node, rx_handler(found.type), combined.data>> \in Outcomes
    BY <1>2, <1>3 DEF Outcomes, Found
  <2> DEFINE outcome == <<node, rx_handler(found.type), combined.data>>
  <2>2. handled' = handled \/ handled' = Append(handled, outcome)
    BY DEF Handle
  <2>3. outcome \in Outcomes
    BY <2>1
  <2> HIDE DEF outcome
  <2> QED BY <1>3, <2>2, <2>3
<1>7. beyond' # <<>> => \E f \in Frames : f.mac_frame_len > SubPacketsLen(f)
  <2>1. CASE k <= Len(frame.pdus)
    BY <2>1 DEF Handle, LoopInv, LoopType
  <2>2. CASE ~(k <= Len(frame.pdus))
    <3>1. rxlen >= SubPacketsLen(frame)
      BY <1>3, <2>2 DEF LoopInv, LoopType
    <3>2. rxlen < frame.mac_frame_len
      BY <1>1 DEF More
    <3>3. frame.mac_frame_len > SubPacketsLen(frame)
      BY <1>3, <3>1, <3>2
    <3> QED BY <1>3, <3>3
  <2> QED BY <2>1, <2>2
<1>8. k' \in Nat \ {0} /\ rxlen' \in Nat
  BY <1>1, <1>3
<1> QED BY <1>1, <1>3, <1>4, <1>5, <1>6, <1>7, <1>8 DEF LoopInv, LoopType, IsFrame, More, SubPacketsLen

(* None of its buffers waits any more.                                     *)
LEMMA HandleKeepsBufs ==
    ASSUME LoopInv, Handle
    PROVE  BufsInv'
<1>1. /\ InLoop /\ Copies /\ bufs' = [bufs EXCEPT ![here] = combined]
  BY DEF Handle
<1>2. passes(node, found)
  <2>1. rx_check_cmddata_complete(combined)
    BY DEF Handle
  <2> QED BY <1>1, <2>1, CombinedIsFound
<1>3. ~found.fragment
  BY <1>2 DEF passes
<1> QED BY <1>1, <1>3, CombineKeepsBufs DEF BufsInv

(* And what was due next has been handled.                                 *)
LEMMA HandleKeepsOrder ==
    ASSUME LoopInv, Handle
    PROVE  OrderInv'
<1>1. /\ InLoop /\ Copies /\ pc = "loop" /\ More(rxlen, frame) /\ k' = k + 1
      /\ UNCHANGED <<pc, node, frame, due, frames>>
      /\ IF k <= Len(frame.pdus)
         THEN handled' = Append(handled, <<node, rx_handler(found.type), combined.data>>)
         ELSE UNCHANGED handled
  BY DEF Handle, InLoop
<1>2. /\ found \in Found /\ passes(node, found) /\ combined.data = <<found.chunk>>
  <2>1. rx_check_cmddata_complete(combined)
    BY DEF Handle
  <2> QED BY <1>1, <2>1, CombinedIsFound
<1>3. /\ k \in Nat \ {0} /\ Len(frame.pdus) \in Nat /\ handled \in Seq(Outcomes)
      /\ Len(handled) \in Nat
  <2>1. handled \in Seq(Outcomes)
    BY DEF LoopInv, LoopType
  <2> QED BY <2>1, FrameFacts DEF LoopInv, LoopType
<1>4. PICK n \in 0 .. Len(frame.pdus) : DueUpTo(n)
  BY DEF LoopInv, OrderInv
<1>5. CASE ~(k <= Len(frame.pdus))
  <2>1. Passed' = Passed
    BY <1>1, <1>3, <1>5 DEF Passed
  <2>2. DueUpTo(n)'
    BY <1>1, <1>4, <1>5, <2>1 DEF DueUpTo
  <2> QED BY <1>1, <2>2 DEF OrderInv
<1>6. CASE k <= Len(frame.pdus)
  <2>1. /\ k \in 1 .. Len(frame.pdus) /\ Passed = k - 1 /\ Passed' = k
    BY <1>1, <1>3, <1>6 DEF Passed
  <2>2. found = [type |-> frame.pdus[k].type, firstpkg |-> frame.pdus[k].firstpkg,
                 fragment |-> frame.pdus[k].fragment, index |-> frame.pdus[k].index,
                 sublen |-> frame.pdus[k].sublen, chunk |-> <<frames, k>>]
    BY <1>1, <1>6 DEF LoopInv, LoopType
  <2> DEFINE p == frame.pdus[k]
             outcome == command(node, p, <<frames, k>>)
             l == Len(handled)
  <2>3. passes(node, p)
    <3>1. /\ found.firstpkg = p.firstpkg /\ found.fragment = p.fragment
          /\ found.type = p.type /\ found.sublen = p.sublen
      BY <2>2
    <3> QED BY <1>2, <3>1 DEF passes, datalen, address
  <2>4. outcome = <<node, rx_handler(found.type), combined.data>>
    BY <1>2, <2>2 DEF command
  <2>5. /\ Passed <= n /\ Len(due) = l + n - Passed
        /\ \A j \in 1 .. l : due[j] = handled[j]
        /\ \A j \in Passed + 1 .. n :
              due[l + j - Passed] = command(node, frame.pdus[j], <<frames, j>>)
        /\ \A j \in 1 .. n : passes(node, frame.pdus[j])
        /\ n < Len(frame.pdus) => ~passes(node, frame.pdus[n + 1])
    BY <1>4 DEF DueUpTo
  <2>6. k <= n
    <3>1. ASSUME n = k - 1 PROVE FALSE
      <4>1. n < Len(frame.pdus) /\ n + 1 = k
        BY <1>3, <1>6, <3>1
      <4> QED BY <2>3, <2>5, <4>1
    <3> QED BY <1>3, <2>1, <2>5, <3>1
  <2>7. /\ Len(handled') = l + 1 /\ handled'[l + 1] = outcome
        /\ \A j \in 1 .. l : handled'[j] = handled[j]
    <3> HIDE DEF outcome
    <3>1. handled' = Append(handled, outcome)
      BY <1>1, <1>6, <2>4
    <3> QED BY <1>3, <3>1
  <2> HIDE DEF l, p, outcome
  <2>8. Len(due) = (l + 1) + n - k
    BY <1>3, <2>1, <2>5 DEF l
  <2>9. ASSUME NEW j \in 1 .. l + 1 PROVE due[j] = handled'[j]
    <3>1. CASE j = l + 1
      <4>1. l + k - Passed = l + 1 /\ k \in Passed + 1 .. n
        BY <1>3, <2>1, <2>6 DEF l
      <4>2. due[l + k - Passed] = command(node, frame.pdus[k], <<frames, k>>)
        BY <2>5, <4>1
      <4> QED BY <2>7, <3>1, <4>1, <4>2 DEF outcome, p
    <3>2. CASE j # l + 1
      <4>1. j \in 1 .. l
        BY <1>3, <3>2 DEF l
      <4> QED BY <2>5, <2>7, <4>1
    <3> QED BY <3>1, <3>2
  <2>10. ASSUME NEW j \in k + 1 .. n
         PROVE  due[(l + 1) + j - k] = command(node, frame.pdus[j], <<frames, j>>)
    <3>1. j \in Passed + 1 .. n /\ (l + 1) + j - k = l + j - Passed
      BY <1>3, <2>1 DEF l
    <3> QED BY <2>5, <3>1
  <2>11. DueUpTo(n)'
    BY <1>1, <2>1, <2>5, <2>6, <2>7, <2>8, <2>9, <2>10 DEF DueUpTo
  <2> QED BY <1>1, <2>11 DEF OrderInv
<1> QED BY <1>5, <1>6

(* The turn that stays, and the two after which nothing follows.           *)
LEMMA OtherTurnsKeepLoop ==
    ASSUME LoopInv, Incomplete \/ Killed \/ Overwrite
    PROVE  LoopInv'
<1>1. /\ InLoop /\ pc = "loop" /\ More(rxlen, frame) /\ pc' \in {"loop", "killed", "undefined"}
      /\ UNCHANGED <<node, frame, k, found, rxlen, handled, due, beyond, frames>>
  BY DEF Incomplete, Killed, Overwrite, InLoop
<1>2. LoopType'
  BY <1>1 DEF LoopInv, LoopType, IsFrame, More, SubPacketsLen
<1>3. OrderInv'
  BY <1>1 DEF LoopInv, OrderInv, DueUpTo, Passed
<1>4. here' = here /\ More(rxlen, frame)'
  BY <1>1 DEF here, More
<1>5. BufsInv'
  <2>1. CASE Incomplete
    <3>1. Copies /\ bufs' = [bufs EXCEPT ![here] = combined]
      BY <2>1 DEF Incomplete
    <3> QED BY <1>1, <1>4, <3>1, CombineKeepsBufs DEF BufsInv
  <2>2. CASE UNCHANGED bufs
    BY <1>1, <1>4, <2>2 DEF LoopInv, BufsInv
  <2> QED BY <2>1, <2>2 DEF Killed, Overwrite
<1> QED BY <1>2, <1>3, <1>5 DEF LoopInv

(* Where nothing of the frame is left everything due was handled.          *)
LEMMA AllHandled ==
    ASSUME LoopInv, pc = "idle" \/ k > Len(frame.pdus)
    PROVE  /\ handled = due /\ Len(handled) \in Nat
           /\ k > Len(frame.pdus)
<1>1. /\ handled \in Seq(Outcomes) /\ due \in Seq(Outcomes) /\ k \in Nat \ {0}
      /\ Len(frame.pdus) \in Nat
  BY FrameFacts DEF LoopInv, LoopType
<1>2. k > Len(frame.pdus)
  BY <1>1, NoFrameFacts DEF LoopInv, LoopType
<1>3. PICK n \in 0 .. Len(frame.pdus) : DueUpTo(n)
  BY DEF LoopInv, OrderInv
<1>4. Passed = Len(frame.pdus) /\ n = Passed
  BY <1>1, <1>2, <1>3 DEF Passed, DueUpTo
<1>5. Len(due) = Len(handled) + n - Passed /\ \A j \in 1 .. Len(handled) : handled[j] = due[j]
  BY <1>3 DEF DueUpTo
<1>6. Len(handled) = Len(due) /\ Len(handled) \in Nat
  BY <1>1, <1>4, <1>5
<1>7. handled = due
  BY <1>1, <1>5, <1>6, SeqEqual
<1> QED BY <1>2, <1>6, <1>7

(* After a call, and between calls, no buffer waits.                       *)
LEMMA ReturnKeepsLoop ==
    ASSUME LoopInv, Return
    PROVE  LoopInv'
<1>1. /\ pc = "loop" /\ ~More(rxlen, frame) /\ pc' = "idle" /\ node' = 0 /\ frame' = NoFrame
      /\ k' = 1 /\ rxlen' = 0 /\ UNCHANGED <<bufs, handled, due, beyond, frames>>
  BY DEF Return, InLoop
<1>2. /\ k \in Nat \ {0} /\ Len(frame.pdus) \in Nat
      /\ frame.mac_frame_len \in Nat /\ rxlen \in Nat
  BY FrameFacts DEF LoopInv, LoopType
<1>3. k > Len(frame.pdus)
  <2>1. ASSUME k <= Len(frame.pdus) PROVE FALSE
    <3>1. k \in 1 .. Len(frame.pdus) /\ rxlen = frame.at[k]
      BY <1>2, <2>1 DEF LoopInv, LoopType
    <3>2. frame.at[k] < frame.mac_frame_len
      BY <3>1, FrameFacts DEF LoopInv, LoopType
    <3> QED BY <1>1, <3>1, <3>2 DEF More
  <2> QED BY <1>2, <2>1
<1>4. handled = due /\ Len(handled) \in Nat
  BY <1>3, AllHandled
<1>5. LoopType'
  <2>1. 0 \in Nodes
    BY Sizes DEF Nodes
  <2> QED BY <1>1, <2>1, NoFrameFacts DEF LoopInv, LoopType
<1>6. BufsInv'
  BY <1>1 DEF LoopInv, BufsInv
<1>7. Len(frame'.pdus) = 0 /\ Passed' = 0
  BY <1>1, NoFrameFacts DEF Passed
<1>8. DueUpTo(0)'
  BY <1>1, <1>4, <1>7 DEF DueUpTo
<1> QED BY <1>5, <1>6, <1>7, <1>8 DEF LoopInv, OrderInv

-----------------------------------------------------------------------------
(* A call that accepts its frame begins at its first sub-packet, with what *)
(* passes due; another one has no effect.                                  *)
LEMMA CallKeepsLoop ==
    ASSUME LoopInv, NEW f \in Frames, NEW n \in Nodes, NEW len, Call(f, n, len)
    PROVE  LoopInv'
<1> DEFINE size == Len(f.pdus)
           sound == {m \in 0 .. size : \A j \in 1 .. m : passes(n, f.pdus[j])}
           last == CHOOSE m \in sound : \A l \in sound : l <= m
           new == [j \in 1 .. last |-> command(n, f.pdus[j], <<frames + 1, j>>)]
           accepted == Accepted(f, len)
<1>1. /\ pc = "idle" /\ frames < MaxFrames /\ frames' = frames + 1
      /\ IF accepted
         THEN /\ pc' = "loop" /\ node' = n /\ frame' = f /\ k' = 1 /\ rxlen' = 0
              /\ found' \in SubPackets(f, 0, 1)
         ELSE UNCHANGED <<pc, node, frame, k, found, rxlen>>
      /\ due' = IF f.crc = 1 /\ accepted THEN due \o new ELSE due
      /\ UNCHANGED <<bufs, handled, beyond>>
  BY DEF Call
<1>2. accepted => f.crc = 1
  BY DEF Accepted
<1>3. IsFrame(f) /\ size \in Nat
  BY FramesAreFrames, FrameFacts
<1>4. /\ last \in 0 .. size /\ \A j \in 1 .. last : passes(n, f.pdus[j])
      /\ last < size => ~passes(n, f.pdus[last + 1])
  <2>1. sound \in SUBSET (0 .. size) /\ 0 \in sound
    BY <1>3
  <2>2. \E m \in sound : \A l \in sound : l <= m
    <3> HIDE DEF sound, size
    <3> QED BY <1>3, <2>1, Greatest
  <2>3. last \in sound /\ \A l \in sound : l <= last
    <3> HIDE DEF sound
    <3> QED BY <2>2
  <2> HIDE DEF last
  <2>4. last \in 0 .. size /\ \A j \in 1 .. last : passes(n, f.pdus[j])
    BY <2>3
  <2>5. ASSUME last < size, passes(n, f.pdus[last + 1]) PROVE FALSE
    <3>1. last + 1 \in 0 .. size
      BY <1>3, <2>4, <2>5
    <3>2. ASSUME NEW j \in 1 .. last + 1 PROVE passes(n, f.pdus[j])
      <4>1. j \in 1 .. last \/ j = last + 1
        BY <2>4
      <4> QED BY <2>4, <2>5, <4>1
    <3>3. last + 1 \in sound
      BY <3>1, <3>2
    <3>4. last + 1 <= last
      BY <2>3, <3>3
    <3> QED BY <2>4, <3>4
  <2> QED BY <2>4, <2>5
<1> HIDE DEF last, sound, accepted
<1>5. /\ handled = due /\ k = 1 /\ frame = NoFrame /\ Len(due) \in Nat
      /\ due \in Seq(Outcomes) /\ frames \in Nat /\ frames' \in 0 .. MaxFrames /\ frames' \in Nat
  BY <1>1, AllHandled, Sizes DEF LoopInv, LoopType
<1>6. /\ new \in Seq(Outcomes) /\ Len(new) = last
      /\ \A j \in 1 .. last : new[j] = command(n, f.pdus[j], <<frames', j>>)
  <2>1. last \in Nat
    BY <1>3, <1>4
  <2>2. ASSUME NEW j \in 1 .. last
        PROVE  command(n, f.pdus[j], <<frames + 1, j>>) \in Outcomes
    <3>1. j \in 1 .. size
      BY <1>3, <1>4
    <3>2. f.pdus[j] \in Headers
      BY <1>3, <3>1, FrameFacts
    <3>3. f.pdus[j].type \in UINT8
      BY <3>2, HeaderFacts
    <3>4. <<frames + 1, j>> \in Nat \X Nat
      BY <1>5, <2>1
    <3> QED BY <3>3, <3>4 DEF command, Outcomes
  <2>3. new \in [1 .. last -> Outcomes]
    BY <2>2
  <2>4. \A j \in 1 .. last : new[j] = command(n, f.pdus[j], <<frames', j>>)
    BY <1>1
  <2> HIDE DEF new
  <2> QED BY <2>1, <2>3, <2>4
<1> HIDE DEF new
<1>7. \A a \in 0 .. Size - 1 : ~Waits(bufs[a])
  BY <1>1 DEF LoopInv, BufsInv
<1>8. BufsInv'
  BY <1>1, <1>7 DEF LoopInv, BufsInv
<1>9. CASE ~accepted
  <2>1. Len(frame.pdus) = 0 /\ Len(frame'.pdus) = 0 /\ Passed' = 0
    BY <1>1, <1>5, <1>9, NoFrameFacts DEF Passed
  <2>2. DueUpTo(0)'
    BY <1>1, <1>5, <1>9, <2>1 DEF DueUpTo
  <2>3. OrderInv'
    BY <2>1, <2>2 DEF OrderInv
  <2>4. rxlen = 0 /\ ~More(rxlen, frame)
    BY <1>5, NoFrameFacts DEF LoopInv, LoopType
  <2>5. LoopType'
    BY <1>1, <1>5, <1>9, <2>4 DEF LoopInv, LoopType, More, SubPacketsLen, IsFrame
  <2> QED BY <1>8, <2>3, <2>5 DEF LoopInv
<1>10. CASE accepted
  <2>1. /\ pc' = "loop" /\ node' = n /\ frame' = f /\ k' = 1 /\ rxlen' = 0 /\ handled' = handled
        /\ due' = due \o new /\ found' \in SubPackets(f, 0, 1) /\ beyond' = beyond
    BY <1>1, <1>2, <1>10
  <2>2. /\ due' \in Seq(Outcomes) /\ Len(due') = Len(due) + last
        /\ \A j \in 1 .. Len(due) : due'[j] = due[j]
        /\ \A j \in 1 .. last : due'[Len(due) + j] = new[j]
    <3>1. due \in Seq(Outcomes) /\ new \in Seq(Outcomes)
      BY <1>5, <1>6
    <3>2. /\ due \o new \in Seq(Outcomes) /\ Len(due \o new) = Len(due) + Len(new)
          /\ \A j \in 1 .. Len(due) + Len(new) :
                (due \o new)[j] = IF j <= Len(due) THEN due[j] ELSE new[j - Len(due)]
      BY <3>1, ConcatProperties
    <3>3. last \in Nat /\ Len(new) = last
      BY <1>3, <1>4, <1>6
    <3>4. ASSUME NEW j \in 1 .. Len(due) PROVE (due \o new)[j] = due[j]
      <4>1. j \in 1 .. Len(due) + Len(new) /\ j <= Len(due)
        BY <1>5, <3>3
      <4> QED BY <3>2, <4>1
    <3>5. ASSUME NEW j \in 1 .. last PROVE (due \o new)[Len(due) + j] = new[j]
      <4>1. /\ Len(due) + j \in 1 .. Len(due) + Len(new) /\ ~(Len(due) + j <= Len(due))
            /\ Len(due) + j - Len(due) = j
        BY <1>5, <3>3
      <4> QED BY <3>2, <4>1
    <3> QED BY <2>1, <3>2, <3>3, <3>4, <3>5
  <2>3. LoopType'
    <3>1. 1 > size => 0 >= SubPacketsLen(f)
      BY <1>3, FrameFacts DEF SubPacketsLen
    <3>2. More(0, f) =>
              /\ found' \in Found
              /\ 1 <= Len(f.pdus) =>
                    found' = [type |-> f.pdus[1].type, firstpkg |-> f.pdus[1].firstpkg,
                              fragment |-> f.pdus[1].fragment, index |-> f.pdus[1].index,
                              sublen |-> f.pdus[1].sublen, chunk |-> <<frames', 1>>]
      <4>1. found' \in SubPackets(f, 0, 1) /\ 1 \in Nat \ {0} /\ IsFrame(f) /\ frames' \in Nat
        BY <1>3, <1>5, <2>1
      <4> HIDE DEF size
      <4> QED BY <4>1, FoundIsSubPacket
    <3>3. f.at[1] = 0
      BY <1>3, FrameFacts
    <3>4. beyond' # <<>> => \E g \in Frames : g.mac_frame_len > SubPacketsLen(g)
      BY <2>1 DEF LoopInv, LoopType
    <3>5. More(rxlen, frame)' = More(0, f) /\ SubPacketsLen(frame)' = SubPacketsLen(f)
      BY <2>1 DEF More, SubPacketsLen
    <3>6. IsFrame(frame)' /\ handled' \in Seq(Outcomes)
      BY <1>3, <1>5, <2>1 DEF IsFrame
    <3> QED BY <1>5, <2>1, <2>2, <3>1, <3>2, <3>3, <3>4, <3>5, <3>6 DEF LoopType
  <2>4. Passed' = 0 /\ Len(due') = Len(due) + last - 0 /\ last \in Nat
    BY <1>3, <1>4, <1>5, <2>1, <2>2 DEF Passed
  <2>5. ASSUME NEW j \in 0 + 1 .. last
        PROVE  due'[Len(due) + j - 0] = command(n, f.pdus[j], <<frames', j>>)
    <3>1. Len(due) + j - 0 = Len(due) + j /\ j \in 1 .. last
      BY <1>5, <2>4
    <3> QED BY <1>6, <2>2, <3>1
  <2>6. DueUpTo(last)'
    BY <1>4, <1>5, <2>1, <2>2, <2>4, <2>5 DEF DueUpTo
  <2>7. OrderInv'
    BY <1>4, <2>1, <2>6 DEF OrderInv
  <2> QED BY <1>8, <2>3, <2>7 DEF LoopInv
<1> QED BY <1>9, <1>10

(* Together.                                                               *)
LEMMA LoopStep == LoopInv /\ [Next]_vars => LoopInv'
<1> SUFFICES ASSUME LoopInv, [Next]_vars PROVE LoopInv'
  OBVIOUS
<1>1. CASE Receive
  <2>1. PICK f \in Frames, n \in Nodes, surplus \in {-1, 0, 1} :
             Call(f, n, f.mac_frame_len + surplus)
    BY <1>1 DEF Receive
  <2> QED BY <2>1, CallKeepsLoop
<1>2. CASE Handle
  BY <1>2, HandleMovesOn, HandleKeepsBufs, HandleKeepsOrder DEF LoopInv
<1>3. CASE UNCHANGED vars
  <2>1. UNCHANGED <<bufs, pc, node, frame, k, found, rxlen, handled, due, beyond, frames>>
    BY <1>3 DEF vars
  <2>2. LoopType'
    BY <2>1 DEF LoopInv, LoopType, IsFrame, More, SubPacketsLen
  <2>3. here' = here /\ More(rxlen, frame)' = More(rxlen, frame)
    BY <2>1 DEF here, More
  <2>4. BufsInv'
    BY <2>1, <2>3 DEF LoopInv, BufsInv
  <2>5. OrderInv'
    BY <2>1 DEF LoopInv, OrderInv, DueUpTo, Passed
  <2> QED BY <2>2, <2>4, <2>5 DEF LoopInv
<1> QED BY <1>1, <1>2, <1>3, OtherTurnsKeepLoop, ReturnKeepsLoop DEF Next, Rx

(* The position and the buffers are in range.                              *)
LEMMA LoopTyped == LoopInv => TypeOK
BY DEF LoopInv, LoopType, BufsInv, TypeOK

(* A prefix, by the definition of the community module.                    *)
LEMMA LoopInOrder == LoopInv => HandledInOrder
<1> SUFFICES ASSUME LoopInv PROVE HandledInOrder
  OBVIOUS
<1>1. /\ handled \in Seq(Outcomes) /\ due \in Seq(Outcomes) /\ k \in Nat \ {0}
      /\ Len(frame.pdus) \in Nat
  BY FrameFacts DEF LoopInv, LoopType
<1> DEFINE l == Len(handled)
<1>2. PICK n \in 0 .. Len(frame.pdus) : DueUpTo(n)
  BY DEF LoopInv, OrderInv
<1>3. /\ Passed <= n /\ Len(due) = l + n - Passed /\ \A j \in 1 .. l : due[j] = handled[j]
  BY <1>2 DEF DueUpTo
<1>4. l \in Nat /\ Len(due) \in Nat /\ Passed \in Nat
  BY <1>1 DEF Passed
<1>5. l <= Len(due)
  <2> HIDE DEF l
  <2> QED BY <1>1, <1>3, <1>4
<1>6. IsPrefix(handled, due)
  <2> DEFINE a == SubSeq(handled, 1, l)
             b == SubSeq(due, 1, l)
  <2>1. a \in Seq(Outcomes) /\ Len(a) = l /\ \A j \in 1 .. l : a[j] = handled[j]
    BY <1>1, <1>4
  <2>2. b \in Seq(Outcomes) /\ Len(b) = l /\ \A j \in 1 .. l : b[j] = due[j]
    BY <1>1, <1>4, <1>5
  <2> HIDE DEF a, b
  <2>3. \A j \in 1 .. Len(a) : a[j] = b[j]
    BY <1>3, <2>1, <2>2
  <2>4. a = b
    BY <2>1, <2>2, <2>3, SeqEqual
  <2> QED BY <1>5, <2>4 DEF IsPrefix, a, b
<1>7. beyond # <<>> => \E f \in Frames : f.mac_frame_len > SubPacketsLen(f)
  BY DEF LoopInv, LoopType
<1> QED BY <1>6, <1>7, AllHandled DEF HandledInOrder

-----------------------------------------------------------------------------
(* The loop has its invariant in every behaviour.                          *)
LEMMA LoopCorrect == Spec => []LoopInv
BY LoopInit, LoopStep, PTL DEF Spec

(* No buffer is filled beyond its data, and the loop looks for sub-packets *)
(* where they begin, whatever the headers hold.                            *)
THEOREM TypeCorrect == Spec => []TypeOK
BY LoopCorrect, LoopTyped, PTL

(* rx_cmd: up to the first sub-packet that is no whole command of a size   *)
(* that fits, the switch gets the sub-packets of accepted frames, each     *)
(* once and in order, and of nothing else unless a frame claims to be      *)
(* longer than its sub-packets.                                            *)
THEOREM HandledInOrderCorrect == Spec => []HandledInOrder
BY LoopCorrect, LoopInOrder, PTL
=============================================================================
