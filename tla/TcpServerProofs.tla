-------------------------- MODULE TcpServerProofs ---------------------------
(***************************************************************************)
(* The safety properties of TcpServer, for every table size, every finite  *)
(* set of descriptors and every backlog.  The invariants of the runs are   *)
(* inductive together: the type invariant needs the counter to bound the   *)
(* number of used slots, the counter needs every used slot to hold an open *)
(* descriptor, and that needs the slots to be pairwise different.          *)
(***************************************************************************)
EXTENDS TcpServer, FiniteSetTheorems, TLAPS

(* What only acceptTcpConnet and CloseClient change ...                    *)
TableInv ==
    /\ connfd_alive \in [Slots -> Fds \cup {0}]
    /\ connfd_alivenum \in 0 .. UART_TCP_CLIENT_MAX
    /\ max_fd \in Fds \cup {0}
    /\ read_set \in SUBSET Fds /\ write_set \in SUBSET Fds
    /\ conn \in [Fds -> ConnStates]
    /\ backlog \in 0 .. Backlog
    /\ WatchSetsMatchOpen /\ AliveCount /\ TableLive /\ MaxFdCovers

(* ... and what the call in progress changes.                              *)
CallInv ==
    /\ select_read_set \in SUBSET Fds /\ select_write_set \in SUBSET Fds
    /\ pc \in {"idle", "select", "write", "read", "killed"}
    /\ op \in Ops
    /\ i \in Slots
    /\ connMax \in 0 .. UART_TCP_CLIENT_MAX

IInv == TableInv /\ CallInv

USE FdsAssumption, SizeAssumption

-----------------------------------------------------------------------------
(* The number of open connections is a natural number.                     *)
LEMMA OpenFinite == IsFiniteSet(open) /\ Cardinality(open) \in Nat
BY FS_Subset, FS_CardinalityType DEF open

(* As many used slots in a row, from slot 0, need as many open connections.*)
LEMMA UsedPrefix ==
    ASSUME TableInv,
           NEW n \in 0 .. UART_TCP_CLIENT_MAX,
           \A s \in 0 .. n - 1 : connfd_alive[s] # 0
    PROVE  n <= connfd_alivenum
<1> DEFINE f == [s \in 0 .. n - 1 |-> connfd_alive[s]]
<1>1. 0 .. n - 1 \subseteq Slots
  BY DEF Slots
<1>2. f \in [0 .. n - 1 -> open]
  BY <1>1 DEF TableInv, TableLive, entries
<1>3. \A x, y \in 0 .. n - 1 : x # y => f[x] # f[y]
  BY <1>1 DEF TableInv, TableLive
<1>4. IsFiniteSet(0 .. n - 1) /\ Cardinality(0 .. n - 1) = n
  <2>1. /\ IsFiniteSet(0 .. n - 1)
        /\ Cardinality(0 .. n - 1) = IF 0 > n - 1 THEN 0 ELSE n - 1 - 0 + 1
    BY FS_Interval
  <2> QED BY <2>1
<1>5. ~ Cardinality(open) < n
  <2> SUFFICES ASSUME Cardinality(open) < n PROVE FALSE
    OBVIOUS
  <2>1. \E x, y \in 0 .. n - 1 : x # y /\ f[x] = f[y]
    <3> HIDE DEF f
    <3> QED BY <1>2, <1>4, OpenFinite, FS_PigeonHole
  <2> QED BY <1>3, <2>1
<1> QED
  BY <1>5, OpenFinite DEF TableInv, AliveCount

(* acceptTcpConnet always finds a slot for what it accepts.                *)
LEMMA RoomMeansSlot ==
    ASSUME TableInv PROVE AcceptHasSlot
<1> SUFFICES ASSUME HasRoom, \A s \in Slots : connfd_alive[s] # 0
             PROVE  FALSE
  BY DEF AcceptHasSlot
<1>1. UART_TCP_CLIENT_MAX <= connfd_alivenum
  BY UsedPrefix DEF Slots
<1> QED BY <1>1 DEF HasRoom, TableInv

-----------------------------------------------------------------------------
(* A connection that was accepted is stored and watched.                   *)
LEMMA AcceptKeepsTableInv ==
    ASSUME TableInv, acceptTcpConnet
    PROVE  TableInv'
<1>1. CASE NothingAccepted
  BY <1>1 DEF NothingAccepted, table, kernel, TableInv, WatchSetsMatchOpen,
              AliveCount, TableLive, MaxFdCovers, entries, open
<1>2. ASSUME NEW fd \in Fds, Accepted(fd) PROVE TableInv'
  <2>1. \E s \in Slots : connfd_alive[s] = 0
    BY <1>2, RoomMeansSlot DEF Accepted, AcceptHasSlot
  <2>2. /\ connfd_alivenum < UART_TCP_CLIENT_MAX
        /\ backlog > 0 /\ backlog' = backlog - 1
        /\ fd \notin open
        /\ conn' = [conn EXCEPT ![fd] = "up"]
        /\ connfd_alive' = [connfd_alive EXCEPT ![connfd_alivenum] = fd]
        /\ connfd_alivenum' = connfd_alivenum + 1
        /\ read_set' = read_set \cup {fd}
        /\ write_set' = write_set \cup {fd}
        /\ max_fd' = IF fd > max_fd THEN fd ELSE max_fd
    BY <1>2, <2>1 DEF Accepted, HasRoom, NewSlot, RaisedMaxFd
  <2>3. connfd_alivenum \in Slots
    BY <2>2 DEF TableInv, Slots
  <2>4. open' = open \cup {fd}
    BY <2>2 DEF open, TableInv, ConnStates
  <2>5. /\ connfd_alive' \in [Slots -> Fds \cup {0}]
        /\ connfd_alivenum' \in 0 .. UART_TCP_CLIENT_MAX
        /\ max_fd' \in Fds \cup {0}
        /\ read_set' \in SUBSET Fds /\ write_set' \in SUBSET Fds
        /\ conn' \in [Fds -> ConnStates]
        /\ backlog' \in 0 .. Backlog
    BY <2>2, <2>3 DEF TableInv, ConnStates
  <2>6. WatchSetsMatchOpen'
    BY <2>2, <2>4 DEF TableInv, WatchSetsMatchOpen
  <2>7. AliveCount'
    BY <2>2, <2>4, OpenFinite, FS_AddElement DEF TableInv, AliveCount
  <2>8. TableLive'
    <3>1. \A s \in Slots : connfd_alive'[s] =
              IF s = connfd_alivenum THEN fd ELSE connfd_alive[s]
      BY <2>2, <2>3 DEF TableInv
    <3>2. \A s \in Slots : connfd_alive[s] # fd
      BY <2>2 DEF TableInv, TableLive, entries
    <3>3. entries' \subseteq open'
      BY <2>4, <3>1 DEF TableInv, TableLive, entries
    <3>4. \A s, t \in Slots :
             connfd_alive'[s] # 0 /\ connfd_alive'[s] = connfd_alive'[t] => s = t
      BY <3>1, <3>2 DEF TableInv, TableLive
    <3> QED BY <3>3, <3>4 DEF TableLive
  <2>9. MaxFdCovers'
    BY <2>2, <2>4 DEF TableInv, MaxFdCovers, open
  <2> QED BY <2>5, <2>6, <2>7, <2>8, <2>9 DEF TableInv
<1> QED BY <1>1, <1>2 DEF acceptTcpConnet

(* What CloseClient does, once its descriptor is known to be an open one.  *)
LEMMA CloseEffect ==
    ASSUME TableInv, CallInv, CloseClient, connfd \in Fds
    PROVE  /\ connfd \in open
           /\ open' = open \ {connfd}
           /\ connfd_alive' = [connfd_alive EXCEPT ![i] = 0]
           /\ connfd_alivenum' = connfd_alivenum - 1
           /\ conn' = [conn EXCEPT ![connfd] = "closed"]
           /\ read_set' = read_set \ {connfd}
           /\ write_set' = write_set \ {connfd}
           /\ UNCHANGED <<max_fd, backlog>>
<1>1. connfd \in entries
  BY DEF connfd, entries, CallInv
<1>2. /\ connfd_alive' = [connfd_alive EXCEPT ![i] = 0]
      /\ connfd_alivenum' = connfd_alivenum - 1
      /\ conn' = [conn EXCEPT ![connfd] = "closed"]
      /\ read_set' = read_set \ {connfd}
      /\ write_set' = write_set \ {connfd}
      /\ UNCHANGED <<max_fd, backlog>>
  BY DEF CloseClient, Close, FreedSlot, OneLess, NotWatched
<1>3. connfd \in open
  BY <1>1 DEF TableInv, TableLive
<1>4. open' = open \ {connfd}
  <2>1. \A fd \in Fds : conn'[fd] = IF fd = connfd THEN "closed" ELSE conn[fd]
    BY <1>2 DEF TableInv
  <2> QED BY <2>1 DEF open
<1> QED BY <1>2, <1>3, <1>4

(* A client that failed is closed and its slot is freed.                   *)
LEMMA CloseKeepsTableInv ==
    ASSUME TableInv, CallInv, CloseClient, connfd \in Fds
    PROVE  TableInv'
<1> DEFINE c == connfd
<1>1. /\ c \in open
      /\ open' = open \ {c}
      /\ connfd_alive' = [connfd_alive EXCEPT ![i] = 0]
      /\ connfd_alivenum' = connfd_alivenum - 1
      /\ conn' = [conn EXCEPT ![c] = "closed"]
      /\ read_set' = read_set \ {c}
      /\ write_set' = write_set \ {c}
      /\ UNCHANGED <<max_fd, backlog>>
  BY CloseEffect
<1>2. i \in Slots /\ c = connfd_alive[i] /\ c # 0
  BY DEF CallInv, connfd
<1> HIDE DEF c
<1>3. AliveCount'
  BY <1>1, OpenFinite, FS_RemoveElement DEF TableInv, AliveCount
<1>4. connfd_alivenum' \in 0 .. UART_TCP_CLIENT_MAX
  <2>1. Cardinality(open) # 0
    BY <1>1, OpenFinite, FS_EmptySet
  <2> QED BY <1>1, <2>1, OpenFinite DEF TableInv, AliveCount
<1>5. /\ connfd_alive' \in [Slots -> Fds \cup {0}]
      /\ max_fd' \in Fds \cup {0}
      /\ read_set' \in SUBSET Fds /\ write_set' \in SUBSET Fds
      /\ conn' \in [Fds -> ConnStates]
      /\ backlog' \in 0 .. Backlog
  BY <1>1 DEF TableInv, ConnStates
<1>6. WatchSetsMatchOpen'
  BY <1>1 DEF TableInv, WatchSetsMatchOpen
<1>7. TableLive'
  <2>1. \A s \in Slots : connfd_alive'[s] = IF s = i THEN 0 ELSE connfd_alive[s]
    BY <1>1 DEF TableInv
  <2>2. \A s \in Slots : s # i => connfd_alive[s] # c
    BY <1>2 DEF TableInv, TableLive
  <2>3. entries' \subseteq open'
    BY <1>1, <2>1, <2>2 DEF TableInv, TableLive, entries
  <2>4. \A s, t \in Slots :
           connfd_alive'[s] # 0 /\ connfd_alive'[s] = connfd_alive'[t] => s = t
    BY <2>1 DEF TableInv, TableLive
  <2> QED BY <2>3, <2>4 DEF TableLive
<1>8. MaxFdCovers'
  BY <1>1 DEF TableInv, MaxFdCovers
<1> QED BY <1>3, <1>4, <1>5, <1>6, <1>7, <1>8 DEF TableInv

(* A peer's move never opens or closes a descriptor of the server.         *)
LEMMA PeerKeepsTableInv ==
    ASSUME TableInv, Peer
    PROVE  TableInv' /\ UNCHANGED <<table, selected, call>> /\ open' = open
<1>1. CASE PeerConnect
  BY <1>1 DEF PeerConnect, TableInv, WatchSetsMatchOpen, AliveCount, TableLive,
              MaxFdCovers, entries, open, table, selected, call
<1>2. ASSUME NEW fd \in Fds, NEW from \in ConnStates \ {"closed"},
             NEW to \in ConnStates \ {"closed"}, PeerMoves(fd, from, to)
      PROVE  TableInv' /\ UNCHANGED <<table, selected, call>> /\ open' = open
  <2>1. open' = open
    BY <1>2 DEF PeerMoves, TableInv, open
  <2>2. conn' \in [Fds -> ConnStates]
    BY <1>2 DEF PeerMoves, TableInv
  <2> QED
    BY <1>2, <2>1, <2>2 DEF PeerMoves, TableInv, WatchSetsMatchOpen, AliveCount,
        TableLive, MaxFdCovers, entries, table, selected, call
<1> QED
  BY <1>1, <1>2 DEF Peer, PeerCloses, PeerResets, PeerResetsAfterClose, ConnStates

(* The loop goes to the next slot.                                         *)
LEMMA NextClientKeepsI ==
    ASSUME CallInv, NextClient, UNCHANGED <<selected, op, connMax>>
    PROVE  CallInv'
BY DEF NextClient, CallInv, LoopStart, Slots, selected

(* The invariants of the runs hold initially and are kept by every step.   *)
LEMMA InitIInv == Init => IInv
<1> SUFFICES ASSUME Init PROVE IInv
  OBVIOUS
<1>1. open = {}
  BY DEF Init, open
<1>2. Cardinality(open) = 0
  BY <1>1, FS_EmptySet
<1> QED
  BY <1>1, <1>2 DEF Init, IInv, TableInv, CallInv, WatchSetsMatchOpen, AliveCount,
      TableLive, MaxFdCovers, entries, Slots, Ops, ConnStates

(* Together.                                                               *)
LEMMA StepIInv == IInv /\ [Next]_vars => IInv'
<1> SUFFICES ASSUME IInv, [Next]_vars PROVE IInv'
  OBVIOUS
<1> USE DEF IInv
<1>1. CASE UNCHANGED vars
  BY <1>1 DEF vars, table, selected, call, kernel, TableInv, CallInv, open,
      WatchSetsMatchOpen, AliveCount, TableLive, MaxFdCovers, entries
<1>2. CASE Peer
  BY <1>2, PeerKeepsTableInv DEF CallInv, selected, call
<1>3. ASSUME NEW f \in Ops, Enter(f) PROVE IInv'
  <2>1. TableInv'
    BY <1>3, AcceptKeepsTableInv DEF Enter
  <2> QED
    BY <1>3, <2>1 DEF Enter, CallInv, TableInv, selected, First, Slots
<1>4. CASE Select
  <2>1. TableInv'
    <3>1. CASE acceptTcpConnet
      BY <3>1, AcceptKeepsTableInv
    <3>2. CASE UNCHANGED <<table, kernel>>
      BY <3>2 DEF table, kernel, TableInv, open, WatchSetsMatchOpen, AliveCount,
          TableLive, MaxFdCovers, entries
    <3> QED BY <1>4, <3>1, <3>2 DEF Select
  <2>2. ASSUME NEW W \in SUBSET Fds, NEW sure PROVE ReadySets(W, sure) \subseteq SUBSET Fds
    BY DEF ReadySets
  <2>3. select_read_set' \in SUBSET Fds /\ select_write_set' \in SUBSET Fds
    BY <1>4, <2>2 DEF Select, CallInv, TableInv
  <2> QED
    BY <1>4, <2>1, <2>3 DEF Select, CallInv, LoopStart
<1>5. CASE WriteDone
  <2>1. TableInv'
    BY <1>5 DEF WriteDone, table, kernel, TableInv, open, WatchSetsMatchOpen,
        AliveCount, TableLive, MaxFdCovers, entries
  <2>2. CallInv'
    <3>1. CASE NextClient
      BY <1>5, <3>1, NextClientKeepsI DEF WriteDone
    <3>2. CASE pc' = "read" /\ UNCHANGED i
      BY <1>5, <3>2 DEF WriteDone, CallInv, selected
    <3> QED BY <1>5, <3>1, <3>2 DEF WriteDone
  <2> QED BY <2>1, <2>2
<1>6. CASE WriteFails
  <2>1. connfd \in Fds
    BY <1>6 DEF WriteFails, MustWrite, CallInv
  <2> QED
    BY <1>6, <2>1, CloseKeepsTableInv, NextClientKeepsI DEF WriteFails
<1>7. CASE WriteKills
  BY <1>7 DEF WriteKills, table, selected, kernel, TableInv, CallInv, open,
      WatchSetsMatchOpen, AliveCount, TableLive, MaxFdCovers, entries
<1>8. CASE ReadDone
  <2>1. TableInv'
    BY <1>8 DEF ReadDone, table, kernel, TableInv, open, WatchSetsMatchOpen,
        AliveCount, TableLive, MaxFdCovers, entries
  <2> QED BY <1>8, <2>1, NextClientKeepsI DEF ReadDone
<1>9. CASE ReadFails
  <2>1. connfd \in Fds
    BY <1>9 DEF ReadFails, CallInv
  <2> QED
    BY <1>9, <2>1, CloseKeepsTableInv, NextClientKeepsI DEF ReadFails
<1> QED
  BY <1>1, <1>2, <1>3, <1>4, <1>5, <1>6, <1>7, <1>8, <1>9 DEF Next, Server

(* So it holds in every behaviour.                                         *)
LEMMA SpecIInv == Spec => []IInv
BY InitIInv, StepIInv, PTL DEF Spec

(* Every field of sttcpserver_crol and of the call keeps its range: the    *)
(* table is never indexed out of bounds.                                   *)
THEOREM TypeCorrect == Spec => []TypeOK
<1>1. IInv => TypeOK
  BY DEF IInv, TableInv, CallInv, TypeOK
<1> QED BY <1>1, SpecIInv, PTL

(* The table, the counter, the two watched sets and max_fd always agree    *)
(* with the connections that are open.                                     *)
THEOREM BookkeepingCorrect == Spec => []TableConsistent
<1>1. IInv => TableConsistent
  BY DEF IInv, TableInv, TableConsistent
<1> QED BY <1>1, SpecIInv, PTL

(* acceptTcpConnet never accepts a connection it has no slot for.          *)
THEOREM AcceptHasSlotCorrect == Spec => []AcceptHasSlot
<1>1. IInv => AcceptHasSlot
  BY RoomMeansSlot DEF IInv
<1> QED BY <1>1, SpecIInv, PTL

-----------------------------------------------------------------------------
(* How a step changes the table: not at all, by storing an accepted        *)
(* descriptor, or by closing the client in slot i.                         *)
Stores(fd) ==
    /\ connfd_alivenum < UART_TCP_CLIENT_MAX
    /\ fd \notin open
    /\ connfd_alive' = [connfd_alive EXCEPT ![connfd_alivenum] = fd]
    /\ conn' = [conn EXCEPT ![fd] = "up"]
    /\ open' = open \cup {fd}

Drops ==
    /\ connfd \in open
    /\ conn[connfd] = "rst"
    /\ connfd_alive' = [connfd_alive EXCEPT ![i] = 0]
    /\ conn' = [conn EXCEPT ![connfd] = "closed"]
    /\ open' = open \ {connfd}

(* Where an accepted descriptor is stored.                                 *)
LEMMA AcceptStores ==
    ASSUME TableInv, acceptTcpConnet
    PROVE  UNCHANGED <<table, kernel>> \/ \E fd \in Fds : Stores(fd)
<1>1. CASE NothingAccepted
  BY <1>1 DEF NothingAccepted
<1>2. ASSUME NEW fd \in Fds, Accepted(fd) PROVE Stores(fd)
  <2>1. \E s \in Slots : connfd_alive[s] = 0
    BY <1>2, RoomMeansSlot DEF Accepted, AcceptHasSlot
  <2>2. open' = open \cup {fd}
    BY <1>2 DEF Accepted, open, TableInv, ConnStates
  <2> QED BY <1>2, <2>1, <2>2 DEF Accepted, HasRoom, NewSlot, Stores
<1> QED BY <1>1, <1>2 DEF acceptTcpConnet

(* What a step may do to the table.                                        *)
LEMMA StepKinds ==
    ASSUME IInv, [Next]_vars
    PROVE  \/ UNCHANGED <<connfd_alive, conn>>
           \/ Peer
           \/ \E fd \in Fds : Stores(fd)
           \/ Drops
<1> USE DEF IInv
<1>1. CASE UNCHANGED vars \/ Peer \/ WriteDone \/ WriteKills \/ ReadDone
  BY <1>1 DEF vars, table, kernel, WriteDone, WriteKills, ReadDone
<1>2. CASE (\E f \in Ops : Enter(f)) \/ Select
  BY <1>2, AcceptStores DEF Enter, Select, table, kernel
<1>3. CASE WriteFails \/ ReadFails
  <2>1. connfd \in Fds /\ CloseClient /\ conn[connfd] = "rst"
    BY <1>3 DEF WriteFails, ReadFails, MustWrite, CallInv
  <2> QED BY <2>1, CloseEffect DEF Drops
<1> QED BY <1>1, <1>2, <1>3 DEF Next, Server

(* A connection that has lost its slot stays open and outside the table.   *)
THEOREM LeakIsForeverCorrect == Spec => LeakIsForever
<1>1. IInv /\ [Next]_vars => lost \subseteq lost'
  <2> SUFFICES ASSUME IInv, [Next]_vars PROVE lost \subseteq lost'
    OBVIOUS
  <2>1. CASE UNCHANGED <<connfd_alive, conn>>
    BY <2>1 DEF lost, open, entries
  <2>2. CASE Peer
    BY <2>2, PeerKeepsTableInv DEF IInv, lost, entries, table
  <2>3. ASSUME NEW fd \in Fds, Stores(fd) PROVE lost \subseteq lost'
    <3>1. entries' \subseteq entries \cup {fd}
      BY <2>3 DEF Stores, entries, IInv, TableInv, Slots
    <3> QED BY <2>3, <3>1 DEF Stores, lost
  <2>4. CASE Drops
    <3>1. connfd \in entries
      BY <2>4 DEF Drops, connfd, entries, IInv, CallInv, open
    <3>2. entries' \subseteq entries
      BY <2>4 DEF Drops, entries, IInv, TableInv, CallInv
    <3> QED BY <2>4, <3>1, <3>2 DEF Drops, lost
  <2> QED BY <2>1, <2>2, <2>3, <2>4, StepKinds
<1> QED BY <1>1, SpecIInv, PTL DEF Spec, LeakIsForever

(* A connection is pushed out of its slot only when a slot below is free.  *)
THEOREM DropNeedsHoleCorrect == Spec => DropNeedsHole
<1>1. IInv /\ [Next]_vars =>
        \A s \in Slots :
          /\ connfd_alive[s] \in open
          /\ connfd_alive[s] \in lost'
          => \E t \in 0 .. s - 1 : connfd_alive[t] = 0
  <2> SUFFICES ASSUME IInv, [Next]_vars, NEW s \in Slots,
                      connfd_alive[s] \in open, connfd_alive[s] \in lost',
                      \A t \in 0 .. s - 1 : connfd_alive[t] # 0
               PROVE  FALSE
    OBVIOUS
  <2>1. connfd_alive'[s] # connfd_alive[s]
    BY DEF lost, entries, open
  <2>2. CASE Peer
    BY <2>1, <2>2, PeerKeepsTableInv DEF IInv, table
  <2>3. ASSUME NEW fd \in Fds, Stores(fd) PROVE FALSE
    <3>1. s = connfd_alivenum /\ s + 1 \in 0 .. UART_TCP_CLIENT_MAX
      BY <2>1, <2>3 DEF Stores, IInv, TableInv, Slots
    <3>2. \A t \in 0 .. (s + 1) - 1 : connfd_alive[t] # 0
      BY DEF open, Slots
    <3>3. s + 1 <= connfd_alivenum
      BY <3>1, <3>2, UsedPrefix DEF IInv
    <3> QED BY <3>1, <3>3 DEF Slots
  <2>4. CASE Drops
    <3>1. s = i
      BY <2>1, <2>4 DEF Drops, IInv, TableInv
    <3> QED BY <2>4, <3>1 DEF Drops, connfd, lost
  <2> QED BY <2>1, <2>2, <2>3, <2>4, StepKinds
<1> QED BY <1>1, SpecIInv, PTL DEF Spec, DropNeedsHole

(* Capacity is lost for good, and by a hole in the table only.             *)
THEOREM LeaksExplainedCorrect == Spec => LeaksExplained
BY LeakIsForeverCorrect, DropNeedsHoleCorrect DEF LeaksExplained

-----------------------------------------------------------------------------
resetFds == {fd \in Fds : conn[fd] = "rst"}

(* Every step of the server is one of the pool, or none.                   *)
THEOREM ServerImplementsPool == Spec => PoolSpec
<1>1. Init => Pool!Init
  BY DEF Init, Pool!Init, open
<1>2. IInv /\ [Next]_vars => [Pool!Next]_<<open, resetFds>>
  <2> SUFFICES ASSUME IInv, [Next]_vars
               PROVE  Pool!Next \/ UNCHANGED <<open, resetFds>>
    OBVIOUS
  <2>1. CASE UNCHANGED <<connfd_alive, conn>>
    BY <2>1 DEF open, resetFds
  <2>2. CASE Peer
    <3>1. open' = open
      BY <2>2, PeerKeepsTableInv DEF IInv
    <3>2. CASE PeerConnect
      BY <3>1, <3>2 DEF PeerConnect, resetFds
    <3>3. ASSUME NEW fd \in Fds, PeerCloses(fd) \/ PeerResetsAfterClose(fd)
          PROVE  resetFds' = resetFds
      BY <3>3 DEF PeerCloses, PeerResetsAfterClose, PeerMoves, resetFds, IInv, TableInv
    <3>4. ASSUME NEW fd \in Fds, PeerResets(fd) PROVE Pool!Fail(fd)
      <4>1. fd \in open \ resetFds
        BY <3>4 DEF PeerResets, PeerMoves, open, resetFds
      <4>2. resetFds' = resetFds \cup {fd}
        BY <3>4 DEF PeerResets, PeerMoves, resetFds, IInv, TableInv
      <4> QED BY <3>1, <4>1, <4>2 DEF Pool!Fail, resetFds
    <3> QED BY <2>2, <3>1, <3>2, <3>3, <3>4 DEF Peer, Pool!Next
  <2>3. ASSUME NEW fd \in Fds, Stores(fd) PROVE Pool!Admit(fd)
    <3>1. Cardinality(open) < UART_TCP_CLIENT_MAX
      BY <2>3 DEF Stores, IInv, TableInv, AliveCount
    <3>2. resetFds' = resetFds
      BY <2>3 DEF Stores, resetFds, IInv, TableInv, open
    <3> QED
      BY <2>3, <3>1, <3>2 DEF Stores, Pool!Admit, resetFds, Cardinality, Pool!Cardinality
  <2>4. CASE Drops
    <3> PICK fd \in resetFds : fd = connfd
      BY <2>4 DEF Drops, open, resetFds
    <3>1. resetFds' = resetFds \ {fd}
      BY <2>4 DEF Drops, resetFds, IInv, TableInv
    <3>2. Pool!Evict(fd)
      BY <2>4, <3>1 DEF Drops, Pool!Evict, resetFds
    <3> QED BY <3>2 DEF Pool!Next, resetFds
  <2> QED BY <2>1, <2>2, <2>3, <2>4, StepKinds DEF Pool!Next
<1> QED BY <1>1, <1>2, SpecIInv, PTL DEF Spec, PoolSpec, Pool!Spec, resetFds
=============================================================================
