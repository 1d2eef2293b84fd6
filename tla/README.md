# A TLA+ verification of the wireless-node program in `src/`

`src/` is a collection of C services for a radio node: a TCP server and client,
multicast ranging messages, a signalling layer that packs commands into MAC
frames, a data collector, a hash table, and a set of process-communication
programs (shared memory, semaphore, message queue, mapped file, pipe, signals,
process tree), next to a log, an update of a configuration file and the lists of
the Linux kernel. The modules here model the parts that keep state, TLC checks
them on small instances, and TLAPS proves the safety properties of all of them for every
value of the constants.

Contents: 1 inventory, 2 modules, 3 runs, 4 proofs, 5 fairness, 6 assumptions
and abstractions, 7 where the code and its comments disagree, 8 what is not
modelled, 9 plan.

## 1. Inventory

Sources are `src/src/*.c` with headers in `src/include/`.

| Component | State | Operations | What is hard | What makes it correct |
|---|---|---|---|---|
| **TCP server** `protocol_socket.c` 305-532 | `sttcpserver_crol`: `connfd_alive[]`, `connfd_alivenum`, `max_fd`, `read_set`, `write_set` | `acceptTcpConnet`, `send_/recv_/rw_tcpserver`, polled by one thread | Peers connect, close and reset between any two system calls. A counter is kept apart from the table it indexes. The loop runs over a count that shrinks under it | Table, counter, watched sets and `max_fd` agree with the open connections. Capacity is never exceeded. Only failed connections are closed. A connection that failed is closed in the end |
| **Signalling sender** `cmd_handle.c` 170-304 | one `cmd_buf_t` per type | `tx_cmd_indata`, `tx_cmd` | Commands are cut over several calls with different room | No frame overflows, no byte is lost or sent twice, priority, every command is drained |
| **Signalling receiver** `cmd_handle.c` 17-162, 306-318 | one `cmd_buf_t` per node and type | `rx_cmd`, `rx_cmd_frag_combine`, `rx_check_cmddata_complete` | Lengths and types nobody has checked, fragments, frames that must leave no trace, a loop that moves on only after a complete command | The commands of a sound frame are handled in order, each once; no buffer is overrun; `rx_cmd` returns |
| **Shared memory** `process_interactive.c` 8-123 | segment with `written_by_you`, `some_text` | `producer`, `customer` in two processes | One flag is the only synchronisation; late start; access after release | Lines in order, none half written or overwritten unprinted |
| **Semaphore** 355-464 | a System V semaphore that outlives the program | `createSemSet`, `initSem`, `P`, `V`, `sem_PV_handler` | Two starts at once, kills while holding (no `SEM_UNDO`), re-initialisation | Mutual exclusion, no lost wake-up, no starvation |
| **Mapped file** 130-207 | file size, flag | `mmap_write`, `mmap_read` | A file between creation and first write, flags of earlier runs | Who is killed, who ends |
| **Message queue** 213-285 | the queue and its id | `msgqueue_send`, `msgqueue_recv` | Removal under other senders, a full queue, a killed receiver | Order, every loss explained, nobody waits for ever |
| **Process tree** 468-598, `route_algo.c` 14 | `s_subproclist`, the processes | `proc_register_init`, `sub_proc_exec_func`, `proc_wait_handle` | `fork` fails for some indices, children end in any order | Only the parent forks, it ends last, it ends |
| **Hash table** `c_STL.c` | chains of nodes | `InitHashTable`, `Insert`, `Get`, `Dorp`, `clearHashTable` | Colliding keys, duplicate nodes | `Get` returns the last value inserted; keys do not disturb each other |
| **Multicast ranging** `protocol_socket.c` 564-781 | `g_databuf[e_tx]` (shared by both directions), service marks | `multi_rx`, `multi_data_rx`, `multi_tx`, `expire_handle`, `dist_init` | Lengths named by a datagram, old words behind a shorter one, several services due at once | Only received, complete PDUs are dispatched; what is sent is the node's own data |
| **Data collection** `collectData.c` | `g_collBuf`: `count`, `len`, `data` | `thread_collect`, `collect` in two threads | No synchronisation at all: lost decrements, wrap below 0 | The file gets filled blocks only, the buffer is not overrun, `collect` ends |
| **TCP client** `protocol_socket.c` 157-299 | one socket, as the kernel keeps it | `init_tcpclient`, `tcpconnect`, `send_/recv_/rw_tcpclient` | `connect` again on a socket that failed; failures that come between two calls; soft errors; SIGPIPE | A sound connection is left alone, a reader comes back, who is killed had a failure |
| **UDP and TCP set-up** `protocol_socket.c` 11-38, 65-150 | a socket per program | `init_udp`, `init_udpmulti`, `init_tcpserver` | Two programs bound to one port before either listens; each call may fail | Exactly one gets the port, failures hold nothing |
| **Logging** `logging.c` | `debug.log`, `debug_bak.log`, `g_log_f`, descriptors | `main_log`, `debug_logging`, `log_file_init`, `write_file`, `log_file_close` | Several programs move one file by name while others hold it open; either `fopen` and the `mv` may fail | Bounded files, the last lines are kept, no descriptor is lost by `main_log` |
| **Configuration** `common.c` 484-524 | `udhcpd.conf` and the stream's position | `update_conf` | Writing in place over what was read; numbers of other lengths; calls after calls | The file is what it should be, other lines are untouched, the loop ends |
| **Signals** `common.c` 95-143, `process_interactive.c` 335-348 | handlers, blocked and pending signals | `main_dump`, `dump_backtrace`, `myfunc3`, `sig_handler`, `sig_alarm` | A handler that interrupts a handler, or `malloc`, which it calls itself; a fault that comes again | What kills was traced; a program that faults ends |
| **Pipe** `process_interactive.c` 292-328 | the pipe's ends | `channel` | Kills at any point, `fork` that fails | The message or a death; nobody waits for ever |
| **Kernel list** `kernel_list.h` 21-484 | `next` and `prev` of each node | all operations of `struct list_head` | Assignments to one node in an order that matters, empty lists, stale heads | Each operation does to the sequence of entries what its comment says |
| The rest of `common.c`, driver notes, websocket, routing stubs, `main` | none | - | - | not modelled, see 8 |

How they interact: hardly at all. `process_task` (`common.c` 146) and
`route_main` start one of the programs of `process_interactive.c`, the one that
is not commented out. The TCP server, the client and the multicast functions are
called from an endless loop on one thread (`task_sock` in `common.c`, itself
commented out). Nothing calls the log, `update_conf` or the collector, and nothing
includes `kernel_list.h`. Where parts share nothing, a composing module (`ProcessInteractive`, `Files`, `Sockets`, `Library`) has a variable
that says which one runs, so that one run of TLC covers them. Two components share state: the two directions of the multicast functions share
`g_databuf[e_tx]`, and the two threads of the collector share `g_collBuf`. The
signalling sender's frames are what the receiver of another node takes apart, with
the lengths `tx_cmd` gives them among the ones the receiver is checked with.

`PROJECT.json` lists the hazards line by line, with the properties that would
notice each.

## 2. Modules and how they correspond to the code

| Module | Models | An action is |
|---|---|---|
| `TcpServer` | the TCP server, its peers and the kernel's view of descriptors | a peer's move, or the part of a polling call up to the next system call under which the kernel may change: entry with `accept` (`Enter`), `Select`, and per client the write and the read with everything the branch does (`CloseClient`) |
| `ConnPool` | what the server promises: a bounded pool that closes only failed connections | abstract; implemented by `TcpServer` (`PoolSpec`) |
| `CmdTx` | `cmd_buf_init`, `tx_cmd_indata` (one action), `tx_cmd` (one action per turn of its loop) | `NothingToSend`, `Send`, `Return` are the three ways a turn goes |
| `CmdRx` | `rx_cmd` with its checks, its loop and the two functions it calls, on headers that may say anything | a turn of the loop, by how it ends: `Handle`, `Incomplete`, `Killed`, `Overwrite` |
| `HashTable` | all operations of the table | one call |
| `KeyStacks` | what the table does, key by key: a stack of values | abstract; implemented by `HashTable` (`StacksSpec`) |
| `SharedMem` | `producer`, `customer` | one access to the segment; `strncpy` is two actions, so the customer may read a half-written line |
| `SemPV` | `sem_PV_handler`, `initSem`, `P`, `V`; Linux' `semop` | a system call or a letter printed; processes are killed anywhere |
| `Lock` | a lock | abstract; implemented by `SemPV` with one instance at a time (`LockSpec`) |
| `Mmap` | `mmap_write`, `mmap_read` | an access to the file or the mapping |
| `MsgQueue` | `msgqueue_send`, `msgqueue_recv`; the kernel's queue | a system call |
| `SubProc` | `proc_register_init`, `sub_proc_exec_func`, `timer_test`, `proc_wait_handle` | a system call or a turn of a loop |
| `Pipe` | `channel` | a system call; either process is killed anywhere |
| `Signals` | `main_dump`'s program and `sig_handler`'s: a stack of handlers, each with the step it is at | a signal sent, delivered or raised by a fault; a handler's call of `signal`, its entry into `malloc`, its end |
| `ProcessInteractive` | composes the seven above: the variable `task` picks the program that runs | a step of that program |
| `MultiRx` | `multi_rx`, `multi_data_rx`, `check_p_hdr_til`, `multi_pdu_rx` | a datagram, or one PDU |
| `MultiTx` | `multi_tx`, `expire_handle`, `dist_init`, `dist_*_snd` | a call, or one service's turn |
| `Multicast` | composes the two: one thread, one buffer | a received datagram is foreign bytes for `MultiTx` |
| `Collect` | `thread_collect`, `collect` | one access to `g_collBuf`; `count--` is a load and a store |
| `Logging` | `main_log` in several programs, and the other functions of the file. A file is a number with lines, so that a moved or replaced one that is still open is told from its name | a system call of `main_log`, which may fail; a call of the others |
| `ConfFile` | `update_conf` on a sequence of cells | a turn of its loop |
| `Files` | composes the three above | a step of one |
| `TcpClient` | the client and its socket: TCP's state, what `connect` goes by, the failure and the soft error to be read | a system call of the client, a move of the server or the network |
| `SocketInit` | the three functions that make a socket, in several programs | a system call that may fail |
| `Sockets` | composes the two above | a step of one |
| `KernelList` | the operations as their assignments in order, on the memory of nodes; `lists` is what a walk from each head sees (`Seen`: the entries next leads through, if prev leads back the same way) | a call, with its arguments |
| `Lists` | what the comments promise, on sequences: one action per comment, told the same entries, heads and places as the call | abstract; implemented by `KernelList`, call by call and as a whole (`ListsSpec`) |
| `Library` | composes `HashTable` and `KernelList` | a call |

`MC*` modules give the constants of the runs. The theorems and their proofs are
in a module next to each system: `TcpServerProofs`, `CmdTxProofs`,
`CmdRxProofs`, `ProcessInteractiveProofs`, `LibraryProofs`,
`MulticastProofs`, `FilesProofs` and `SocketsProofs`. A definition marked `a bug` is a variation of
the one below it; a property must fail when it takes that one's place, which
shows that the property says something about the code. No specification uses
these definitions.

State keeps the names of the C fields. Data are abstracted to what the
properties tell apart: payloads of TCP are absent; a byte of a command is its
offset; a digit of `update_conf`'s number is a cell of the file, and so is the
rest of an address before and after it; a sub-packet's payload is known by the frame and
the place in it; a datagram is a sequence of 16-bit words because `check_p_hdr_til`
compares words.

## 3. Runs

State counts are those of the runs.

| Run | Bounds | Shows |
|---|---|---|
| `MCTcpServer` (198 018 states) | 2 slots, 3 descriptors, accept queue of 1 | `TypeOK`: `connfd_alive` is never indexed out of bounds. `TableConsistent`: table, counter, watched sets and `max_fd` agree with the open connections. `LeaksExplained`: a live connection loses its slot only when a lower slot was freed, and never gets one again. `PoolSpec`: implements `ConnPool`. `SlotZeroServed`: a reset connection in slot 0 is closed |
| `MCTcpServerTable` | the same | violation of `OpenIsInTable`, see 7 |
| `MCCmdTx` (258 369) | 3 types, commands of 5 bytes, real header sizes, 7 frame sizes, 3 commands | `FrameFilled`: no overflow, no room left while data are; strict priority; `LenIsRemaining`; first sub-packet marked; `Drained` |
| `MCCmdTxBytes` | 1 type, 2 commands | violation of `EveryByteSent` |
| `MCCmdRx` (55 285) | 2 nodes, buffers of 2 bytes, 2 frames of up to 2 sub-packets with any of 8 headers: whole commands that fit, with a handler and without, `sublen` 0, 4 and 7, fragments; bad CRC, wrong lengths, `mac_frame_len` exact, with the MAC header, and too short | `HandledInOrder`: the switch gets the whole commands of accepted frames, each once, in order, up to the first sub-packet that is none, and what lies behind a frame only if its `mac_frame_len` counts more. `CommandsReturn`. `TypeOK`: no buffer is filled beyond its data |
| `MCCmdRxFragment` | one frame with a fragment of a command or its two, `mac_frame_len` counting the sub-packets only | violation of `RxReturns` |
| `MCLibrary` (12 316) | 3 colliding keys and 1 other, 2 values, 4 nodes in a chain; 2 heads and 3 entries | `StacksSpec`: the table implements `KeyStacks`, `Get` returns the top. `ListsSpec`: every call does to the entries, heads and places it is told what `Lists` says, and the lists implement `Lists` |
| `MCHashTableUnique` | the same table; one list head, no list entry | violation of `KeysUnique` |
| `MCProcessInteractive` (30 428) | 5 lines; 2 instances, 3 starts; 4 runs of the mapping's functions; 2 senders of 3 lines, a queue of 2, 1 kill; 5 indices, 7 pids; 3 signals | Shared memory: `LinesRendezvous` (in order, none half written; with the customer there first none overwritten unprinted). Semaphore: `UnitsKept` (nobody sleeps beside a free unit, units bounded by starts), `LockSpec` (implements `Lock`). Mapping: `KilledOnlyAtCreation`. Queue: `LinesAccounted` (in order, each loss and refusal explained). Tree and pipe: `ChildrenHeard`. Signals: `TracedBeforeDeath`. All: `ProgramsEnd` |
| `MCMulticast` (142 611) | 56 datagrams made of well-formed, cut and lying pieces; 2 datagrams; 2 services; 4 tick values | `DatagramAccounted`: exactly the leading complete PDUs of what was received are dispatched. `RxReturns`. `SendsOwnBytes`: nothing received or collected earlier is sent |
| `MCFiles` (496 827) | Collector: N = 3 as in the code, counter of 3 bits, room for 12 blocks. Log: 2 programs, 9 lines, files of 3 lines, 2 descriptors, 2 moves of a file that fail. Configuration: 4 numbers of 1 to 3 digits, 3 calls | `CollectSafe`: only filled blocks are written, and short of a decrement at 0 the buffer holds what is appended. `LogKept`: both files bounded up to the moves that fail, the last lines in one of them unless a named race happened, no descriptor lost by `main_log`, whichever `fopen` fails. `ConfIntact`. `FilesEnd`: `collect`'s own loop ends unless the counter was decremented at 0, `update_conf` ends |
| `MCSockets` (4 020) | 3 moves of server and network; 3 programs for one port | `ConnectionKept`, `ReaderReconnects`: the client. `OneGetsThePort` |

Why the bounds are enough for the cases that matter:

- TCP server: two slots are the least with a hole below a used slot, which every
  interesting case needs. Three descriptors, one more than slots, make the limit
  and not the lack of descriptors stop an accept. The theorems of section 4
  hold for any number.
- Signalling sender: the frame sizes are chosen around each boundary of
  `tx_cmd`: room for nothing (8, 12), for one and three bytes (13, 15), for
  exactly a command (21 = a command and a useless rest), a command and a piece
  (27), all three (40). A third load replaces a command while others are cut.
- TCP client: three troubles are a failure, another while the client deals with
  it, and a soft error before or between. The client itself is not bounded.
- Set-up: three programs, so that two that conflict leave a third one waiting.
- Log: nine lines are three times the limit, so both programs move the file more
  than once; two descriptors let the other functions use up what `main_log` needs;
  two failed moves may be of one file or of two. `fopen` may fail at any call.
- Configuration: one more digit runs into the end of the line, two into the next
  key; three calls let a longer, a shorter and again a longer number follow.
- Signals: three signals, so one may come while a second interrupts the first.
- Lists: three entries may be adjacent both ways round or have one between them;
  a second list is needed to splice and cut. Lists of any order of entries are
  reached: the entries, and the heads, are interchangeable in every definition, so
  the run uses symmetry (it checks no liveness).
- Signalling receiver: with two nodes, type 3 of the first is a buffer of the second
  and type 3 of the second lies behind all; with two bytes of data a payload can be
  empty, fit with and without room left, and be too long. A second sub-packet and
  a second frame follow each of these. Behind a frame any of the headers may lie.
- Semaphore: two instances of two processes fill the queue behind a holder; the
  third start sets the value while they sleep.
- Message queue: a sender has 3 lines, one more than the queue holds, so that it
  would wait for ever after a removal that left the queue there.
- Process tree: five indices as in the code; two pids are left free, so a child
  that forked would find one.
- Multicast: each piece is one way a PDU can be wrong; a longer datagram before
  a shorter one leaves words behind it.
- Collector: with 3 bits a wrap below 0 is a large counter, as with 32; 12 blocks
  are twice what `BlocksBounded` allows for.

Deadlock is checked in `MCCmdTx` and `MCLibrary`, the systems that never stop.
The others stop for good reasons: the TCP server and the client are killed by
SIGPIPE, programs end, senders run out of commands and receivers of frames, and the
main thread of the collector may spin on a counter of 0.

## 4. Proofs

`TcpServerProofs`, for any set of descriptors, table size, and queue length:

- The inductive invariant is `IInv == TableInv /\ CallInv`. `TableInv` is the
  type of the table together with `WatchSetsMatchOpen`, `AliveCount`,
  `TableLive` and `MaxFdCovers`. None of them is inductive alone: that a stored
  descriptor stays in bounds needs `connfd_alivenum < UART_TCP_CLIENT_MAX`; that
  the counter stays right when a client is closed needs its descriptor to be open
  (`TableLive`); and that an accepted descriptor finds a slot needs counter and
  table to agree. `CallInv` bounds the loop and the selected sets.
- `UsedPrefix`, by the pigeonhole principle, shows that n used slots in a row need
  n open connections; `RoomMeansSlot`, that a free slot exists below the limit,
  follows.
- Theorems: `TypeCorrect`, `BookkeepingCorrect`, `AcceptHasSlotCorrect`,
  `LeakIsForeverCorrect` and `DropNeedsHoleCorrect`, which together are
  `LeaksExplainedCorrect`, and `ServerImplementsPool`, the
  refinement of `ConnPool`. The last three rest on `StepKinds`: a step leaves the
  table alone, is a peer's, stores an accepted descriptor, or drops the client in
  slot `i`.

`CmdTxProofs`, for any number of types, header sizes, command length and frame
sizes:

- `IInv` joins `TypeOK`, `FrameFits`, `LowerTypesFirst` and `FirstpkgOnWire` with
  two strengthenings: `VisitedInv` (a lower type that still has data was cut, so
  the frame is full, and therefore nothing can follow it) and `FirstpkgInv`
  (`firstpkg` is set exactly while the command has no sub-packet on the wire).
- `RemainingCorrect` (`LenIsRemaining`) is about the sum of a sequence, a fold.
  `Sums(f, s)` says that `f` holds the sum of each prefix; `PayloadIsSum`, by the
  least-number principle, ties it to the fold; a step then appends one number to
  `s` and one value to `f` (`RemainingInv`).
- Theorems: `TypeCorrect`, `PriorityCorrect`, `FirstpkgCorrect`,
  `FrameFilledCorrect`, `RemainingCorrect`.

`CmdRxProofs`, for any headers, frames, nodes and buffer length:

- `LoopInv == LoopType /\ BufsInv /\ OrderInv`. `LoopType` says where in the frame
  `rxlen` is: at the beginning of sub-packet `k`, or behind the last one. `BufsInv` is
  why a buffer that was begun cannot be mixed with a later fragment: it waits only
  while the loop stays at the sub-packet that began it (the `continue` of section
  7). `OrderInv` splits what is due into the part that was handled and the sub-packets
  from `k` up to the first that does not pass. With it, an empty rest of the frame means
  that all of it was handled (`AllHandled`).
- `Least` and `Greatest` find that first sub-packet, `CombinedIsFound` shows that the
  buffer of a sub-packet that passes holds this one's payload whatever it held before.
- Theorems: `TypeCorrect`, `HandledInOrderCorrect`. They say nothing of a program that
  has written to memory of others, or that was killed, but that what was
  handled until then is right.

`ProcessInteractiveProofs`. Each of the seven programs has an inductive invariant;
`ShmRuns`, `SemRuns` and so on show that a behaviour of `ProcessInteractive` is
one of each program, since the others leave its variables alone. The theorems
about the whole then follow from those about the parts.

- Shared memory (`ShmInv`): the flag protects the segment. `ProducerInv` and
  `SegmentInv` say what is in it at each step of the producer, `CustomerInv` that
  what was printed was written before, in order, and `RendezvousInv` that with
  the customer there first nothing is flagged before the last line was printed.
- Semaphore (`SemInv`): `TypeOK`, which says that the queue holds the sleepers and
  nobody else, with `NoneSleepsInVain`, the bound on the units, `SemRunHasProcs`
  (an instance that does not run has no processes) and `SemSingle` (with one
  instance at a time there is one unit at most, in the semaphore or in one
  process). The last is what the refinement of `Lock` rests on: P is `Acquire`, V is
  `Release` or `Handover`, the end of a killed owner's instance is `Release`,
  and nothing else changes the owners. The bound needs cardinalities: a wake-up
  moves a unit, a kill leaves it with the dead.
- Mapping (`MapInv`), process tree (`SubInv`: only the first process is in the loop or
  waits, all others were forked by it with an index the loop has passed) and
  pipe (`PipInv`: who lives and is not through has the end it needs open, and
  the parent that waits has no writing end of its own).
- Signals (`SigInv`): a signal with a handler is `Answered`: its handler is in place,
  or runs, or has printed its trace. So the default action, which is what kills,
  finds the trace printed.
- Message queue: `MsgState` (where everybody is), `MsgOrder` (printed, held and queued
  lines, in this order, are in the order sent), `MsgEnds` (who sent "end", and
  how often) and `MsgLoss` (what is gone was in a removed queue or with a killed
  receiver).

`LibraryProofs`, for any keys, values, table size and hash, and any heads and
finitely many entries:

- `TableInv`: chains are sequences of nodes, each with a key of that chain.
- `StacksCorrect` (`StacksSpec`) is the refinement of `KeyStacks`, and what each operation
  does. The mapping reads a key's values off its chain by a recursion;
  `ValuesFrom(c, k, f)` says that `f` has the values from each node on. `Downwards`,
  induction down the chain by the least-number principle, shows that such an `f`
  exists (`ValuesExist`) and is the only one (`ValuesAre`); `WithNodeValues` and
  `WithoutNodeValues` then relate the values of a chain before and after it is
  changed, for its key (a push, a replaced top, a pop) and for the others
  (nothing). The order of nodes matters here only within a key.
- `TableTypeCorrect`: Get and Dorp look for a key where Insert put it.
- `ListsCorrect` (`ListsSpec`): every operation of `kernel_list.h` does to the entries,
  heads and places it is told what its comment says (`EntriesAsPromised`,
  `HeadsAsPromised`: the call with these arguments implies the action of `Lists` with
  these arguments), and all together refine `Lists`, for lists of any length and nodes
  at any distance. `ListInv` (`Rings(mem, lists, stale)`) says that each
  head that is not stale begins a ring of nodes linked both ways, that the ring is
  the list that is seen, and that no two lists share an entry. It is stronger than
  `TypeOK`, which does not say where a pointer leads. The argument has four layers:
  - `IsRing` is stated of sequences of nodes. A ring may be begun anywhere
    (`Rotated`), is two segments linked to each other (`RingJoined`), and survives
    writes elsewhere (`RingKept`, `SegKept`). From one head there is one ring
    (`RingIsUnique`, by the least place at which two would differ), so what is
    seen is it (`SeenIs`).
  - The `Mem*` lemmas say what the assignments of an operation come to in memory,
    in whichever order they overlap: `Between`, `Bridged`, `Parted`.
  - `Placed`, `Taken`, `Replaced` and `CutOff` are what that does to the rings: entries
    come to a place, leave it, take another's, or go to another head. `Frame` is
    the rest, the lists that an operation does not touch.
  - One lemma per operation (`Added`, `Deleted`, `Swapped`, `Moved`, `BulkMoved`,
    `RotatedLeft`, `CutPosition`, `Spliced`, ...) puts these together, and one per
    action or two alike (`AddStep` to `ReplaceHeadStep`) reads off the step of `Lists`
    with the call's own arguments. `list_swap` is a
    deletion, a replacement and an insertion; the special case of neighbours is a
    case of the proof as it is one of the code.
- `TypesCorrect` (`BothTyped`): also no pointer of a node on a list is POISON.

`MulticastProofs`, for any set of datagrams, any words left in the buffer and any
service data:

- `RxInv`: the position is where the last PDU dispatched ends, the PDUs follow each
  other from the first word, and a call that has returned had a reason to. Its
  theorem is `DatagramAccountedCorrect`.
- `TxInv`: while `multi_tx` collects, the datagram has a byte per marked service
  that was passed, and all are the last one's, hence `SendsOwnBytesCorrect`,
  whatever a received datagram left in the shared buffer.
- `TypeCorrect` (`BothTyped`) joins the types of both.

`FilesProofs`:

- Collector (`CollectSafeCorrect`), for any N, counter width and buffer with
  N (N + 1) <= 2 * DataBlocks. How much may still be appended depends on the
  counter quadratically: between the thread's load and store the main thread may
  count all the way down, after which the store sets the counter back to one
  less than was loaded. `ColInv` keeps that budget (`Room`).
- Log (`LogKeptCorrect`), for any finite set of programs: `LogCounts` bounds each file
  by the limit, its moves that failed, and the writers that have it open or are about
  to open it again (a failed move turns the one that was about to move it into one
  more of these);
  `LogRow` says that backup and log hold the last lines in a row, as long as
  nothing that is known to lose lines (`young`, `astray`) happened.
- Configuration (`ConfIntactCorrect`), for any numbers and any number of calls: as
  long as no number is wider than the room it had in the file (`Narrow`), the lines
  keep their places, each of `Width` cells, or two for the others (`CnfShape`); the
  loop is before a line or behind a number it has just written (`CnfAt`); and the
  lines it has passed have the number of this call (`CnfDone`).
- `TypeCorrect`: with `CnfType`, which holds for wider numbers too.

`SocketsProofs`:

- Set-up (`OneGetsThePortCorrect`), for any set of programs: `IniInv` says that who has
  the port keeps it from its rivals, and that who failed, unless the system did,
  has a rival that has it. `CallKeepsIniInv` covers all system calls at once.
- Client (`ConnectionKeptCorrect`), for any number of troubles: `CliInv` adds to the
  property what `tcpconnect` finds, and what becomes of a program that writes, as
  long as no soft error has come: `send_tcpclient` never connects again, and a
  program that writes not after an orderly close. After a refusal `rw_tcpclient` may.
- `TypeCorrect`.

The proofs use only the named assumptions of the modules, which TLC evaluates in
the runs: `FdsAssumption`, `SizeAssumption` (`TcpServer`), `SizesAssumption`
(`CmdTx`), `RxAssumption` (`CmdRx`),
`ProgramAssumptions` (finitely many instances, lengths and bounds that are
numbers), `TableAssumption` (a key has a position), `LibraryAssumption` (heads and
entries are different nodes, POISON is none, entries are finitely many), `MultiRxAssumption`,
`MulticastAssumption`, `FilesAssumptions` and `SocketsAssumptions`.

Checked by TLC only: all liveness properties, since fairness and ENABLED are beyond
the prover (`PoolSpec`, `LockSpec`, `StacksSpec` and `ListsSpec` are safety, `SlotZeroServed`,
`Drained`, `CommandsReturn`, `RxReturns`, `ProgramsEnd`, `FilesEnd` and `ReaderReconnects`
are not). Every invariant of a run is stated by a theorem.

## 5. Fairness

Each process or thread is scheduled: weak fairness of its steps, nothing about
peers, senders of datagrams or kills. Two cases say more.

- `CmdTx`: the MAC layer keeps asking for frames, and infinitely often for one
  with room for a header and a byte (`SF_vars(RoomyCall)`). Without it a command
  could wait for ever behind frames too small for anything; the code leaves the
  frame size to its caller.
- `TcpClient`: the program's loop goes on, and a server that can be reached accepts
  (`WF_vars(Accepted)`), without which no client could promise a connection;
  refusals, resets and soft errors are free, and bounded in number.
- `Signals`: a program runs on, and an instruction that faults is run again.
- `ConfFile`: the loop of a call runs on; nobody is obliged to call. `Logging` has no
  fairness: its properties are about what may happen.
- `TcpServer`: `task_sock` polls in an endless loop, so `Server` is weakly fair;
  the kernel and the peers are not.

`SemPV` needs no strong fairness: Linux serves sleepers in order, which the
model states as an explicit queue.

## 6. Assumptions and abstractions

- TCP: descriptor 0 marks a free slot, so standard input must be open. Nothing
  ignores SIGPIPE, so a write to a peer that closed and then reset kills the
  process (`WriteKills`).
- Sender: `max_maclen` is at least the MAC header. Below it `mac_remainlen` is
  negative and, compared with a `size_t`, huge; no caller exists to tell.
- Receiver: `type`, `sublen`, `index` and the flags are what the wire says. A `sublen`
  below the header's makes the length of a `memcpy` negative, that is huge, which
  kills the program; a payload too long, or a type whose buffer lies behind all
  others, writes to memory the model does not have, and what follows is undefined: the
  model stops there, in a state of its own, and no property speaks of what comes
  then. Type 3 and above of a node is the buffer of a later node, as the array is
  laid out. What lies behind a frame is a choice among the headers. A payload is
  one chunk, so a turn reads its header and its payload at once.
- Shared memory: `strncpy` and the two `strncmp` are torn at one point; a torn
  "end" (`tornEnd`) is a circumstance of a behaviour, not of a run, so properties
  that it breaks say so.
- Shared memory and message queue: input is lines and then "end". At the end of input
  without one, `fgets` leaves the buffer as it was and the last line is sent again and
  again; that is not modelled. A receiver of the queue that was killed is started
  again in the end, as the fairness has it.
- Semaphore: `semop` is Linux': an increment serves the head of the queue.
- Mapped file: the file is 4 bytes long, and so is the flag. The text lies behind its
  end in the same page; it decides nothing and is left out.
- Multicast: datagrams have an even number of bytes. The words on either side of
  the buffer are the halves of `len` fields that are 0, as the layout of
  `g_databuf` has them.
- Hash table: a hash is a constant position. After `clearHashTable` the heads
  point to freed nodes; as in `main_hash2` nothing uses the table before it is
  initialised again.
- TCP client: the socket is Linux'. `connect` after a failure only takes the failure
  off (ECONNABORTED) and is `StartConnect` the next time; SO_ERROR reads and clears;
  a write that cannot be sent raises SIGPIPE. `getsockopt` itself does not fail.
- Set-up: programs on one Linux host, on one port; the multicast group is the
  same for all, and no option but SO_REUSEADDR of `init_tcpserver` takes effect
  (`SO_BROADCAST | SO_REUSEADDR` is SO_BROADCAST).
- Log: a `main_log` line is 20 bytes and the limit 50, so sizes are in lines, of
  which 3 reach it. A line is written in one piece when the stream is closed.
  `mv` is a rename, or fails and changes nothing; its result is ignored, so as long as it
  fails a line is appended to the long file at every call, and only a bound on the
  failures bounds the file. `fopen` may fail for any reason. `write_file` on a NULL
  stream ends the program.
- Configuration: cells, not characters (see 2); lines that match none of the three
  keys are two of those of the file. Reading after writing without a seek in
  between is undefined in C; glibc goes on where it wrote, as the model does.
- Signals: glibc's `signal` (the handler stays, its own signal is blocked while it
  runs). `malloc` interrupted by `malloc` hangs, crashes or works. The other calls
  of a handler are taken as safe.
- Pipe: the message is smaller than PIPE_BUF.
- Lists: calls are those the comments allow: an entry is added when it is on no
  list and deleted when it is on one. `__list_add_valid` is the trivial one (no
  CONFIG_DEBUG_LIST), WRITE_ONCE is an assignment.
- Collector: the build (`gcc -g`, no optimisation) keeps the order of accesses;
  otherwise nothing could be said of a data race.

## 7. Where the code and its comments disagree

Each of these has a run whose violation shows it.

| Run | Code | Comment |
|---|---|---|
| `MCTcpServerTable` | `protocol_socket.c:520` stores an accepted descriptor at index `connfd_alivenum`, not in the free slot it has just found. After a client in a lower slot failed, that is the slot of a live client, which is then never polled or closed | `:323` a connection is a long one, kept until it is closed |
| `MCCmdTxBytes` | `cmd_handle.c:198` copies each piece from the start of the data | `:4` the data are all sent before more are added |
| `MCCmdRxFragment` | `cmd_handle.c:135` `continue` skips the advance of `rxlen`, so a fragment is combined for ever | `:5` data are stored until a command is complete and then handed on |
| `MCHashTableUnique` | `c_STL.c:95` compares only the first node of a chain | `:94` an existing key is overwritten |

Also noticed while modelling; the models behave this way, but no run is spent
on them:

- `cmd_handle.c:191` copies the header before `sublen` and `fragment` are set (`:205`,
  `:209`), so those on the wire are the ones of the sub-packet before, and `sublen` is 0
  for the first.
- `cmd_handle.c:228` counts the MAC header in `mac_frame_len`, `:128` does not, so
  `rx_cmd` reads on behind every frame of `tx_cmd` and handles what it finds there.
- `cmd_handle.c:30` to `:37`, the continuation of a command, is never reached: `rx_cmd` does
  not get past a fragment (`:135`), so no buffer is left begun. A sub-packet that is
  whole but empty is not complete either (`:64`), and loops as well.
- `cmd_handle.c:34` and `:48`: `sublen` is not checked. The first frame of `tx_cmd` has
  `sublen` 0, which gives -4 bytes to copy.
- `cmd_handle.c:19`: the type is not checked, and one of no handler is noticed only
  (`:156`) after it was copied to another node's buffer.
- `process_interactive.c:90`: a customer that starts late clears the flag of a
  line nobody printed. `:150`: the base value 1 is the flag "data are there".
  `:137`: no `O_TRUNC`, although `:197` says that opening clears the file.
- `protocol_socket.c:590`: each due service copies to the start of the buffer, so
  only the last one's data are sent. A mark, once set, is never taken back.
- `collectData.c:45`: a decrement at 0 wraps, and the main thread may spin on 0.
- `process_interactive.c:163`: `mmap_write` sets the flag before the text is there, so
  a reader may print a partial one (seen in the code; the model leaves the text out).
- `protocol_socket.c:191`: the result of `connect` is dropped. A program that writes
  is killed by the first write after the failure was cleared: `send_tcpclient` never
  comes back, and `rw_tcpclient` only if the write itself still met the failure and
  the read, finding no connection, called `connect` a second time. A soft error
  leaves a socket that `connect` refuses for good.
- `logging.c:26`: a second program that found the file long moves the new one over
  the backup (`young` in the model), or writes to what was moved (`astray`).
- `logging.c:26`: the result of `mv` is ignored, see 6.
- `common.c:503`: a number with more digits overwrites the end of its line.
- `common.c:106`: `malloc` in a signal handler.
- `kernel_list.h:374`: cutting an empty list leaves the target as it was; that is
  not what a reader of "a list you do not care about losing" might expect.

## 8. Not modelled

- `recv_udp_or_udpmulti`, `send_udp_or_udpmulti`: one system call each, no state.
- The rest of `common.c` and `c_STL.c`: demonstrations on fixed input whose result
  is printed (`sort_arr`, `str_combine`, `head_tail_cut_char`, `get_2arr`, `setbit`,
  `use_sscanf` and others), wrappers of a library call (`systemRet`, `timeval2us`,
  `myfgets`), and hash functions without a caller. A model of any would have one
  behaviour. `destroySemSet` and `collectDbfs` have no caller.
- `kernel_list.h` from 486 on: the iteration macros only read, and `hlist` is used by
  nothing either; `__list_del_clearprev` is for users
  outside this repository.
- `driver_module.c`, `kernel_list.c` and `kernelDemo.c` are notes and commented-out
  kernel code. The websocket files are disabled or vendored headers. The routing
  functions, the handlers of received commands and `main` are empty.

## 9. Plan

All components with state of their own are modelled, and their safety properties
are proved. What is left:

- The abstract specifications say what a step does and not that it happens; the
  liveness runs say that, on small instances only. Their safety halves, variants
  that decrease with each step (the turns left of a loop, the lines left of a
  program), could be proved for every value of the constants.
