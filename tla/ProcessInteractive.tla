------------------------- MODULE ProcessInteractive -------------------------
(***************************************************************************)
(* The programs of src/src/process_interactive.c, and main_dump.           *)
(* process_task (common.c), route_main and main run one of them, the one   *)
(* that is not commented out; each has its module:                         *)
(*   Shm    producer and customer (SharedMem)                              *)
(*   Sem    sem_PV_handler (SemPV)                                         *)
(*   Map    mmap_write and mmap_read (Mmap)                                *)
(*   Msg    msgqueue_send and msgqueue_recv (MsgQueue)                     *)
(*   Sub    proc_register_init and proc_wait_handle (SubProc)              *)
(*   Sig    main_dump (common.c) and sig_handler (Signals)                 *)
(*   Pip    channel (Pipe)                                                 *)
(*                                                                         *)
(* The programs share nothing.  The variable task says which one runs; the *)
(* others stay as they are before they start.                              *)
(***************************************************************************)
EXTENDS Integers, Sequences, FiniteSets

CONSTANTS
    TypedLines,                                \* Shm
    Instances, MaxStarts,                      \* Sem
    MaxRuns,                                   \* Map
    Senders, Capacity, MaxLines, MaxKills,     \* Msg
    SUB_PROC_NUM, MaxPid,                      \* Sub
    MaxSignals                                 \* Sig

VARIABLES
    task,
    customerFirst, tornEnd, written_by_you, some_text, ppc, buffer, cpc, written, shmPrinted,
    single, mayDie, semval, semQueue, ipc, sempc, starts,
    size, flag, wpc, mapReader, sizeAtOpen, runs,
    current, created, msgs, spc, smsgid, line, msgReceiver, rmsgid, some_data, sent, msgPrinted, kills,
    subpc, i, ppid,
    dumps, installed, handler, inMalloc, faulting, frames, pending, traced, fate, killer, undefined,
    signalsSent,
    parent, child, ends, message, got, mortal

shmVars == <<customerFirst, tornEnd, written_by_you, some_text, ppc, buffer, cpc, written, shmPrinted>>
semVars == <<single, mayDie, semval, semQueue, ipc, sempc, starts>>
mapVars == <<size, flag, wpc, mapReader, sizeAtOpen, runs>>
msgVars == <<current, created, msgs, spc, smsgid, line, msgReceiver, rmsgid, some_data, sent,
             msgPrinted, kills>>
subVars == <<subpc, i, ppid>>
sigVars == <<dumps, installed, handler, inMalloc, faulting, frames, pending, traced, fate, killer,
             undefined, signalsSent>>
pipVars == <<parent, child, ends, message, got, mortal>>
vars == <<task, shmVars, semVars, mapVars, msgVars, subVars, sigVars, pipVars>>

Shm == INSTANCE SharedMem WITH MaxLines <- TypedLines, printed <- shmPrinted
Sem == INSTANCE SemPV WITH queue <- semQueue, pc <- sempc
Map == INSTANCE Mmap WITH rpc <- mapReader
Msg == INSTANCE MsgQueue WITH rpc <- msgReceiver, printed <- msgPrinted
Sub == INSTANCE SubProc WITH pc <- subpc
Sig == INSTANCE Signals WITH sent <- signalsSent
Pip == INSTANCE Pipe

ASSUME ProgramAssumptions ==
    /\ Shm!SharedMemAssumption /\ Sem!SemAssumption /\ Map!MmapAssumption
    /\ Msg!MsgAssumption /\ Sub!SubProcAssumption /\ Sig!SignalsAssumption

Init ==
    /\ task \in {"Shm", "Sem", "Map", "Msg", "Sub", "Sig", "Pip"}
    /\ Shm!Init /\ Sem!Init /\ Map!Init /\ Msg!Init /\ Sub!Init /\ Sig!Init /\ Pip!Init
    (* What does not run has no circumstances to choose.                   *)
    /\ task # "Shm" => ~customerFirst /\ ~tornEnd
    /\ task # "Sem" => ~single /\ ~mayDie
    /\ task # "Sig" => ~dumps
    /\ task # "Pip" => ~mortal

-----------------------------------------------------------------------------
(* Program t runs, and nothing else changes.                               *)
Runs(t) ==
    /\ task = t /\ UNCHANGED task
    /\ IF t = "Shm" THEN TRUE ELSE UNCHANGED shmVars
    /\ IF t = "Sem" THEN TRUE ELSE UNCHANGED semVars
    /\ IF t = "Map" THEN TRUE ELSE UNCHANGED mapVars
    /\ IF t = "Msg" THEN TRUE ELSE UNCHANGED msgVars
    /\ IF t = "Sub" THEN TRUE ELSE UNCHANGED subVars
    /\ IF t = "Sig" THEN TRUE ELSE UNCHANGED sigVars
    /\ IF t = "Pip" THEN TRUE ELSE UNCHANGED pipVars

Next ==
    \/ Runs("Shm") /\ Shm!Next
    \/ Runs("Sem") /\ Sem!Next
    \/ Runs("Map") /\ Map!Next
    \/ Runs("Msg") /\ Msg!Next
    \/ Runs("Sub") /\ Sub!Next
    \/ Runs("Sig") /\ Sig!Next
    \/ Runs("Pip") /\ Pip!Next

Spec == Init /\ [][Next]_vars

(* The fairness of the program that runs: its processes are scheduled.     *)
FairSpec ==
    /\ Spec
    /\ WF_vars(Runs("Shm") /\ Shm!Producer)
    /\ WF_vars(Runs("Shm") /\ Shm!Customer)
    /\ \A n \in Instances : WF_vars(Runs("Sem") /\ Sem!Starts(n))
    /\ \A p \in Sem!Procs : WF_vars(Runs("Sem") /\ Sem!Works(p))
    /\ WF_vars(Runs("Map") /\ Map!Writer) /\ WF_vars(Runs("Map") /\ Map!Reader)
    /\ \A s \in Senders : WF_vars(Runs("Msg") /\ Msg!Send(s))
    /\ WF_vars(Runs("Msg") /\ Msg!Receive)
    /\ \A p \in Sub!Pids : WF_vars(Runs("Sub") /\ Sub!Step(p))
    /\ WF_vars(Runs("Sig") /\ Sig!Program) /\ WF_vars(Runs("Sig") /\ Sig!Again)
    /\ WF_vars(Runs("Pip") /\ Pip!Parent) /\ WF_vars(Runs("Pip") /\ Pip!Child)

-----------------------------------------------------------------------------
(* The type invariants of all programs.                                    *)
TypeOK ==
    /\ Shm!TypeOK /\ Sem!TypeOK /\ Map!TypeOK /\ Msg!TypeOK /\ Sub!TypeOK
    /\ Sig!TypeOK /\ Pip!TypeOK

(* Shared memory.  Lines are printed in the order they were typed, none    *)
(* twice and none half written, whenever the customer starts.  With the    *)
(* customer there first the flag is a rendezvous: no line is overwritten   *)
(* before it was printed, and when both processes have ended at most the   *)
(* line "end" is unprinted.                                                *)
LinesRendezvous == Shm!PrintedInOrder /\ Shm!OneInFlight /\ Shm!OnlyEndUnprinted

(* Semaphore.  No process sleeps on it while there is a unit to take,      *)
(* whoever was killed or set the value anew meanwhile; and the units in it *)
(* and in the hands of processes, dead or alive, are never more than the   *)
(* starts of the program.                                                  *)
UnitsKept == Sem!NoneSleepsInVain /\ Sem!UnitsBounded

(* Semaphore.  One instance at a time uses it as a lock, whose owner when  *)
(* killed keeps it until the program is started again.                     *)
LockSpec == Sem!LockSpec

(* Mapping.  Only a reader that opened the file between its creation and   *)
(* the base value is killed.                                               *)
KilledOnlyAtCreation == Map!KilledOnlyAtCreation

(* Message queue.  The lines of all senders come out in the order they     *)
(* were put in, over the end of a receiver and the start of another; what  *)
(* is lost was in the hands of a killed receiver, or behind a line "end"   *)
(* in a queue that was removed; and a line is refused only after another   *)
(* sender's "end".                                                         *)
LinesAccounted == Msg!InOrder /\ Msg!LossExplained /\ Msg!RefusedOnlyAfterEnd

(* Process tree and pipe.  Only the first process forks, one child per     *)
(* index, and it exits after all its children; and the parent that reads a *)
(* pipe takes its end for a dead child's only.                             *)
ChildrenHeard == Sub!NoGrandchildren /\ Sub!ParentLast /\ Pip!MessageOrDeath

(* Signals.  With the handlers in place a signal that kills the program    *)
(* has had its stack trace printed, unless malloc was interrupted.         *)
TracedBeforeDeath == Sig!TracedBeforeDeath

(* Producer and customer both end, if the customer is there first; if      *)
(* nobody is killed each process that uses the semaphore prints again and  *)
(* again; a reader of the mapping that got the file open ends, also if the *)
(* writer has failed; a sender and the receiver that share a message queue *)
(* never wait for each other for ever; the parent of the process tree      *)
(* exits, whatever forks succeed; a program that faults ends; and so do    *)
(* both sides of the pipe, whoever is killed.                              *)
ProgramsEnd ==
    /\ task = "Shm" => Shm!BothEnd
    /\ Sem!EachPrints
    /\ Map!ReaderEnds
    /\ Msg!SendersEnd
    /\ task = "Sub" => Sub!ParentExits
    /\ Sig!FaultEnds
    /\ task = "Pip" => Pip!BothLeave
=============================================================================
