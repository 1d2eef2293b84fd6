-------------------------------- MODULE Files --------------------------------
(***************************************************************************)
(* The parts of the program that keep a file:                              *)
(*   Col    thread_collect and collect of collectData.c (Collect)          *)
(*   Log    main_log and the other functions of logging.c (Logging)        *)
(*   Cnf    update_conf of common.c (ConfFile)                             *)
(* Nothing in the repository calls them, and they share nothing.  The      *)
(* variable task says which one runs.                                      *)
(***************************************************************************)
EXTENDS Integers, Sequences, FiniteSets

CONSTANTS
    N, WIDTH, DataBlocks,                                \* Col
    Programs, Limit, MaxLines, MaxUnmoved, MaxOpen,      \* Log
    Netsegs, MaxCalls                                    \* Cnf

VARIABLES
    task,
    count, len, copied, tpc, tload, mpc, mload, logged, wrapped,
    log, bak, files, written, pc, fp, descriptors, leaked, gLogF, young, astray,
    file, at, conf, netseg, calls, room, widths

colVars == <<count, len, copied, tpc, tload, mpc, mload, logged, wrapped>>
logVars == <<log, bak, files, written, pc, fp, descriptors, leaked, gLogF, young, astray>>
cnfVars == <<file, at, conf, netseg, calls, room, widths>>
vars == <<task, colVars, logVars, cnfVars>>

Col == INSTANCE Collect
Log == INSTANCE Logging
Cnf == INSTANCE ConfFile

ASSUME FilesAssumptions ==
    Col!CollectAssumption /\ Log!LoggingAssumption /\ Cnf!ConfAssumption

Init ==
    /\ task \in {"Col", "Log", "Cnf"}
    /\ Col!Init /\ Log!Init /\ Cnf!Init
    (* What does not run has no file to choose.                            *)
    /\ task # "Cnf" => netseg = CHOOSE s \in Netsegs : TRUE

(* Task t runs, and nothing else changes.                                  *)
Runs(t) ==
    /\ task = t /\ UNCHANGED task
    /\ IF t = "Col" THEN TRUE ELSE UNCHANGED colVars
    /\ IF t = "Log" THEN TRUE ELSE UNCHANGED logVars
    /\ IF t = "Cnf" THEN TRUE ELSE UNCHANGED cnfVars

Next ==
    \/ Runs("Col") /\ Col!Next
    \/ Runs("Log") /\ Log!Next
    \/ Runs("Cnf") /\ Cnf!Next

Spec == Init /\ [][Next]_vars

(* Both threads of collect are scheduled, and a call of update_conf runs   *)
(* on.                                                                     *)
FairSpec ==
    /\ Spec
    /\ WF_vars(Runs("Col") /\ Col!Runs /\ Col!Thread)
    /\ WF_vars(Runs("Col") /\ Col!Runs /\ Col!Main)
    /\ WF_vars(Runs("Cnf") /\ (Cnf!update_conf \/ Cnf!Return))

-----------------------------------------------------------------------------
(* The type invariants of those that run.                                  *)
TypeOK == Col!TypeOK /\ Log!TypeOK /\ (task = "Cnf" => Cnf!TypeOK)

(* Collection.  Although nothing synchronises its two threads, no block is *)
(* written to the file before it is filled; and as long as no decrement of *)
(* the counter finds it at 0, the blocks fit in the buffer.                *)
CollectSafe == Col!LoggedWasCopied /\ Col!BlocksBounded

(* Log.  However many programs write to it, neither file grows beyond the  *)
(* limit by more than a line of each and one for each mv of it that fails; *)
(* the last lines are kept, unless one program moves what another has only *)
(* begun or holds open; and main_log leaves no descriptor open, whichever  *)
(* fopen fails.                                                            *)
LogKept == Log!LogBounded /\ Log!RecentKept /\ Log!DescriptorsAccounted

(* Configuration.  The file is what it should be after a call, as long as  *)
(* the number written has as many digits as the one before; with fewer, no *)
(* key and no other line is touched.                                       *)
ConfIntact == task = "Cnf" => Cnf!ConfIntact

(* The thread's loop in collect ends unless the counter is decremented     *)
(* below 0 (the main thread may spin on a counter of 0 all the same); and  *)
(* every call of update_conf ends, also if it writes behind the end of the *)
(* file.                                                                   *)
FilesEnd == (task = "Col" => Col!CollectEnds) /\ Cnf!ConfReturns
=============================================================================
