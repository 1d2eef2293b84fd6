-------------------------------- MODULE Mmap --------------------------------
(***************************************************************************)
(* mmap_write and mmap_read of src/src/process_interactive.c: two          *)
(* processes that share a mapping of the file mmap_mem.txt.  Each may be   *)
(* run again; the file stays.                                              *)
(*                                                                         *)
(* What they tell each other is the flag written_by_you and, by being or   *)
(* not being 4 bytes long, the file: a mapping of an empty one is not to   *)
(* be touched.  The text that follows the flag is left out.                *)
(***************************************************************************)
EXTENDS Naturals

CONSTANT MaxRuns     \* bound: runs of either function

MmapAssumption == MaxRuns \in Nat

VARIABLES
    size,           \* of the file: "none" (no file), "empty", or "int"
    flag,           \* written_by_you
    wpc,            \* the writer
    rpc, sizeAtOpen,   \* the reader
    runs

file == <<size, flag>>
reader == <<rpc, sizeAtOpen>>
vars == <<file, wpc, reader, runs>>

Init ==
    /\ size = "none" /\ flag = 0
    /\ wpc = "off"
    /\ rpc = "off" /\ sizeAtOpen = "none"
    /\ runs = 0

-----------------------------------------------------------------------------
(* mmap_write                                                              *)

(* O_CREAT without O_TRUNC.                                                *)
OpenedTruncating == "empty"                                           \* a bug
Opened == IF size = "none" THEN "empty" ELSE size

WriterStarts ==
    /\ wpc \in {"off", "done", "killed"} /\ runs < MaxRuns
    /\ runs' = runs + 1
    /\ wpc' = "open"
    /\ UNCHANGED <<file, reader>>

WriterOpens ==
    /\ wpc = "open" /\ wpc' = "stat"
    /\ size' = Opened
    /\ UNCHANGED <<flag, reader, runs>>

(* open, fstat or mmap fails: the function returns.                        *)
WriterFails ==
    /\ wpc \in {"open", "stat", "map"} /\ wpc' = "done"
    /\ UNCHANGED <<file, reader, runs>>

BaseZero == 0                                                         \* a bug
Base == 1

(* The base value goes into an empty file; the result of write is ignored. *)
WriterStats ==
    /\ wpc = "stat" /\ wpc' = "map"
    /\ \/ size = "empty" /\ size' = "int" /\ flag' = Base
       \/ UNCHANGED <<size, flag>>
    /\ UNCHANGED <<reader, runs>>

(* The printf behind mmap reads the mapping: SIGBUS if the file is empty.  *)
WriterMaps ==
    /\ wpc = "map"
    /\ wpc' = IF size = "empty" THEN "killed" ELSE "flag"
    /\ UNCHANGED <<file, reader, runs>>

(* The flag, then the text, which nobody waits for; munmap.                *)
WriterFlags ==
    /\ wpc = "flag" /\ wpc' = "done"
    /\ flag' = 1
    /\ UNCHANGED <<size, reader, runs>>

-----------------------------------------------------------------------------
(* mmap_read                                                               *)

ReaderStarts ==
    /\ rpc \in {"off", "done", "killed"} /\ runs < MaxRuns
    /\ runs' = runs + 1
    /\ rpc' = "open" /\ sizeAtOpen' = "none"
    /\ UNCHANGED <<file, wpc>>

(* Without a file open fails; mmap succeeds even if the file is empty.     *)
ReaderOpens ==
    /\ rpc = "open"
    /\ rpc' = IF size = "none" THEN "done" ELSE "poll"
    /\ sizeAtOpen' = size
    /\ UNCHANGED <<file, wpc, runs>>

ReaderPolls ==
    /\ rpc = "poll"
    /\ \/ size = "empty" /\ rpc' = "killed"
       \/ size = "int" /\ flag = 1 /\ rpc' = "done"
    /\ UNCHANGED <<file, wpc, sizeAtOpen, runs>>

Writer == WriterOpens \/ WriterFails \/ WriterStats \/ WriterMaps \/ WriterFlags
Reader == ReaderOpens \/ ReaderPolls

Next == WriterStarts \/ Writer \/ ReaderStarts \/ Reader
Spec == Init /\ [][Next]_vars
(* Processes that were started run.                                        *)
FairSpec == Spec /\ WF_vars(Writer) /\ WF_vars(Reader)

-----------------------------------------------------------------------------
(* Properties. *)

(* Each process is at one known point.                                     *)
TypeOK ==
    /\ size \in {"none", "empty", "int"}
    /\ flag \in {0, 1}
    /\ wpc \in {"off", "open", "stat", "map", "flag", "done", "killed"}
    /\ rpc \in {"off", "open", "poll", "done", "killed"}
    /\ sizeAtOpen \in {"none", "empty", "int"}
    /\ runs \in 0 .. MaxRuns

(* SIGBUS hits only a reader that opened the file between its creation and *)
(* the base value: a file once written never gets empty under a reader,    *)
(* however often the writer is run.                                        *)
KilledOnlyAtCreation == rpc = "killed" => sizeAtOpen = "empty"

(* A reader that got the file open ends, even if the writer has failed.    *)
ReaderEnds == rpc = "poll" ~> rpc \in {"done", "killed"}
=============================================================================
