------------------------------ MODULE Logging -------------------------------
(***************************************************************************)
(* src/src/logging.c: programs that call main_log again and again, write   *)
(* their lines to one debug.log, and move it to debug_bak.log when it is   *)
(* long enough; they also call the file's other functions.                 *)
(*                                                                         *)
(* A file is known by its number, since a program writes to the file it    *)
(* has opened whatever its name is by then.  Lines have one length and are *)
(* numbered as they are written; sizes are in lines.                       *)
(***************************************************************************)
EXTENDS Integers, Sequences, FiniteSets

CONSTANTS
    Programs,
    Limit,       \* lines of 20 bytes that make 50 bytes: 3
    MaxLines,    \* bound: lines written
    MaxUnmoved,  \* bound: moves of a file that fail
    MaxOpen      \* descriptors a program may have open

LoggingAssumption ==
    /\ IsFiniteSet(Programs)
    /\ Limit \in Nat \ {0} /\ MaxLines \in Nat /\ MaxUnmoved \in Nat /\ MaxOpen \in Nat

VARIABLES
    log, bak,          \* debug.log and debug_bak.log: [file, lines, unmoved], file 0 if
                       \* there is none, unmoved the times it could not be moved
    files,             \* number of the newest file
    written,           \* lines written so far
    pc, fp,            \* main_log of each program: where it is, the file it has open
    descriptors,       \* its open descriptors
    leaked,            \* those that no variable of it refers to any more
    gLogF,             \* g_log_f is not NULL
    young, astray      \* a file was moved before it was long enough;
                       \* a line was written to a file that had been moved

disk == <<log, bak, files, written, young, astray>>
vars == <<disk, pc, fp, descriptors, leaked, gLogF>>

NoFile == [file |-> 0, lines |-> <<>>, unmoved |-> 0]

Init ==
    /\ log = NoFile /\ bak = NoFile /\ files = 0 /\ written = 0
    /\ pc = [p \in Programs |-> "idle"] /\ fp = [p \in Programs |-> 0]
    /\ descriptors = [p \in Programs |-> 0] /\ leaked = [p \in Programs |-> 0]
    /\ gLogF = [p \in Programs |-> FALSE]
    /\ young = FALSE /\ astray = FALSE

At(p, from, to) == pc[p] = from /\ pc' = [pc EXCEPT ![p] = to]
Descriptors(p, n) == descriptors' = [descriptors EXCEPT ![p] = @ + n]
MayOpen(p) == descriptors[p] < MaxOpen

-----------------------------------------------------------------------------
(* main_log                                                                *)

(* fopen with "a": the file of that name, or a new one.                    *)
OpensLog(p) ==
    /\ MayOpen(p) /\ Descriptors(p, 1)
    /\ IF log.file = 0 THEN files' = files + 1 /\ log' = [NoFile EXCEPT !.file = files']
                       ELSE UNCHANGED <<files, log>>
    /\ fp' = [fp EXCEPT ![p] = log'.file]

LongEnoughLate(lines) == Len(lines) > Limit                           \* a bug
LongEnough(lines) == Len(lines) >= Limit

Open(p) ==
    /\ written < MaxLines
    /\ OpensLog(p)
    /\ At(p, "idle", IF LongEnough(log'.lines) THEN "close" ELSE "write")
    /\ UNCHANGED <<bak, written, young, astray, leaked, gLogF>>

(* fopen fails, for want of a descriptor or anything else, the first time  *)
(* or the second: -1 is returned.                                          *)
Refused(p) ==
    /\ At(p, "idle", "idle") \/ At(p, "reopen", "idle")
    /\ fp' = [fp EXCEPT ![p] = 0]
    /\ UNCHANGED <<disk, descriptors, leaked, gLogF>>

StaysOpen(p) == At(p, "close", "move") /\ UNCHANGED <<disk, fp, descriptors, leaked, gLogF>>
                                                                      \* a bug
Close(p) ==
    /\ At(p, "close", "move")
    /\ Descriptors(p, -1)
    /\ UNCHANGED <<disk, fp, leaked, gLogF>>

(* The mv of whatever is called debug.log by now.  Nobody looks at its     *)
(* result: if it fails, the file keeps its name and its lines.             *)
Moved ==
    /\ log.file # 0
    /\ bak' = log /\ log' = NoFile /\ young' = (young \/ Len(log.lines) < Limit)
NotMoved ==
    /\ log.file # 0 /\ log.unmoved < MaxUnmoved
    /\ log' = [log EXCEPT !.unmoved = @ + 1] /\ UNCHANGED <<bak, young>>
NothingToMove == log.file = 0 /\ UNCHANGED <<log, bak, young>>

Move(p) ==
    /\ At(p, "move", "reopen")
    /\ Moved \/ NotMoved \/ NothingToMove
    /\ UNCHANGED <<files, written, astray, fp, descriptors, leaked, gLogF>>

(* The size is not looked at again.                                        *)
Reopen(p) ==
    /\ OpensLog(p)
    /\ At(p, "reopen", "write")
    /\ UNCHANGED <<bak, written, young, astray, leaked, gLogF>>

Append1(f, p) == IF f.file = fp[p] THEN [f EXCEPT !.lines = Append(@, written + 1)] ELSE f

(* fclose writes the line to the end of the file fp refers to.             *)
Write(p) ==
    /\ At(p, "write", "idle")
    /\ log' = Append1(log, p) /\ bak' = Append1(bak, p)
    /\ written' = written + 1
    /\ astray' = (astray \/ fp[p] # log.file)
    /\ fp' = [fp EXCEPT ![p] = 0]
    /\ Descriptors(p, -1)
    /\ UNCHANGED <<files, young, leaked, gLogF>>

main_log(p) == Open(p) \/ Refused(p) \/ Close(p) \/ Move(p) \/ Reopen(p) \/ Write(p)

-----------------------------------------------------------------------------
(* the other functions, called between two calls of main_log               *)

Calls(p) == pc[p] = "idle" /\ UNCHANGED <<disk, fp>>
Leaks(p) == leaked' = [leaked EXCEPT ![p] = @ + 1]

(* Opens a file, if it can, and forgets it.                                *)
debug_logging(p) ==
    /\ Calls(p) /\ MayOpen(p) /\ Descriptors(p, 1) /\ Leaks(p)
    /\ UNCHANGED <<pc, gLogF>>

(* A file that is open already is forgotten.  If fopen fails, g_log_f is   *)
(* NULL all the same.                                                      *)
log_file_init(p) ==
    /\ Calls(p)
    /\ \/ MayOpen(p) /\ Descriptors(p, 1) /\ gLogF' = [gLogF EXCEPT ![p] = TRUE]
       \/ UNCHANGED descriptors /\ gLogF' = [gLogF EXCEPT ![p] = FALSE]
    /\ IF gLogF[p] THEN Leaks(p) ELSE UNCHANGED leaked
    /\ UNCHANGED pc

(* fwrite on NULL ends the program.                                        *)
write_file(p) ==
    /\ Calls(p) /\ ~gLogF[p]
    /\ At(p, "idle", "crashed")
    /\ UNCHANGED <<descriptors, leaked, gLogF>>

log_file_close(p) ==
    /\ Calls(p) /\ gLogF[p]
    /\ gLogF' = [gLogF EXCEPT ![p] = FALSE]
    /\ Descriptors(p, -1)
    /\ UNCHANGED <<pc, leaked>>

Others(p) == debug_logging(p) \/ log_file_init(p) \/ write_file(p) \/ log_file_close(p)
Next == \E p \in Programs : main_log(p) \/ Others(p)

Spec == Init /\ [][Next]_vars

-----------------------------------------------------------------------------
(* Lines are numbered as they were written, and a name never refers to     *)
(* two files, nor two names to one.                                        *)
TypeOK ==
    /\ \A f \in {log, bak} :
          /\ f.file \in 0 .. files
          /\ \A j \in DOMAIN f.lines : f.lines[j] \in 1 .. written
          /\ f.unmoved \in 0 .. MaxUnmoved
    /\ log.file # 0 => log.file # bak.file
    /\ \A p \in Programs :
          /\ pc[p] \in {"idle", "close", "move", "reopen", "write", "crashed"}
          /\ fp[p] \in 0 .. files
    /\ written \in 0 .. MaxLines + Cardinality(Programs)

Recent == written - Limit + 1 .. written

(* However many programs write at a time, neither file grows more than a   *)
(* line per program, and one for each time it could not be moved, beyond   *)
(* the limit, although the size is looked at before the line is written,   *)
(* and not at all after a move.  As long as no file can be moved there is  *)
(* no bound: a line is appended to the long file at every call.            *)
LogBounded ==
    \A f \in {log, bak} : Len(f.lines) <= Limit - 1 + Cardinality(Programs) + f.unmoved

(* The last Limit lines are in one of the files, unless a second program   *)
(* that had also found the file long moved the new one in its turn, or a   *)
(* line went to a file that had been moved since it was opened.            *)
RecentKept ==
    ~young /\ ~astray =>
    \A n \in Recent \cap 1 .. written :
        \E f \in {log, bak} : \E j \in DOMAIN f.lines : f.lines[j] = n

(* main_log leaves no descriptor open, on any of its three ways out: what  *)
(* is lost are the descriptors of debug_logging and of a second            *)
(* log_file_init.                                                          *)
DescriptorsAccounted ==
    \A p \in Programs :
        descriptors[p] = leaked[p] + (IF gLogF[p] THEN 1 ELSE 0)
                         + (IF pc[p] \in {"close", "write"} THEN 1 ELSE 0)
=============================================================================
