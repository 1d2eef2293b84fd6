----------------------------- MODULE SharedMem ------------------------------
(***************************************************************************)
(* producer and customer of src/src/process_interactive.c: two processes   *)
(* that pass lines through a shared memory segment, with the flag          *)
(* written_by_you as their only synchronisation.  An action is one access  *)
(* to the segment, with the private computation that follows it.           *)
(*                                                                         *)
(* Lines are numbered in the order they are typed; "end" is the last one.  *)
(***************************************************************************)
EXTENDS Integers, Sequences

CONSTANT MaxLines    \* bound: lines typed

SharedMemAssumption == MaxLines \in Nat \ {0}

(* The first two say what happens in a behaviour, and never change.        *)
VARIABLES
    customerFirst,   \* the customer attaches before the producer writes
    tornEnd,         \* the start of a line, half written over that of another
                     \* one, may read "end" though neither line does
    written_by_you, some_text,   \* the segment
    ppc, buffer,                 \* the producer and the line it has read
    cpc,                         \* the customer
    written, printed             \* lines flagged as written; lines printed

producerVars == <<ppc, buffer, written>>
customerVars == <<cpc, printed>>
circumstances == <<customerFirst, tornEnd>>
vars == <<written_by_you, some_text, producerVars, customerVars, circumstances>>

Lines == [no : 1 .. MaxLines, end : BOOLEAN]
NoLine == [no |-> 0, end |-> FALSE]

(* A new segment is zeroed.                                                *)
Init ==
    /\ customerFirst \in BOOLEAN /\ tornEnd \in BOOLEAN
    /\ written_by_you = 0 /\ some_text = NoLine
    /\ ppc = "wait" /\ buffer = NoLine
    /\ cpc = "attach"
    /\ written = <<>> /\ printed = <<>>

-----------------------------------------------------------------------------
(* producer                                                                *)

MayWriteAlways == TRUE                                                \* a bug
MayWrite == written_by_you # 1

(* The wait loop ends, and fgets returns a line.  The last one is "end".   *)
ProducerReads ==
    /\ ppc = "wait" /\ MayWrite
    /\ customerFirst => cpc # "attach"
    /\ \E end \in BOOLEAN :
          /\ buffer.no + 1 = MaxLines => end
          /\ buffer' = [no |-> buffer.no + 1, end |-> end]
    /\ ppc' = "copy"
    /\ UNCHANGED <<written_by_you, some_text, written, customerVars>>

(* strncpy, from its first byte to its last.                               *)
ProducerCopies ==
    /\ ppc = "copy" /\ ppc' = "copying"
    /\ UNCHANGED <<written_by_you, some_text, buffer, written, customerVars>>

ProducerCopied ==
    /\ ppc = "copying" /\ ppc' = "flag"
    /\ some_text' = buffer
    /\ UNCHANGED <<written_by_you, buffer, written, customerVars>>

ProducerFlags ==
    /\ ppc = "flag"
    /\ written_by_you' = 1
    /\ written' = Append(written, buffer)
    /\ ppc' = IF buffer.end THEN "done" ELSE "wait"
    /\ UNCHANGED <<some_text, buffer, customerVars>>

-----------------------------------------------------------------------------
(* customer                                                                *)

OneTaken == written_by_you - 1                                        \* a bug
Taken == 0

CustomerAttaches ==
    /\ cpc = "attach" /\ cpc' = "poll"
    /\ written_by_you' = Taken
    /\ UNCHANGED <<some_text, producerVars, printed>>

CustomerPrints ==
    /\ cpc = "poll" /\ written_by_you # 0
    /\ printed' = Append(printed, some_text)
    /\ cpc' = "clear"
    /\ UNCHANGED <<written_by_you, some_text, producerVars>>

(* After the sleep.                                                        *)
CustomerClears ==
    /\ cpc = "clear" /\ cpc' = "check"
    /\ written_by_you' = Taken
    /\ UNCHANGED <<some_text, producerVars, printed>>

(* strncmp(some_text, "end", 3), when the producer may already have        *)
(* written the next line, or be writing it.                                *)
SeesEnd ==
    IF ppc = "copying" /\ (tornEnd \/ some_text.end \/ buffer.end)
    THEN BOOLEAN
    ELSE {some_text.end}

CustomerChecks ==
    /\ cpc = "check"
    /\ \E end \in SeesEnd : cpc' = IF end THEN "done" ELSE "poll"
    /\ UNCHANGED <<written_by_you, some_text, producerVars, printed>>

Producer == /\ ProducerReads \/ ProducerCopies \/ ProducerCopied \/ ProducerFlags
            /\ UNCHANGED circumstances
Customer == /\ CustomerAttaches \/ CustomerPrints \/ CustomerClears \/ CustomerChecks
            /\ UNCHANGED circumstances

Next == Producer \/ Customer

Spec == Init /\ [][Next]_vars
(* Two running processes.                                                  *)
FairSpec == Spec /\ WF_vars(Producer) /\ WF_vars(Customer)

-----------------------------------------------------------------------------
(* Properties. *)

(* The flag has two values, and no more lines are printed than typed.      *)
TypeOK ==
    /\ written_by_you \in {0, 1}
    /\ some_text \in Lines \cup {NoLine} /\ buffer \in Lines \cup {NoLine}
    /\ ppc \in {"wait", "copy", "copying", "flag", "done"}
    /\ cpc \in {"attach", "poll", "clear", "check", "done"}
    /\ Len(written) <= MaxLines /\ Len(printed) <= MaxLines

(* Lines are printed in the order they were typed, none twice and none     *)
(* half written, whenever the customer starts.                             *)
PrintedInOrder ==
    /\ \A j \in DOMAIN printed : \E n \in DOMAIN written : printed[j] = written[n]
    /\ \A j \in 1 .. Len(printed) - 1 : printed[j].no < printed[j + 1].no

(* With the customer there first (and no torn "end") the producer is never *)
(* more than one line ahead: no line is overwritten before it was printed. *)
OneInFlight ==
    customerFirst /\ ~tornEnd =>
        /\ Len(written) - Len(printed) \in {0, 1}
        /\ \A j \in DOMAIN printed : printed[j] = written[j]

(* Then, when both have ended, only the line "end" may be unprinted (the   *)
(* customer may take it for the check of the line before).                 *)
OnlyEndUnprinted ==
    customerFirst /\ ~tornEnd /\ ppc = "done" /\ cpc = "done" =>
        \A n \in DOMAIN written : ~written[n].end => \E j \in DOMAIN printed : printed[j] = written[n]

(* Then, both processes end.                                               *)
BothEnd == customerFirst /\ ~tornEnd => <>(ppc = "done" /\ cpc = "done")
=============================================================================
