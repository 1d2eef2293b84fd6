------------------------------ MODULE ConfFile ------------------------------
(***************************************************************************)
(* update_conf of src/src/common.c: in the file udhcpd.conf it overwrites  *)
(* the addresses in the lines that begin with "start ", "end " and         *)
(* "opt router ", where they are.  An action is one turn of its loop;      *)
(* calls follow one another, as many of them as MaxCalls.                  *)
(*                                                                         *)
(* A file is a sequence of cells that take one place each.  The digits of  *)
(* netseg are what changes its length: a key with its blank is one cell,   *)
(* and so is what comes before netseg in an address ("net") and what comes *)
(* after it ("host").                                                      *)
(***************************************************************************)
EXTENDS Integers, SequencesExt

CONSTANTS
    Netsegs,       \* values of netseg, each the sequence of its digits
    MaxCalls       \* bound: calls

Digits == {"0", "1", "2", "3", "4", "5", "6", "7", "8", "9"}

ConfAssumption == MaxCalls \in Nat /\ \A s \in Netsegs : s \in Seq(Digits) /\ s # <<>>

VARIABLES
    file,
    at,           \* cells before the stream's position
    conf,         \* "idle", "loop" or "crashed"
    netseg,       \* of the last call, before the first one that in the file
    calls,
    room, widths  \* digits netseg had in the file; all numbers of digits since

vars == <<file, at, conf, netseg, calls, room, widths>>

Updated == {"start ", "end ", "opt router "}
val(s) == <<"net">> \o s \o <<"host">>

(* The lines of udhcpd.conf that matter, with netseg s.                    *)
Lines(s) == <<<<"start ">> \o val(s), <<"end ">> \o val(s), <<"option subnet">>,
              <<"opt router ">> \o val(s), <<"option lease">>>>
Terminated(lines) ==
    lines[1] \o <<"\n">> \o lines[2] \o <<"\n">> \o lines[3] \o <<"\n">>
        \o lines[4] \o <<"\n">> \o lines[5] \o <<"\n">>

Init ==
    /\ netseg \in Netsegs /\ room = Len(netseg) /\ widths = {room}
    /\ file = Terminated(Lines(netseg))
    /\ at = 0 /\ conf = "idle" /\ calls = 0

(* If the file cannot be opened the first fgets is one from NULL.          *)
Call ==
    /\ conf = "idle" /\ calls < MaxCalls
    /\ calls' = calls + 1 /\ at' = 0
    /\ \/ /\ conf' = "loop"
          /\ netseg' \in Netsegs /\ widths' = widths \cup {Len(netseg')}
       \/ conf' = "crashed" /\ UNCHANGED <<netseg, widths>>
    /\ UNCHANGED <<file, room>>

(* fgets after cell n reads up to the end of the line.                     *)
AfterLine(n) ==
    LET ends == {k \in n + 1 .. Len(file) : file[k] = "\n"}
    IN  IF ends = {} THEN Len(file) ELSE Min(ends)

Overwritten(n, s) ==
    [j \in 1 .. IF n + Len(s) > Len(file) THEN n + Len(s) ELSE Len(file) |->
        IF j \in n + 1 .. n + Len(s) THEN s[j - n] ELSE file[j]]

FromLine == at                                                        \* a bug
FromKey == at + 1

(* The three comparisons are of the line as it was read, so one of them    *)
(* at most succeeds.  Reading goes on where writing has stopped.           *)
update_conf ==
    /\ conf = "loop" /\ at < Len(file)
    /\ IF file[at + 1] \in Updated
       THEN file' = Overwritten(FromKey, val(netseg)) /\ at' = FromKey + Len(val(netseg))
       ELSE at' = AfterLine(at) /\ UNCHANGED file
    /\ UNCHANGED <<conf, netseg, calls, room, widths>>

Return ==
    /\ conf = "loop" /\ at = Len(file) /\ conf' = "idle"
    /\ UNCHANGED <<file, at, netseg, calls, room, widths>>

Next == Call \/ update_conf \/ Return
Spec == Init /\ [][Next]_vars
FairSpec == Spec /\ WF_vars(update_conf \/ Return)

-----------------------------------------------------------------------------
(* The position is within the file, which has the cells of lines.          *)
TypeOK ==
    /\ at \in 0 .. Len(file) /\ conf \in {"idle", "loop", "crashed"}
    /\ netseg \in Netsegs /\ calls \in 0 .. MaxCalls
    /\ ToSet(file) \subseteq Updated \cup {"option subnet", "option lease", "net", "host", "\n"}
                             \cup Digits

(* The cells before each line; the last is what comes before a sixth one.  *)
start == LET before[j \in 1 .. 6] == IF j = 1 THEN 0 ELSE AfterLine(before[j - 1])
         IN  before

(* Line j begins with l and is terminated.                                 *)
LineBegins(j, l) ==
    /\ start[j] + Len(l) < start[j + 1] /\ file[start[j + 1]] = "\n"
    /\ \A k \in 1 .. Len(l) : file[start[j] + k] = l[k]

(* As long as netseg has as many digits as in the file, the file after a   *)
(* call is the one it should be.  If it has fewer, cells of the old        *)
(* address stay behind the new one, where the next call finds room again,  *)
(* but no key and no other line is touched.  (If it has more, the end of   *)
(* the line is overwritten, and with two more the key of the next line.)   *)
ConfIntact ==
    conf = "idle" =>
        /\ Cardinality(widths) = 1 => file = Terminated(Lines(netseg))
        /\ (\A w \in widths : w <= room) =>
              /\ start[6] = Len(file)
              /\ \A j \in 1 .. 5 : LineBegins(j, Lines(netseg)[j])
              /\ \A j \in {3, 5} : start[j + 1] = start[j] + 2

(* Every call returns, also if it writes behind the end of the file.       *)
ConfReturns == conf = "loop" ~> conf = "idle"
=============================================================================
