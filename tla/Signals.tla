------------------------------ MODULE Signals -------------------------------
(***************************************************************************)
(* main_dump and dump_backtrace of src/src/common.c, and sig_handler of    *)
(* src/src/process_interactive.c: a program installs handlers, and is hit  *)
(* by its own faults and by signals other processes send.                  *)
(*                                                                         *)
(* signal is that of glibc: a signal is blocked while its handler runs,    *)
(* others are not; a fault comes again when its handler returns to the     *)
(* instruction, and so does SIGABRT, which abort raises a second time.     *)
(* malloc called by a handler that has interrupted malloc is undefined.    *)
(***************************************************************************)
EXTENDS Integers, Sequences

CONSTANT MaxSignals     \* bound: signals sent by other processes

SignalsAssumption == MaxSignals \in Nat

Faults == {"SEGV", "FPE"}
Sigs == Faults \cup {"ABRT", "INT"}

VARIABLES
    dumps,        \* the program is main_dump's, not sig_handler's
    installed,    \* calls of signal it has made
    handler,      \* per signal, "default" or "own"
    inMalloc,     \* its own code is within malloc
    faulting,     \* the signal its current instruction raises, or "none"
    frames,       \* the handlers that run, the last one first: [sig, step]
    pending,      \* signals that wait for their handler to return
    traced,       \* signals whose stack trace was printed
    fate, killer, \* "alive", "killed" by killer, "exited" or "stuck"
    undefined,    \* malloc was interrupted by malloc
    sent

program == <<dumps, installed, inMalloc>>
vars == <<program, handler, faulting, frames, pending, traced, fate, killer, undefined, sent>>

RegisteredButLast == IF dumps THEN <<"SEGV", "ABRT">> ELSE <<"INT">>  \* a bug
Registered == IF dumps THEN <<"SEGV", "ABRT", "FPE">> ELSE <<"INT">>

Init ==
    /\ dumps \in BOOLEAN
    /\ installed = 0 /\ handler = [s \in Sigs |-> "default"]
    /\ inMalloc = FALSE /\ faulting = "none"
    /\ frames = <<>> /\ pending = {} /\ traced = {}
    /\ fate = "alive" /\ killer = "none" /\ undefined = FALSE
    /\ sent = 0

-----------------------------------------------------------------------------
Blocked == {frames[j].sig : j \in DOMAIN frames}
Resumes == fate = "alive" /\ pending \subseteq Blocked     \* what was interrupted goes on

Killed(s) == fate' = "killed" /\ killer' = s

(* Signal s comes while the handlers fs are running; a fault that is       *)
(* blocked kills.                                                          *)
Comes(s, fs) ==
    IF handler[s] = "default" THEN Killed(s) /\ frames' = fs
    ELSE frames' = <<[sig |-> s, step |-> "enter"]>> \o fs /\ UNCHANGED <<fate, killer>>

(* the program's own code *)

Install ==
    /\ Resumes /\ frames = <<>> /\ installed < Len(Registered)
    /\ installed' = installed + 1
    /\ handler' = [handler EXCEPT ![Registered[installed']] = "own"]
    /\ UNCHANGED <<dumps, inMalloc, faulting, frames, pending, traced, fate, killer, undefined, sent>>

Mallocs ==
    /\ Resumes /\ frames = <<>> /\ dumps /\ installed = Len(Registered) /\ faulting = "none"
    /\ inMalloc' = ~inMalloc
    /\ UNCHANGED <<dumps, installed, handler, faulting, frames, pending, traced, fate, killer,
                   undefined, sent>>

(* A fault, within malloc or not, or an abort: for the first time, or      *)
(* again.  abort itself takes the handler away before the second time.     *)
Fault(s) ==
    /\ Resumes /\ frames = <<>> /\ dumps /\ installed = Len(Registered)
    /\ faulting \in {"none", s} /\ faulting' = s
    /\ IF faulting = "ABRT" THEN Killed(s) /\ UNCHANGED frames ELSE Comes(s, frames)
    /\ UNCHANGED <<program, handler, pending, traced, undefined, sent>>

-----------------------------------------------------------------------------
(* the handlers *)

Returns == frames' = Tail(frames)

DefaultKept(s) == UNCHANGED handler                                   \* a bug
DefaultRestored(s) == handler' = [handler EXCEPT ![s] = "default"]

sig_alarm ==
    /\ Resumes /\ frames # <<>> /\ frames[1].sig = "INT" /\ Returns
    /\ UNCHANGED <<program, handler, faulting, pending, traced, fate, killer, undefined, sent>>

dump_backtrace ==
    /\ Resumes /\ frames # <<>> /\ frames[1].sig # "INT" /\ frames[1].step = "enter"
    /\ DefaultRestored(frames[1].sig)
    /\ frames' = [frames EXCEPT ![1].step = "backtrace"]
    /\ UNCHANGED <<program, faulting, pending, traced, fate, killer, undefined, sent>>

Interrupted == inMalloc \/ \E j \in 2 .. Len(frames) : frames[j].step = "malloc"

(* backtrace_symbols calls malloc.                                         *)
EntersMalloc ==
    /\ Resumes /\ frames # <<>> /\ frames[1].step = "backtrace"
    /\ \/ frames' = [frames EXCEPT ![1].step = "malloc"] /\ UNCHANGED <<fate, killer>>
       \/ Interrupted /\ fate' = "stuck" /\ UNCHANGED <<frames, killer>>
       \/ Interrupted /\ Killed("SEGV") /\ UNCHANGED frames
    /\ undefined' = (undefined \/ Interrupted)
    /\ UNCHANGED <<program, handler, faulting, pending, traced, sent>>

(* It returns the strings, which are printed and freed, or NULL.           *)
myfunc3 ==
    /\ Resumes /\ frames # <<>> /\ frames[1].step = "malloc"
    /\ \/ traced' = traced \cup {frames[1].sig} /\ Returns /\ UNCHANGED fate
       \/ fate' = "exited" /\ UNCHANGED <<frames, traced>>
    /\ UNCHANGED <<program, handler, faulting, pending, killer, undefined, sent>>

-----------------------------------------------------------------------------
(* other processes *)

Send(s) ==
    /\ fate = "alive" /\ sent < MaxSignals /\ sent' = sent + 1
    /\ IF s \in Blocked THEN pending' = pending \cup {s} /\ UNCHANGED <<fate, killer, frames>>
                        ELSE Comes(s, frames) /\ UNCHANGED pending
    /\ UNCHANGED <<program, handler, faulting, traced, undefined>>

Delivered ==
    /\ fate = "alive"
    /\ \E s \in pending \ Blocked : Comes(s, frames) /\ pending' = pending \ {s}
    /\ UNCHANGED <<program, handler, faulting, traced, undefined, sent>>

Sent == IF dumps THEN {"SEGV", "ABRT", "FPE"} ELSE {"INT"}
Program == Install \/ sig_alarm \/ dump_backtrace \/ EntersMalloc \/ myfunc3 \/ Delivered
Again == faulting # "none" /\ Fault(faulting)
Next == \/ Program \/ Mallocs
        \/ \E s \in Faults \cup {"ABRT"} : Fault(s)
        \/ \E s \in Sent : Send(s)

Spec == Init /\ [][Next]_vars
(* The program is scheduled, and an instruction that faults is run again.  *)
FairSpec == Spec /\ WF_vars(Program) /\ WF_vars(Again)

-----------------------------------------------------------------------------
(* Handlers are of different signals, and only a killed program has a      *)
(* signal that killed it.                                                  *)
TypeOK ==
    /\ installed \in 0 .. Len(Registered)
    /\ handler \in [Sigs -> {"default", "own"}]
    /\ faulting \in Sigs \cup {"none"}
    /\ \A j, k \in DOMAIN frames : frames[j].sig = frames[k].sig => j = k
    /\ pending \subseteq Sigs /\ traced \subseteq Sigs
    /\ fate \in {"alive", "killed", "exited", "stuck"} /\ (killer # "none" <=> fate = "killed")
    /\ sent \in 0 .. MaxSignals

(* Once the handlers are in place a signal that kills main_dump's program  *)
(* has had its stack trace printed, even if a second one comes while the   *)
(* first is handled or the handler interrupts another, unless malloc was   *)
(* interrupted; and no SIGINT kills sig_handler's.                         *)
TracedBeforeDeath ==
    fate = "killed" /\ installed = Len(Registered) /\ ~undefined => dumps /\ killer \in traced

(* A program that faults ends: the handler does not return to the fault    *)
(* for ever.  (It may hang within malloc.)                                 *)
FaultEnds == faulting # "none" ~> fate # "alive"
=============================================================================
