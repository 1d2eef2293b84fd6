-------------------------------- MODULE Pipe --------------------------------
(***************************************************************************)
(* channel of src/src/process_interactive.c: a parent reads what its child *)
(* writes to a pipe.  Either may be killed at any point.                   *)
(* The message has BUFFER_SIZE bytes, which the pipe takes in one piece.   *)
(***************************************************************************)
EXTENDS Integers

VARIABLES
    parent, child,   \* where they are
    ends,            \* descriptors of the pipe: <<process, "read" or "write">>
    message,         \* in the pipe
    got,             \* what the parent's read has returned: "message" or "end"
    mortal           \* someone may be killed

vars == <<parent, child, ends, message, got, mortal>>

Init ==
    /\ parent = "pipe" /\ child = "none"
    /\ ends = {} /\ message = FALSE /\ got = "nothing"
    /\ mortal \in BOOLEAN

Both(p) == {p} \X {"read", "write"}
Readers == {e \in ends : e[2] = "read"}
Writers == {e \in ends : e[2] = "write"}

-----------------------------------------------------------------------------
Pipe ==
    /\ parent = "pipe"
    /\ \/ parent' = "fork" /\ ends' = Both("parent")
       \/ parent' = "done" /\ UNCHANGED ends
    /\ UNCHANGED <<child, message, got, mortal>>

(* The child has what the parent had open.  If fork fails the function     *)
(* returns and leaves the pipe open.                                       *)
Fork ==
    /\ parent = "fork"
    /\ \/ parent' = "close" /\ child' = "close" /\ ends' = ends \cup Both("child")
       \/ parent' = "done" /\ UNCHANGED <<child, ends>>
    /\ UNCHANGED <<message, got, mortal>>

ParentKeepsBoth == {<<"parent", "read">>, <<"parent", "write">>}          \* a bug
ParentKeeps == {<<"parent", "read">>}
ParentCloseEnd ==
    /\ parent = "close" /\ parent' = "read"
    /\ ends' = (ends \ Both("parent")) \cup ParentKeeps
    /\ UNCHANGED <<child, message, got, mortal>>

(* read waits for the message or, if nobody can write any more, the end.   *)
ParentReads ==
    /\ parent = "read"
    /\ \/ message /\ got' = "message" /\ message' = FALSE
       \/ ~message /\ Writers = {} /\ got' = "end" /\ UNCHANGED message
    /\ parent' = "done"
    /\ UNCHANGED <<child, ends, mortal>>

ChildKeepsOther == {<<"child", "read">>}                             \* a bug
ChildKeeps == {<<"child", "write">>}
ChildCloseEnd ==
    /\ child = "close" /\ child' = "write"
    /\ ends' = (ends \ Both("child")) \cup ChildKeeps
    /\ UNCHANGED <<parent, message, got, mortal>>

(* If nobody can read any more SIGPIPE kills the child.                    *)
ChildWrites ==
    /\ child = "write"
    /\ IF Readers # {}
       THEN child' = "done" /\ message' = (<<"child", "write">> \in ends) /\ UNCHANGED ends
       ELSE child' = "killed" /\ ends' = ends \ Both("child") /\ UNCHANGED message
    /\ UNCHANGED <<parent, got, mortal>>

Dies ==
    /\ mortal /\ UNCHANGED <<message, got, mortal>>
    /\ \/ parent \in {"pipe", "fork", "close", "read"} /\ parent' = "killed"
          /\ ends' = ends \ Both("parent") /\ UNCHANGED child
       \/ child \in {"close", "write"} /\ child' = "killed"
          /\ ends' = ends \ Both("child") /\ UNCHANGED parent

Parent == Pipe \/ Fork \/ ParentCloseEnd \/ ParentReads
Child == ChildCloseEnd \/ ChildWrites
Next == Parent \/ Child \/ Dies

Spec == Init /\ [][Next]_vars
(* Both processes are scheduled.                                           *)
FairSpec == Spec /\ WF_vars(Parent) /\ WF_vars(Child)

-----------------------------------------------------------------------------
(* A process that has ended by being killed has nothing open.              *)
TypeOK ==
    /\ parent \in {"pipe", "fork", "close", "read", "done", "killed"}
    /\ child \in {"none", "close", "write", "done", "killed"}
    /\ ends \subseteq Both("parent") \cup Both("child")
    /\ parent = "killed" => ends \cap Both("parent") = {}
    /\ child = "killed" => ends \cap Both("child") = {}
    /\ message \in BOOLEAN /\ got \in {"nothing", "message", "end"} /\ mortal \in BOOLEAN

(* The parent gets the message unless a process is killed, and never takes *)
(* the end of the pipe for it while the child may still write.             *)
MessageOrDeath ==
    /\ got = "end" => child = "killed"
    /\ ~mortal => got # "end" /\ child # "killed"

(* The parent never waits for ever for a message that nobody will write:   *)
(* it has closed its own writing end.                                      *)
BothLeave == <>(parent \in {"done", "killed"} /\ child \in {"none", "done", "killed"})
=============================================================================
