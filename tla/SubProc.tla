------------------------------ MODULE SubProc ------------------------------
(* The process tree of route_main: proc_register_init forks one process per *)
(* index, each runs the function its index selects, and proc_wait_handle    *)
(* collects them all before the parent exits.                               *)
(* s_subproclist is copied by fork and each process reads only the entry of *)
(* its own index, so the function a process runs follows from that index.   *)
EXTENDS Naturals, FiniteSets

CONSTANTS SUB_PROC_NUM, \* the indices 0 .. SUB_PROC_NUM - 1
          MaxPid        \* bound: processes the kernel grants at a time

SubProcAssumption == /\ SUB_PROC_NUM \in 1 .. 5
                     /\ MaxPid \in Nat \ {0}

Pids == 1 .. MaxPid
Parent == 1

VARIABLES pc,   \* "none": no such process; "zombie": dead and not reaped
          i,    \* each process's own loop index
          ppid  \* the process that forked it

vars == <<pc, i, ppid>>

Init == /\ pc = [p \in Pids |-> IF p = Parent THEN "loop" ELSE "none"]
        /\ i = [p \in Pids |-> 0]
        /\ ppid = [p \in Pids |-> 0]

-----------------------------------------------------------------------------
Free == {p \in Pids : pc[p] = "none"}

Children(p) == {c \in Pids : pc[c] # "none" /\ ppid[c] = p}

(* The condition of the for loop. *)
InLoop(n) == n < SUB_PROC_NUM

(* Where a child goes on: it breaks out of the loop with the index it got,  *)
(* then calls sub_proc_exec_func.                                           *)
ChildLoops(n) == [pc |-> "loop", i |-> n + 1]                        \* a bug
ChildStart(n) == [pc |-> "exec", i |-> n]

(* The cases of the switch that give the process timer_test to run; without *)
(* a function it sleeps for ever.                                           *)
HasFuncButLast(n) == n \in 0 .. 3                                    \* a bug
HasFunc(n) == n \in 0 .. 4

(* wait(NULL) answers -1 only when there is no child left, dead or alive.   *)
WaitFailsUnlessDead(p) == \A c \in Children(p) : pc[c] # "zombie"    \* a bug
WaitFails(p) == Children(p) = {}

-----------------------------------------------------------------------------
(* fork succeeds; which free pid the child gets makes no difference.        *)
Fork(p) ==
    /\ pc[p] = "loop" /\ InLoop(i[p])
    /\ Free # {}
    /\ LET c == CHOOSE q \in Free : \A r \in Free : q <= r
           start == ChildStart(i[p])
       IN /\ pc' = [pc EXCEPT ![c] = start.pc]
          /\ i' = [i EXCEPT ![c] = start.i, ![p] = @ + 1]
          /\ ppid' = [ppid EXCEPT ![c] = p]

(* fork fails: a message, and the loop goes on with the next index.         *)
ForkFails(p) ==
    /\ pc[p] = "loop" /\ InLoop(i[p])
    /\ i' = [i EXCEPT ![p] = @ + 1]
    /\ UNCHANGED <<pc, ppid>>

(* The loop ran to its end: this is the parent, on to proc_wait_handle.     *)
LoopEnds(p) ==
    /\ pc[p] = "loop" /\ ~InLoop(i[p])
    /\ pc' = [pc EXCEPT ![p] = "wait"]
    /\ UNCHANGED <<i, ppid>>

(* sub_proc_exec_func selects the function and calls it.                    *)
Exec(p) ==
    /\ pc[p] = "exec" /\ HasFunc(i[p])
    /\ pc' = [pc EXCEPT ![p] = "timer"]
    /\ UNCHANGED <<i, ppid>>

(* timer_test: the sleep is over, exit(0).                                  *)
TimerExits(p) ==
    /\ pc[p] = "timer"
    /\ pc' = [pc EXCEPT ![p] = "zombie"]
    /\ UNCHANGED <<i, ppid>>

(* One round of the wait loop collects one dead child, in any order.        *)
Reap(p) ==
    /\ pc[p] = "wait"
    /\ \E c \in Children(p) : /\ pc[c] = "zombie"
                              /\ pc' = [pc EXCEPT ![c] = "none"]
    /\ UNCHANGED <<i, ppid>>

(* The wait loop ends and the process exits; nobody here waits for it.      *)
WaitEnds(p) ==
    /\ pc[p] = "wait" /\ WaitFails(p)
    /\ pc' = [pc EXCEPT ![p] = "zombie"]
    /\ UNCHANGED <<i, ppid>>

Step(p) == \/ Fork(p) \/ ForkFails(p) \/ LoopEnds(p)
           \/ Exec(p) \/ TimerExits(p) \/ Reap(p) \/ WaitEnds(p)

Next == \E p \in Pids : Step(p)

Spec == Init /\ [][Next]_vars

(* The kernel runs every process, and a sleep ends. *)
FairSpec == Spec /\ \A p \in Pids : WF_vars(Step(p))

-----------------------------------------------------------------------------
(* Each process is at one known point of the code, with its index inside    *)
(* the loop's range.                                                        *)
TypeOK ==
    /\ pc \in [Pids -> {"none", "loop", "exec", "timer", "wait", "zombie"}]
    /\ i \in [Pids -> 0 .. SUB_PROC_NUM]
    /\ ppid \in [Pids -> 0 .. MaxPid]

(* Only the first process forks: its children number at most one per index, *)
(* none has the index of another, and none has children of its own, however *)
(* the children run while the loop still forks.                             *)
NoGrandchildren ==
    /\ \A p \in Pids : p # Parent => Children(p) = {}
    /\ \A c, d \in Children(Parent) : i[c] = i[d] => c = d

(* The parent exits only after every process it forked has ended and has    *)
(* been collected: no orphan is left behind.                                *)
ParentLast == pc[Parent] = "zombie" => \A p \in Pids \ {Parent} : pc[p] = "none"

(* Whatever forks succeed, the parent finally exits. *)
ParentExits == <>(pc[Parent] = "zombie")
=============================================================================
