------------------------------- MODULE SemPV --------------------------------
(***************************************************************************)
(* sem_PV_handler of src/src/process_interactive.c, with createSemSet,     *)
(* initSem, P and V: a parent and a child take turns to print a pair of    *)
(* letters each, under a System V semaphore.  The semaphore has a fixed    *)
(* key and is never removed, so it outlives the processes, and the program *)
(* may be started again while they run (in another terminal: an instance)  *)
(* or after they were killed.                                              *)
(*                                                                         *)
(* The kernel's semop is modelled as Linux does it: who finds the value at *)
(* 0 sleeps in a queue, and an increment serves the head of the queue      *)
(* before it returns.                                                      *)
(***************************************************************************)
EXTENDS Integers, FiniteSets, SequencesExt

CONSTANTS
    Instances,   \* how many of the program may run at a time, by name
    MaxStarts    \* bound: starts of the program

SemAssumption == IsFiniteSet(Instances) /\ MaxStarts \in Nat

Procs == Instances \X {"parent", "child"}

(* The first two say what happens in a behaviour, and never change.        *)
VARIABLES
    single,          \* one instance at a time: the next starts when all ended
    mayDie,          \* processes may be killed
    semval, queue,   \* the semaphore and the processes asleep on it
    ipc,             \* how far an instance has started
    pc,              \* what a process is doing
    starts           \* how often the program was started

circumstances == <<single, mayDie>>
vars == <<circumstances, semval, queue, ipc, pc, starts>>

holding == {p \in Procs : pc[p] \in {"first", "second", "diedholding"}}

Init ==
    /\ single \in BOOLEAN /\ mayDie \in BOOLEAN
    /\ semval = 0 /\ queue = <<>>
    /\ ipc = [n \in Instances |-> "new"]
    /\ pc = [p \in Procs |-> "off"]
    /\ starts = 0

-----------------------------------------------------------------------------
(* The kernel gives one more unit: to the process that has slept longest,  *)
(* which then returns from P, or to the semaphore (v: its value).          *)
GiveAsleep(v, pcs) ==                                                 \* a bug
    semval' = v + 1 /\ pc' = pcs /\ UNCHANGED queue
Give(v, pcs) ==
    IF queue = <<>>
    THEN semval' = v + 1 /\ pc' = pcs /\ UNCHANGED queue
    ELSE semval' = v /\ pc' = [pcs EXCEPT ![Head(queue)] = "first"]
         /\ queue' = Tail(queue)

(* createSemSet(1), initSem(semid, 0, 1): SETVAL sets the value to 1, who- *)
(* ever uses the semaphore already, and serves its queue.                  *)
initSem(n) ==
    /\ ipc[n] = "new" /\ ipc' = [ipc EXCEPT ![n] = "init"]
    /\ starts < MaxStarts /\ starts' = starts + 1
    /\ single => \A m \in Instances : ipc[m] = "new"
    /\ Give(0, pc)

Fork(n) ==
    /\ ipc[n] = "init"
    /\ \/ /\ ipc' = [ipc EXCEPT ![n] = "run"]
          /\ pc' = [p \in Procs |-> IF p[1] = n THEN "get" ELSE pc[p]]
       \/ /\ ipc' = [ipc EXCEPT ![n] = "failed"]
          /\ UNCHANGED pc
    /\ UNCHANGED <<semval, queue, starts>>

Available == semval > 0

(* P, whose result the callers ignore.                                     *)
PNoWait(p) ==                                             \* a bug: IPC_NOWAIT
    /\ pc[p] = "get"
    /\ pc' = [pc EXCEPT ![p] = "first"]
    /\ semval' = IF Available THEN semval - 1 ELSE semval
    /\ UNCHANGED <<queue, ipc, starts>>
P(p) ==
    /\ pc[p] = "get"
    /\ IF Available
       THEN /\ semval' = semval - 1
            /\ pc' = [pc EXCEPT ![p] = "first"]
            /\ UNCHANGED queue
       ELSE /\ queue' = Append(queue, p)
            /\ pc' = [pc EXCEPT ![p] = "sleep"]
            /\ UNCHANGED semval
    /\ UNCHANGED <<ipc, starts>>

(* The first letter is out, the second not yet.                            *)
PrintsLetter(p) ==
    /\ pc[p] = "first"
    /\ pc' = [pc EXCEPT ![p] = "second"]
    /\ UNCHANGED <<semval, queue, ipc, starts>>

VForgotten(p) ==                                                      \* a bug
    /\ pc[p] = "second"
    /\ pc' = [pc EXCEPT ![p] = "get"]
    /\ UNCHANGED <<semval, queue, ipc, starts>>
V(p) ==
    /\ pc[p] = "second"
    /\ Give(semval, [pc EXCEPT ![p] = "get"])
    /\ UNCHANGED <<ipc, starts>>

QueueWithout(p) ==
    IF pc[p] = "sleep" THEN RemoveAt(queue, CHOOSE j \in DOMAIN queue : queue[j] = p)
                       ELSE queue

(* A process is killed.  No SEM_UNDO: what it holds is not given back.     *)
Die(p) ==
    /\ mayDie /\ pc[p] \in {"get", "sleep", "first", "second"}
    /\ pc' = [pc EXCEPT ![p] = IF p \in holding THEN "diedholding" ELSE "died"]
    /\ queue' = QueueWithout(p)
    /\ UNCHANGED <<semval, ipc, starts>>

(* Once both processes of an instance are dead, or fork failed, its place  *)
(* can be taken by another run of the program.                             *)
Ended(n) ==
    /\ ipc[n] \in {"run", "failed"}
    /\ \A p \in Procs : p[1] = n => pc[p] \in {"off", "died", "diedholding"}
    /\ ipc' = [ipc EXCEPT ![n] = "new"]
    /\ pc' = [p \in Procs |-> IF p[1] = n THEN "off" ELSE pc[p]]
    /\ UNCHANGED <<semval, queue, starts>>

Starts(n) == (initSem(n) \/ Fork(n)) /\ UNCHANGED circumstances
Works(p) == (P(p) \/ PrintsLetter(p) \/ V(p)) /\ UNCHANGED circumstances
Ends == /\ (\E n \in Instances : Ended(n)) \/ (\E p \in Procs : Die(p))
        /\ UNCHANGED circumstances

Next == \/ \E n \in Instances : Starts(n)
        \/ \E p \in Procs : Works(p)
        \/ Ends

Spec == Init /\ [][Next]_vars
(* Every process that can run does.                                        *)
FairSpec == /\ Spec
            /\ \A n \in Instances : WF_vars(Starts(n))
            /\ \A p \in Procs : WF_vars(Works(p))

-----------------------------------------------------------------------------
(* Properties. *)

(* The queue holds exactly the sleeping processes, each once.              *)
TypeOK ==
    /\ semval \in Nat
    /\ queue \in Seq(Procs)
    /\ {queue[j] : j \in DOMAIN queue} = {p \in Procs : pc[p] = "sleep"}
    /\ \A j, k \in DOMAIN queue : queue[j] = queue[k] => j = k
    /\ ipc \in [Instances -> {"new", "init", "run", "failed"}]
    /\ pc \in [Procs -> {"off", "get", "sleep", "first", "second", "died", "diedholding"}]
    /\ starts \in 0 .. MaxStarts

(* No process sleeps while there is a unit to take.                        *)
NoneSleepsInVain == semval > 0 => queue = <<>>

(* The units in the semaphore and in the hands of processes, dead or       *)
(* alive, are never more than the starts of the program: each adds one at  *)
(* most, and nothing else does.                                            *)
UnitsBounded == semval + Cardinality(holding) <= starts

(* With a single instance at a time the semaphore is a lock; a process     *)
(* killed with it remains the owner until the program is started again.    *)
L == INSTANCE Lock WITH owners <- IF single THEN holding ELSE {}
LockSpec == L!Spec

(* If no one dies and fork succeeds, each process prints again and again.  *)
EachPrints ==
    \A n \in Instances :
        (~mayDie /\ ipc[n] = "run") ~> \A who \in {"parent", "child"} : []<>(pc[<<n, who>>] = "first")
=============================================================================
