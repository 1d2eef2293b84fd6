------------------------------ MODULE MsgQueue ------------------------------
(***************************************************************************)
(* msgqueue_send and msgqueue_recv of src/src/process_interactive.c: lines *)
(* typed at one or more senders go through a System V message queue to one *)
(* receiver.  The queue has a fixed key and outlives the processes; the    *)
(* receiver removes it when it has read a line "end".  The receiver may be *)
(* killed and started again.                                               *)
(*                                                                         *)
(* A queue is named by the number of its creation.  A line is [sender, no, *)
(* end, queue]: its sender's number for it, and the queue it was put in.   *)
(***************************************************************************)
EXTENDS Naturals, SequencesExt

CONSTANTS Senders,
          Capacity,      \* messages a queue has room for (msg_qbytes / MAX_TEXT)
          MaxLines,      \* bound: lines typed at a sender; the last is "end"
          MaxKills       \* bound: times the receiver is killed

MsgAssumption == Capacity \in Nat \ {0} /\ MaxLines \in Nat \ {0} /\ MaxKills \in Nat

VARIABLES
    current, created, msgs,   \* the queue there is (0: none), how many there were
    spc, smsgid, line,        \* per sender
    rpc, rmsgid, some_data,   \* the receiver
    sent, printed,            \* lines put in a queue and printed, in order
    kills

queue == <<current, created, msgs>>
sender == <<spc, smsgid, line>>
receiver == <<rpc, rmsgid, some_data>>
vars == <<queue, sender, receiver, sent, printed, kills>>

NoLine == [no |-> 0, end |-> FALSE]

Init ==
    /\ current = 0 /\ created = 0 /\ msgs = <<>>
    /\ spc = [s \in Senders |-> "get"] /\ smsgid = [s \in Senders |-> 0]
    /\ line = [s \in Senders |-> NoLine]
    /\ rpc = "get" /\ rmsgid = 0 /\ some_data = NoLine
    /\ sent = <<>> /\ printed = <<>> /\ kills = 0

-----------------------------------------------------------------------------
(* msgget with IPC_CREAT: the id is that of the queue there is, or a new.  *)
msgget == IF current = 0
          THEN current' = created + 1 /\ created' = created + 1 /\ msgs' = <<>>
          ELSE UNCHANGED queue

SenderGets(s) ==
    /\ spc[s] = "get" /\ spc' = [spc EXCEPT ![s] = "read"]
    /\ msgget /\ smsgid' = [smsgid EXCEPT ![s] = current']
    /\ UNCHANGED <<line, receiver, sent, printed, kills>>

SenderReads(s) ==
    /\ spc[s] = "read" /\ spc' = [spc EXCEPT ![s] = "send"]
    /\ \E end \in BOOLEAN :
          /\ line[s].no + 1 = MaxLines => end
          /\ line' = [line EXCEPT ![s] = [no |-> @.no + 1, end |-> end]]
    /\ UNCHANGED <<queue, smsgid, receiver, sent, printed, kills>>

Room == Len(msgs) < Capacity

AfterSendAlways(s) == "read"                                          \* a bug
AfterSend(s) == IF line[s].end THEN "done" ELSE "read"

(* msgsnd waits for room in the queue.                                     *)
SenderSends(s) ==
    /\ spc[s] = "send" /\ smsgid[s] = current /\ Room
    /\ LET message == [sender |-> s, no |-> line[s].no, end |-> line[s].end, queue |-> current]
       IN msgs' = Append(msgs, message) /\ sent' = Append(sent, message)
    /\ spc' = [spc EXCEPT ![s] = AfterSend(s)]
    /\ UNCHANGED <<current, created, smsgid, line, receiver, printed, kills>>

(* msgsnd fails, also while it waits, when the queue was removed.          *)
SenderFails(s) ==
    /\ spc[s] = "send" /\ smsgid[s] # current
    /\ spc' = [spc EXCEPT ![s] = "failed"]
    /\ UNCHANGED <<queue, smsgid, line, receiver, sent, printed, kills>>

-----------------------------------------------------------------------------
ReceiverGets ==
    /\ rpc = "get" /\ rpc' = "receive"
    /\ msgget /\ rmsgid' = current'
    /\ UNCHANGED <<sender, some_data, sent, printed, kills>>

TakenLast == Len(msgs)                                                \* a bug
Taken == 1

(* msgrcv with type 0 takes the first message, or waits for one.           *)
ReceiverReceives ==
    /\ rpc = "receive" /\ rmsgid = current /\ msgs # <<>>
    /\ rpc' = "print"
    /\ some_data' = msgs[Taken]
    /\ msgs' = RemoveAt(msgs, Taken)
    /\ UNCHANGED <<current, created, sender, rmsgid, sent, printed, kills>>

ReceiverPrints ==
    /\ rpc = "print"
    /\ printed' = Append(printed, some_data)
    /\ rpc' = IF some_data.end THEN "remove" ELSE "receive"
    /\ UNCHANGED <<queue, sender, rmsgid, some_data, sent, kills>>

KeptQueue == current                                                  \* a bug
NoQueue == 0

ReceiverRemoves ==
    /\ rpc = "remove" /\ rpc' = "done"
    /\ current' = NoQueue /\ msgs' = <<>>
    /\ UNCHANGED <<created, sender, rmsgid, some_data, sent, printed, kills>>

(* Killed, and started again.                                              *)
ReceiverIsKilled ==
    /\ rpc \in {"receive", "print", "remove"} /\ kills < MaxKills
    /\ kills' = kills + 1
    /\ rpc' = "get" /\ rmsgid' = 0 /\ some_data' = NoLine
    /\ UNCHANGED <<queue, sender, sent, printed>>

Send(s) == SenderGets(s) \/ SenderReads(s) \/ SenderSends(s) \/ SenderFails(s)
Receive == ReceiverGets \/ ReceiverReceives \/ ReceiverPrints \/ ReceiverRemoves

Next == (\E s \in Senders : Send(s)) \/ Receive \/ ReceiverIsKilled
Spec == Init /\ [][Next]_vars
(* Running processes; at each terminal somebody types "end" in the end.    *)
FairSpec == Spec /\ (\A s \in Senders : WF_vars(Send(s))) /\ WF_vars(Receive)

-----------------------------------------------------------------------------
(* Properties. *)

Messages == [sender : Senders, no : 1 .. MaxLines, end : BOOLEAN, queue : 1 .. created]

(* Each process is at one known point, and a queue is within its capacity. *)
TypeOK ==
    /\ created \in Nat /\ current \in {0, created}
    /\ msgs \in Seq(Messages) /\ Len(msgs) <= Capacity
    /\ spc \in [Senders -> {"get", "read", "send", "done", "failed"}]
    /\ smsgid \in [Senders -> 0 .. created]
    /\ line \in [Senders -> [no : 0 .. MaxLines, end : BOOLEAN]]
    /\ rpc \in {"get", "receive", "print", "remove", "done"}
    /\ rmsgid \in 0 .. created
    /\ some_data \in Messages \cup {NoLine}
    /\ sent \in Seq(Messages) /\ printed \in Seq(Messages)
    /\ kills \in 0 .. MaxKills

(* The lines of all senders come out in the order they were put in.        *)
InOrder ==
    \A i, j \in DOMAIN printed :
        i < j => \E m, n \in DOMAIN sent : m < n /\ sent[m] = printed[i] /\ sent[n] = printed[j]

(* What was sent and is neither printed nor on its way was in the hands of *)
(* a receiver when it was killed, one line each time, or was overtaken by  *)
(* the removal of its queue: it was sent behind a line "end".              *)
OnTheWay == ToSet(msgs) \cup (IF rpc = "print" THEN {some_data} ELSE {})
Lost == ToSet(sent) \ (ToSet(printed) \cup OnTheWay)
Behind(message) ==
    \E m, n \in DOMAIN sent : /\ m < n /\ sent[n] = message /\ sent[m].end
                              /\ sent[m].queue = message.queue
LossExplained ==
    \E crashed \in SUBSET Lost :
        Cardinality(crashed) <= kills /\ \A message \in Lost \ crashed : Behind(message)

(* A sender's line is refused only after another sender's line "end": with *)
(* one sender every line is accepted, whatever the receiver goes through.  *)
RefusedOnlyAfterEnd ==
    \A s \in Senders : spc[s] = "failed" =>
        \E n \in DOMAIN sent : sent[n].sender # s /\ sent[n].end

(* A sender and the receiver that share a queue never wait for each other  *)
(* for ever: the sender ends, though its last line may be refused.         *)
SendersEnd ==
    \A s \in Senders : rmsgid # 0 /\ smsgid[s] = rmsgid ~> spc[s] \in {"done", "failed"}
=============================================================================
