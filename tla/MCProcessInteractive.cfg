SPECIFICATION FairSpec
CONSTANTS
    TypedLines = 5
    n1 = n1
    n2 = n2
    Instances <- MCInstances
    MaxStarts = 3
    MaxRuns = 4
    Senders = {1, 2}
\* A queue smaller than what the senders send, so that they wait for room.
    Capacity = 2
    MaxLines = 3
    MaxKills = 1
\* One pid more than the parent and its children need, so that a child that
\* forked would find room.
    SUB_PROC_NUM = 5
    MaxPid = 7
\* Two signals while a third is handled.
    MaxSignals = 3
INVARIANTS
    TypeOK
    LinesRendezvous
    UnitsKept
    KilledOnlyAtCreation
    LinesAccounted
    ChildrenHeard
    TracedBeforeDeath
PROPERTIES
    LockSpec
    ProgramsEnd
\* Every program may end.
CHECK_DEADLOCK FALSE
