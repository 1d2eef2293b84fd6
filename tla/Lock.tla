-------------------------------- MODULE Lock --------------------------------
(***************************************************************************)
(* A lock: at most one process owns it, and it passes from one to another  *)
(* only when its owner lets it go.                                         *)
(***************************************************************************)
CONSTANT Procs

VARIABLE owners    \* the set of those who own it

Init == owners = {}

Acquire(p) == owners = {} /\ owners' = {p}
Release(p) == owners = {p} /\ owners' = {}
Handover(p, q) == owners = {p} /\ owners' = {q}

Next == \/ \E p \in Procs : Acquire(p) \/ Release(p)
        \/ \E p, q \in Procs : Handover(p, q)

Spec == Init /\ [][Next]_owners
=============================================================================
