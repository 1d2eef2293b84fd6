------------------------------ MODULE KeyStacks -----------------------------
(***************************************************************************)
(* What the hash table of c_STL.c does, seen key by key: each key has a    *)
(* stack of values.  An insertion pushes a value or replaces the top one,  *)
(* a removal pops one, and no operation touches another key.               *)
(***************************************************************************)
EXTENDS Sequences

CONSTANTS Keys, Values

VARIABLE stacks

Init == stacks = [k \in Keys |-> <<>>]

Push(k, v) == stacks' = [stacks EXCEPT ![k] = <<v>> \o @]
Replace(k, v) == /\ stacks[k] # <<>>
                 /\ stacks' = [stacks EXCEPT ![k] = <<v>> \o Tail(@)]
Pop(k) == /\ stacks[k] # <<>>
          /\ stacks' = [stacks EXCEPT ![k] = Tail(@)]
Clear == stacks' = [k \in Keys |-> <<>>]

Next == \/ \E k \in Keys, v \in Values : Push(k, v) \/ Replace(k, v)
        \/ \E k \in Keys : Pop(k)
        \/ Clear

Spec == Init /\ [][Next]_stacks
=============================================================================
