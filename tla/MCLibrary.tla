----------------------------- MODULE MCLibrary ------------------------------
(* Three keys that collide and one that does not; two lists.  The entries, *)
(* and the heads, are alike.                                               *)
EXTENDS Library

CONSTANTS a, b, c, d, h1, h2, e1, e2, e3
MCKeys == {a, b, c, d}
MCpos == [k \in MCKeys |-> IF k = d THEN 1 ELSE 0]
MCHeads == {h1, h2}
MCEntries == {e1, e2, e3}
MCAlike == Permutations(MCHeads) \cup Permutations(MCEntries)
=============================================================================
