------------------------------- MODULE Library -------------------------------
(***************************************************************************)
(* The repository's containers, which share nothing: the chained hash      *)
(* table of src/src/c_STL.c (HashTable) and the doubly linked lists of     *)
(* src/include/kernel_list.h (KernelList).  The variable container says    *)
(* which one is used.                                                      *)
(***************************************************************************)
EXTENDS HashTable

CONSTANTS Heads, Entries, POISON     \* as in KernelList

VARIABLES container, mem, stale, lists, odd

listVars == <<mem, stale, lists, odd>>
allVars == <<container, vars, listVars>>

List == INSTANCE KernelList

ASSUME LibraryAssumption == List!KernelListAssumption

LibraryInit == container \in {"table", "list"} /\ Init /\ List!Init

TableUsed == container = "table" /\ Next /\ UNCHANGED <<container, listVars>>
ListUsed == container = "list" /\ List!Next /\ UNCHANGED <<container, vars>>

LibrarySpec == LibraryInit /\ [][TableUsed \/ ListUsed]_allVars

-----------------------------------------------------------------------------
(* The types of both.                                                      *)
BothTyped == TypeOK /\ List!TypeOK

(* The lists change, as sequences of entries, by every call as its comment *)
(* in kernel_list.h says of the entries, the heads and the place it is     *)
(* told, although the assignments of one operation may be to one node.     *)
ListsSpec == List!ListsSpec
=============================================================================
