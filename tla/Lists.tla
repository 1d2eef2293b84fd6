------------------------------- MODULE Lists --------------------------------
(***************************************************************************)
(* What the operations of src/include/kernel_list.h promise, on sequences: *)
(* lists of entries that share none.  A place is a head or an entry of a   *)
(* list.  An operation is told its entries, heads and places as there.     *)
(***************************************************************************)
EXTENDS Integers, Sequences

CONSTANTS Heads, Entries

VARIABLE lists     \* per head, its entries in order

Init == lists = [h \in Heads |-> <<>>]

Linked == UNION {{lists[h][j] : j \in DOMAIN lists[h]} : h \in Heads}
Places == Heads \cup Linked

(* The sequence s is put in list h of L, behind its first k entries.       *)
PutIn(L, h, k, s) == [L EXCEPT ![h] = SubSeq(@, 1, k) \o s \o SubSeq(@, k + 1, Len(@))]

(* s is put in behind, or before, place x of L: behind the head is the     *)
(* front, before it the end.                                               *)
PutBehind(L, x, s) == \E h \in Heads : \E k \in 0 .. Len(L[h]) :
    x = (<<h>> \o L[h])[k + 1] /\ lists' = PutIn(L, h, k, s)
PutBefore(L, x, s) == \E h \in Heads : \E k \in 0 .. Len(L[h]) :
    x = (L[h] \o <<h>>)[k + 1] /\ lists' = PutIn(L, h, k, s)

Without(h, j) == [lists EXCEPT ![h] = SubSeq(@, 1, j - 1) \o SubSeq(@, j + 1, Len(@))]
Emptied(h) == [lists EXCEPT ![h] = <<>>]
Renamed(r) == [h \in Heads |-> [j \in DOMAIN lists[h] |-> r[lists[h][j]]]]

(* List h from its entry j on, and then what is before that.               *)
RotatedTo(h, j) == [lists EXCEPT ![h] = SubSeq(@, j, Len(@)) \o SubSeq(@, 1, j - 1)]

(* The first n entries of list h are on list l, and l's own are lost.      *)
Split(l, h, n) == [lists EXCEPT ![l] = SubSeq(lists[h], 1, n),
                                ![h] = SubSeq(lists[h], n + 1, Len(lists[h]))]

-----------------------------------------------------------------------------
(* A new entry, behind or before a place; an entry that is on no list is   *)
(* deleted once more; another entry takes the place of one; two change     *)
(* places.                                                                 *)
Add(e, x) == e \in Entries \ Linked /\ PutBehind(lists, x, <<e>>)
AddTail(e, x) == e \in Entries \ Linked /\ PutBefore(lists, x, <<e>>)

Delete(e) ==
    \/ \E h \in Heads : \E j \in DOMAIN lists[h] : e = lists[h][j] /\ lists' = Without(h, j)
    \/ e \in Entries \ Linked /\ UNCHANGED lists

Replace(e, f) ==
    /\ e \in Linked /\ f \in Entries \ Linked
    /\ lists' = Renamed([x \in Linked |-> IF x = e THEN f ELSE x])

Swap(e, f) ==
    /\ {e, f} \subseteq Linked /\ e # f
    /\ lists' = Renamed([x \in Linked |-> CASE x = e -> f [] x = f -> e [] OTHER -> x])

(* An entry is taken off its list and put behind or before a place.        *)
Move(e, x) == \E h \in Heads : \E j \in DOMAIN lists[h] :
    e = lists[h][j] /\ PutBehind(Without(h, j), x, <<e>>)
MoveTail(e, x) == \E h \in Heads : \E j \in DOMAIN lists[h] :
    e = lists[h][j] /\ PutBefore(Without(h, j), x, <<e>>)

(* The entries of h from e to f go to its end.                             *)
BulkMoveTail(h, e, f) == \E j, k \in DOMAIN lists[h] :
    /\ j <= k /\ e = lists[h][j] /\ f = lists[h][k]
    /\ lists' = [lists EXCEPT ![h] = SubSeq(@, 1, j - 1) \o SubSeq(@, k + 1, Len(@)) \o SubSeq(@, j, k)]

(* The second entry, if there is one, or the entry e is the first.         *)
RotateLeft(h) ==
    IF lists[h] = <<>> THEN UNCHANGED lists ELSE lists' = RotatedTo(h, 2)
RotateToFront(e, h) == \E j \in DOMAIN lists[h] :
    e = lists[h][j] /\ lists' = RotatedTo(h, j)

(* The entries of h up to x, or to the one before x, go to l: with the     *)
(* head for x none of them, or all.  Of an empty list nothing is cut up to *)
(* a place, and l keeps what it has.                                       *)
CutPosition(l, h, x) == l # h /\ \E n \in 0 .. Len(lists[h]) :
    /\ x = (<<h>> \o lists[h])[n + 1]
    /\ lists' = IF lists[h] = <<>> THEN lists ELSE Split(l, h, n)
CutBefore(l, h, x) == l # h /\ \E n \in 0 .. Len(lists[h]) :
    x = (lists[h] \o <<h>>)[n + 1] /\ lists' = Split(l, h, n)

(* All entries of l go behind, or before, a place of another list.         *)
Splice(l, x) == x # l /\ PutBehind(Emptied(l), x, lists[l])
SpliceTail(l, x) == x # l /\ PutBefore(Emptied(l), x, lists[l])

Empty(h) == lists' = Emptied(h)
ReplaceHead(h, l) == h # l /\ lists' = Split(l, h, Len(lists[h]))

Next ==
    \/ \E e \in Entries : Delete(e)
    \/ \E e \in Entries, x \in Places : \/ Add(e, x) \/ AddTail(e, x)
                                        \/ Move(e, x) \/ MoveTail(e, x)
    \/ \E e, f \in Entries : Replace(e, f) \/ Swap(e, f)
    \/ \E h \in Heads : \/ Empty(h) \/ RotateLeft(h)
                        \/ \E e, f \in Entries : RotateToFront(e, h) \/ BulkMoveTail(h, e, f)
    \/ \E l, h \in Heads : \/ ReplaceHead(h, l)
                           \/ \E x \in Places : CutPosition(l, h, x) \/ CutBefore(l, h, x)
    \/ \E l \in Heads, x \in Places : Splice(l, x) \/ SpliceTail(l, x)

Spec == Init /\ [][Next]_lists
=============================================================================
