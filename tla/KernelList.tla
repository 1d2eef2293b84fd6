----------------------------- MODULE KernelList -----------------------------
(***************************************************************************)
(* struct list_head and its operations as src/include/kernel_list.h has    *)
(* them.  m is the memory: the next and prev of each node, head or entry.  *)
(* An operation is its assignments in their order, each in the memory the  *)
(* one before has left, since two of the pointers may be to one node.      *)
(*                                                                         *)
(* Nothing in the repository includes the header: the calls are those its  *)
(* comments allow, one after another.                                      *)
(***************************************************************************)
EXTENDS SequencesExt, FiniteSets

CONSTANTS Heads, Entries, POISON

KernelListAssumption == /\ Heads \cap Entries = {} /\ POISON \notin Heads \cup Entries
                        /\ IsFiniteSet(Entries)

Nodes == Heads \cup Entries

VARIABLES
    mem,
    stale,     \* heads whose entries are another list's now
    lists,     \* what is seen on the lists: the entries in order
    odd        \* of every second call: one that changes nothing is a step too

vars == <<mem, stale, lists, odd>>

Set(m, x, field, y) == [m EXCEPT ![x][field] = y]

(* x->next->prev = y and x->prev->next = y                                 *)
SetNextPrev(m, x, y) == Set(m, m[x].next, "prev", y)
SetPrevNext(m, x, y) == Set(m, m[x].prev, "next", y)

INIT_LIST_HEAD(m, list) == Set(Set(m, list, "next", list), list, "prev", list)

Init ==
    /\ mem = [x \in Nodes |-> [next |-> x, prev |-> x]]
    /\ stale = {} /\ lists = [h \in Heads |-> <<>>] /\ odd = FALSE

-----------------------------------------------------------------------------
(* the operations *)

insert(m, new, prev, next) ==                             \* __list_add
    Set(Set(Set(Set(m, next, "prev", new), new, "next", next), new, "prev", prev),
        prev, "next", new)
list_add(m, new, head) == insert(m, new, head, m[head].next)
list_add_tail(m, new, head) == insert(m, new, m[head].prev, head)

unlinkForward(m, entry) == SetPrevNext(m, entry, m[entry].next)       \* a bug
unlink(m, entry) ==                                       \* __list_del, __list_del_entry
    Set(Set(m, m[entry].next, "prev", m[entry].prev), m[entry].prev, "next", m[entry].next)
list_del(m, entry) == [unlink(m, entry) EXCEPT ![entry] = [next |-> POISON, prev |-> POISON]]
list_del_init(m, entry) == INIT_LIST_HEAD(unlink(m, entry), entry)

list_replace(m, old, new) ==
    LET m1 == Set(m, new, "next", m[old].next)
        m2 == SetNextPrev(m1, new, new)
        m3 == Set(m2, new, "prev", m2[old].prev)
    IN SetPrevNext(m3, new, new)
list_replace_init(m, old, new) == INIT_LIST_HEAD(list_replace(m, old, new), old)

list_swap_apart(m, entry1, entry2) ==                                 \* a bug
    list_add(list_replace(list_del(m, entry2), entry1, entry2), entry1, m[entry2].prev)
list_swap(m, entry1, entry2) ==
    LET where == IF m[entry2].prev = entry1 THEN entry2 ELSE m[entry2].prev
    IN list_add(list_replace(list_del(m, entry2), entry1, entry2), entry1, where)

list_move(m, list, head) == list_add(unlink(m, list), list, head)
list_move_tail(m, list, head) == list_add_tail(unlink(m, list), list, head)

list_bulk_move_tail(m, head, first, last) ==
    LET m1 == SetPrevNext(m, first, m[last].next)
        m2 == SetNextPrev(m1, last, m1[first].prev)
        m3 == SetPrevNext(m2, head, first)
        m4 == Set(m3, first, "prev", m3[head].prev)
    IN Set(Set(m4, last, "next", head), head, "prev", last)

list_empty(m, head) == m[head].next = head
list_is_singular(m, head) == ~list_empty(m, head) /\ m[head].next = m[head].prev

list_rotate_left(m, head) ==
    IF list_empty(m, head) THEN m ELSE list_move_tail(m, m[head].next, head)
list_rotate_to_front(m, list, head) == list_move_tail(m, head, list)

cut(m, list, head, entry) ==                              \* __list_cut_position
    LET m1 == Set(m, list, "next", m[head].next)
        m2 == Set(SetNextPrev(m1, list, list), list, "prev", entry)
        m3 == Set(Set(m2, entry, "next", list), head, "next", m[entry].next)
    IN Set(m3, m[entry].next, "prev", head)
list_cut_position(m, list, head, entry) ==
    IF \/ list_empty(m, head)
       \/ list_is_singular(m, head) /\ m[head].next # entry /\ head # entry
    THEN m
    ELSE IF entry = head THEN INIT_LIST_HEAD(m, list) ELSE cut(m, list, head, entry)

list_cut_before(m, list, head, entry) ==
    IF m[head].next = entry THEN INIT_LIST_HEAD(m, list)
    ELSE LET m1 == SetNextPrev(Set(m, list, "next", m[head].next), list, list)
             m2 == SetPrevNext(Set(m1, list, "prev", m1[entry].prev), list, list)
         IN Set(Set(m2, head, "next", entry), entry, "prev", head)

joined(m, list, prev, next) ==                            \* __list_splice
    LET first == m[list].next  last == m[list].prev
    IN Set(Set(Set(Set(m, first, "prev", prev), prev, "next", first), last, "next", next),
           next, "prev", last)
list_splice(m, list, head) ==
    IF list_empty(m, list) THEN m ELSE joined(m, list, head, m[head].next)
list_splice_tail(m, list, head) ==
    IF list_empty(m, list) THEN m ELSE joined(m, list, m[head].prev, head)
list_splice_init(m, list, head) ==
    IF list_empty(m, list) THEN m ELSE INIT_LIST_HEAD(list_splice(m, list, head), list)
list_splice_tail_init(m, list, head) ==
    IF list_empty(m, list) THEN m ELSE INIT_LIST_HEAD(list_splice_tail(m, list, head), list)

-----------------------------------------------------------------------------
(* next leads from h through the entries of s and back to h, and prev the  *)
(* other way round.                                                        *)
IsList(m, h, s) ==
    \A k \in 0 .. Len(s) :
        LET x == (<<h>> \o s)[k + 1]  y == (s \o <<h>>)[k + 1]
        IN m[x].next = y /\ m[y].prev = x

Arrangements ==
    UNION {{s \in [1 .. n -> Entries] : \A j, k \in 1 .. n : s[j] = s[k] => j = k} :
               n \in 0 .. Cardinality(Entries)}

(* The entries in order; <<POISON>> unless both ways round lead to them.   *)
Seen(m, h) == IF \E s \in Arrangements : IsList(m, h, s)
              THEN CHOOSE s \in Arrangements : IsList(m, h, s)
              ELSE <<POISON>>

Live == Heads \ stale
Linked == UNION {ToSet(lists[h]) : h \in Live}
Unlinked == Entries \ Linked
Places == Live \cup Linked
OnList(x, h) == x = h \/ Contains(lists[h], x)

(* An operation has left memory m, and heads st stale.                     *)
Leaves(m, st) ==
    /\ mem' = m /\ stale' = st /\ odd' = ~odd
    /\ lists' = [h \in Heads |-> IF h \in st THEN <<>> ELSE Seen(m, h)]
Calls(m) == Leaves(m, stale)

-----------------------------------------------------------------------------
(* An entry is added only if it is on no list, deleted if it is on one; an *)
(* entry that is initialised may be deleted and initialised again.         *)
Initialised(e) == mem[e].next = e /\ mem[e].prev = e

Add(e, x) == e \in Unlinked /\ x \in Places /\ Calls(list_add(mem, e, x))
AddTail(e, x) == e \in Unlinked /\ x \in Places /\ Calls(list_add_tail(mem, e, x))

Del(e) == e \in Linked /\ Calls(list_del(mem, e))
DelInit(e) ==
    /\ e \in Linked \/ (e \in Unlinked /\ Initialised(e))
    /\ Calls(list_del_init(mem, e))

Replace(e, f) == e \in Linked /\ f \in Unlinked /\ Calls(list_replace(mem, e, f))
ReplaceInit(e, f) == e \in Linked /\ f \in Unlinked /\ Calls(list_replace_init(mem, e, f))
Swap(e, f) == e \in Linked /\ f \in Linked \ {e} /\ Calls(list_swap(mem, e, f))

Move(e, x) == e \in Linked /\ x \in Places \ {e} /\ Calls(list_move(mem, e, x))
MoveTail(e, x) == e \in Linked /\ x \in Places \ {e} /\ Calls(list_move_tail(mem, e, x))

(* e and f are entries of h, and f is not before e.                        *)
BulkMoveTail(h, e, f) == h \in Live /\ \E j \in DOMAIN lists[h] : \E k \in j .. Len(lists[h]) :
    e = lists[h][j] /\ f = lists[h][k] /\ Calls(list_bulk_move_tail(mem, h, e, f))
RotateLeft(h) == h \in Live /\ Calls(list_rotate_left(mem, h))
RotateToFront(e, h) == h \in Live /\ Contains(lists[h], e) /\ Calls(list_rotate_to_front(mem, e, h))

(* l may have entries, or be stale: they are lost.  After a cut of nothing *)
(* off an empty list l is still what it was.                               *)
CanCut(l, h, x) == l \in Heads /\ h \in Live \ {l} /\ OnList(x, h)
CutPosition(l, h, x) ==
    /\ CanCut(l, h, x)
    /\ Leaves(list_cut_position(mem, l, h, x), IF list_empty(mem, h) THEN stale ELSE stale \ {l})
CutBefore(l, h, x) == CanCut(l, h, x) /\ Leaves(list_cut_before(mem, l, h, x), stale \ {l})

(* Without _init the head l is only read, and is stale unless it was empty.*)
CanSplice(l, x) == l \in Live /\ x \in Places /\ ~OnList(x, l)
left(l) == IF list_empty(mem, l) THEN stale ELSE stale \cup {l}
Splice(l, x) == CanSplice(l, x) /\ Leaves(list_splice(mem, l, x), left(l))
SpliceTail(l, x) == CanSplice(l, x) /\ Leaves(list_splice_tail(mem, l, x), left(l))
SpliceInit(l, x) == CanSplice(l, x) /\ Calls(list_splice_init(mem, l, x))
SpliceTailInit(l, x) == CanSplice(l, x) /\ Calls(list_splice_tail_init(mem, l, x))

InitHead(h) == Leaves(INIT_LIST_HEAD(mem, h), stale \ {h})
ReplaceHead(h, l) == h \in Live /\ l # h /\ Leaves(list_replace(mem, h, l), (stale \ {l}) \cup {h})
ReplaceHeadInit(h, l) == h \in Live /\ l # h /\ Leaves(list_replace_init(mem, h, l), stale \ {l})

Next ==
    \/ \E e \in Entries : Del(e) \/ DelInit(e)
    \/ \E e \in Entries, x \in Nodes : \/ Add(e, x) \/ AddTail(e, x)
                                       \/ Move(e, x) \/ MoveTail(e, x)
    \/ \E e, f \in Entries : Replace(e, f) \/ ReplaceInit(e, f) \/ Swap(e, f)
    \/ \E h \in Heads : InitHead(h) \/ RotateLeft(h)
    \/ \E h \in Heads, e \in Entries : \/ RotateToFront(e, h)
                                       \/ \E f \in Entries : BulkMoveTail(h, e, f)
    \/ \E l, h \in Heads : ReplaceHead(h, l) \/ ReplaceHeadInit(h, l)
    \/ \E l, h \in Heads, x \in Nodes : CutPosition(l, h, x) \/ CutBefore(l, h, x)
    \/ \E l \in Heads, x \in Nodes : \/ Splice(l, x) \/ SpliceInit(l, x)
                                     \/ SpliceTail(l, x) \/ SpliceTailInit(l, x)

Spec == Init /\ [][Next]_vars

-----------------------------------------------------------------------------
(* Pointers are to nodes, except those of a deleted entry.                 *)
TypeOK ==
    /\ \A x \in Nodes : {mem[x].next, mem[x].prev} \subseteq Nodes \cup {POISON}
    /\ \A x \in Places \cap Nodes : POISON \notin {mem[x].next, mem[x].prev}
    /\ stale \subseteq Heads

Promised == INSTANCE Lists

(* Each call does what its comment says to the entries and the place it is *)
(* told, and nothing else; after _init the old entry may be used again.    *)
EntriesAsPromised ==
    /\ \A e \in Entries : Del(e) \/ DelInit(e) => Promised!Delete(e)
    /\ \A e \in Entries, x \in Nodes :
          /\ Add(e, x) => Promised!Add(e, x)
          /\ AddTail(e, x) => Promised!AddTail(e, x)
          /\ Move(e, x) => Promised!Move(e, x)
          /\ MoveTail(e, x) => Promised!MoveTail(e, x)
    /\ \A e, f \in Entries :
          /\ Replace(e, f) \/ ReplaceInit(e, f) => Promised!Replace(e, f)
          /\ Swap(e, f) => Promised!Swap(e, f)
          /\ DelInit(e) \/ ReplaceInit(e, f) => Initialised(e)'

HeadsAsPromised ==
    /\ \A h \in Heads :
          /\ InitHead(h) => Promised!Empty(h)
          /\ RotateLeft(h) => Promised!RotateLeft(h)
          /\ \A e \in Entries : RotateToFront(e, h) => Promised!RotateToFront(e, h)
          /\ \A e, f \in Entries : BulkMoveTail(h, e, f) => Promised!BulkMoveTail(h, e, f)
    /\ \A l, h \in Heads :
          /\ ReplaceHead(h, l) \/ ReplaceHeadInit(h, l) => Promised!ReplaceHead(h, l)
          /\ \A x \in Nodes : CutPosition(l, h, x) => Promised!CutPosition(l, h, x)
          /\ \A x \in Nodes : CutBefore(l, h, x) => Promised!CutBefore(l, h, x)
    /\ \A l \in Heads, x \in Nodes :
          /\ Splice(l, x) \/ SpliceInit(l, x) => Promised!Splice(l, x)
          /\ SpliceTail(l, x) \/ SpliceTailInit(l, x) => Promised!SpliceTail(l, x)

(* As sequences the lists change by every call as its comment says: also   *)
(* if the nodes are next to each other or are one, if a list has one entry *)
(* or none, if a whole list is moved or a head is left stale; both ways    *)
(* round the ring there are the same entries, and no other list changes.   *)
ListsSpec == Promised!Spec /\ [][EntriesAsPromised /\ HeadsAsPromised]_vars
=============================================================================
