----------------------------- MODULE HashTable ------------------------------
(***************************************************************************)
(* The chained hash table of src/src/c_STL.c.  A chain is the sequence of  *)
(* the nodes reached from hashNode[pos]; HashFun(key) % MAX_TABLE_SIZE is  *)
(* the constant pos.  Memory is not modelled, except that after            *)
(* clearHashTable the heads point to freed nodes: as in main_hash2, the    *)
(* table is not used again before InitHashTable.                           *)
(***************************************************************************)
EXTENDS Integers, SequencesExt

CONSTANTS
    Keys, Values, NoValue,
    MAX_TABLE_SIZE,
    pos,             \* the position of each key
    MaxNodes,        \* bound: nodes in a chain
    MaxIndex         \* bound: values of currentIndex

Positions == 0 .. MAX_TABLE_SIZE - 1

ASSUME TableAssumption == /\ pos \in [Keys -> Positions]
                          /\ NoValue \notin Values
                          /\ MaxNodes \in Nat /\ MaxIndex \in Nat

VARIABLES
    hashNode,        \* the chains, sequences of [key, value]
    currentIndex,
    cleared          \* clearHashTable was the last operation

vars == <<hashNode, currentIndex, cleared>>

EmptiedButFirst == hashNode' = [p \in Positions \ {0} |-> <<>>]         \* a bug
Emptied == hashNode' = [p \in Positions |-> <<>>]

Init == /\ hashNode = [p \in Positions |-> <<>>]
        /\ currentIndex = 0
        /\ cleared = FALSE

InitHashTable == Emptied /\ currentIndex' = 0 /\ cleared' = FALSE

clearHashTable == /\ ~cleared /\ cleared' = TRUE
                  /\ Emptied /\ UNCHANGED currentIndex

-----------------------------------------------------------------------------
chain(k) == hashNode[pos[k]]

(* The first node of the key, 0 if there is none.                          *)
indexOf(c, k) == LET at == {j \in DOMAIN c : c[j].key = k}
                 IN IF at = {} THEN 0 ELSE CHOOSE j \in at : \A n \in at : j <= n

Get(k) == LET j == indexOf(chain(k), k)
          IN IF j = 0 THEN NoValue ELSE chain(k)[j].value

(* The head is overwritten if it has the key; else, the new node becomes   *)
(* the second one, without a look at the others.                           *)
WithNodeLast(c, node) ==                                              \* a bug
    IF c # <<>> /\ c[1].key = node.key THEN ReplaceAt(c, 1, node)
                                       ELSE Append(c, node)
WithNode(c, node) ==
    CASE c = <<>>             -> <<node>>
      [] c # <<>> /\ c[1].key = node.key -> ReplaceAt(c, 1, node)
      [] OTHER                -> InsertAt(c, 2, node)

Insert(k, v) ==
    /\ ~cleared
    /\ Len(chain(k)) < MaxNodes /\ (chain(k) = <<>> => currentIndex < MaxIndex)
    /\ hashNode' = [hashNode EXCEPT ![pos[k]] = WithNode(@, [key |-> k, value |-> v])]
    /\ currentIndex' = IF chain(k) = <<>> THEN currentIndex + 1 ELSE currentIndex
    /\ UNCHANGED cleared

(* The head, or the first node behind it, with the key is unlinked.        *)
WithoutHead(c, k) == Tail(c)                                          \* a bug
WithoutNode(c, k) == RemoveAt(c, indexOf(c, k))

Dorp(k) ==
    /\ ~cleared
    /\ indexOf(chain(k), k) # 0
    /\ hashNode' = [hashNode EXCEPT ![pos[k]] = WithoutNode(@, k)]
    /\ UNCHANGED <<currentIndex, cleared>>

Next == \/ InitHashTable \/ clearHashTable
        \/ \E k \in Keys : Dorp(k) \/ \E v \in Values : Insert(k, v)

Spec == Init /\ [][Next]_vars

-----------------------------------------------------------------------------
(* Properties. *)

(* Nodes are well formed and every one of them is in the chain Get and     *)
(* Dorp look for its key in.                                               *)
TypeOK ==
    /\ DOMAIN hashNode = Positions
    /\ \A p \in Positions : \A j \in DOMAIN hashNode[p] :
          /\ hashNode[p][j] \in [key : Keys, value : Values]
          /\ pos[hashNode[p][j].key] = p
    /\ currentIndex \in 0 .. MaxIndex
    /\ cleared \in BOOLEAN

(* The values of the key in a chain, that of its first node first.         *)
valuesIn(c, k) ==
    LET from[j \in 1 .. Len(c) + 1] ==
            IF j = Len(c) + 1 THEN <<>>
            ELSE IF c[j].key = k THEN <<c[j].value>> \o from[j + 1] ELSE from[j + 1]
    IN from[1]
valuesOf(k) == valuesIn(chain(k), k)
Stacks == INSTANCE KeyStacks WITH stacks <- [k \in Keys |-> valuesOf(k)]

(* Key by key, the table is a stack of values: an insertion pushes to, or  *)
(* replaces the top of, the stack of its key, a removal pops that of its   *)
(* key, Get returns the top, the value inserted last, and no other key's   *)
(* stack changes, whatever chain they share.                               *)
StacksSpec ==
    /\ Stacks!Spec
    /\ [](\A k \in Keys : Get(k) = IF valuesOf(k) = <<>> THEN NoValue ELSE valuesOf(k)[1])
    /\ [][/\ InitHashTable \/ clearHashTable => Stacks!Clear
          /\ \A k \in Keys : Dorp(k) => Stacks!Pop(k)
          /\ \A k \in Keys, v \in Values :
                 Insert(k, v) => Stacks!Push(k, v) \/ Stacks!Replace(k, v)]_vars

(* c_STL.c:94: the value of a key that exists is overwritten, so that a    *)
(* key never has two nodes.                                                *)
KeysUnique ==
    \A p \in Positions : \A j, n \in DOMAIN hashNode[p] :
        hashNode[p][j].key = hashNode[p][n].key => j = n
=============================================================================
