--------------------------------- MODULE Sll ---------------------------------
(***************************************************************************)
(* The singly linked lists of src/common/sllLib.c.  A node carries its own *)
(* next pointer, so that a node can be in one list at a time; a list head  *)
(* keeps the first and the last node.  A node taken off a list keeps the   *)
(* next pointer it had, and a list emptied at the head keeps no tail.      *)
(*                                                                         *)
(* Clients put only nodes that are in no list and remove only nodes that   *)
(* are in the list they name, as the library expects; hashLib.c removes    *)
(* through sllPrevious.                                                    *)
(***************************************************************************)
EXTENDS Naturals, Sequences, FiniteSets

CONSTANTS
    Lists,      \* the list heads: the buckets of a hash table
    Nodes,      \* the nodes that may be linked
    NULL

ASSUME SllAssumption == NULL \notin Nodes /\ IsFiniteSet(Nodes)

VARIABLES
    head,       \* pList->head of each list
    tail,       \* pList->tail of each list
    next,       \* pNode->next of each node
    got         \* what the last sllGet returned

links == <<head, tail, next>>
sllVars == <<head, tail, next, got>>

Pointer == Nodes \union {NULL}

(***************************************************************************)
(* Following the next pointers from the head of l.  A list that ends does  *)
(* so within as many steps as there are nodes.                             *)
(***************************************************************************)
MaxWalk == Cardinality(Nodes)

Walk(l) ==
    LET at[k \in 0 .. MaxWalk] ==
            IF k = 0 THEN head[l]
            ELSE LET p == at[k - 1] IN IF p = NULL THEN NULL ELSE next[p]
    IN at

Ends(l) == Walk(l)[MaxWalk] = NULL

\* The nodes met, in order.
Chain(l) ==
    LET at == Walk(l)
        len == Cardinality({k \in 0 .. MaxWalk : at[k] # NULL})
    IN [k \in 1 .. len |-> at[k - 1]]

On(l) == {Chain(l)[k] : k \in DOMAIN Chain(l)}

------------------------------------------------------------------------------
SllInit(l) ==
    /\ head' = [head EXCEPT ![l] = NULL]
    /\ tail' = [tail EXCEPT ![l] = NULL]
    /\ UNCHANGED next

\* Mutants: the node is linked to the list head itself; the tail is
\* forgotten.
SllPutAtHeadSelf(l, n) ==
    /\ next' = [next EXCEPT ![n] = l]
    /\ head' = [head EXCEPT ![l] = n]
    /\ tail' = IF head[l] = NULL THEN [tail EXCEPT ![l] = n] ELSE tail

SllPutAtHeadNoTail(l, n) ==
    /\ next' = [next EXCEPT ![n] = head[l]]
    /\ head' = [head EXCEPT ![l] = n]
    /\ UNCHANGED tail

SllPutAtHead(l, n) ==
    /\ next' = [next EXCEPT ![n] = head[l]]
    /\ head' = [head EXCEPT ![l] = n]
    /\ tail' = IF head[l] = NULL THEN [tail EXCEPT ![l] = n] ELSE tail

SllPutAtTail(l, n) ==
    /\ next' = IF head[l] = NULL THEN [next EXCEPT ![n] = NULL]
               ELSE [next EXCEPT ![n] = NULL, ![tail[l]] = n]
    /\ head' = [head EXCEPT ![l] = IF @ = NULL THEN n ELSE @]
    /\ tail' = [tail EXCEPT ![l] = n]

SllGet(l) ==
    /\ got' = head[l]
    /\ IF head[l] = NULL
       THEN UNCHANGED links
       ELSE /\ head' = [head EXCEPT ![l] = next[head[l]]]
            /\ tail' = [tail EXCEPT ![l] = IF @ = head[l] THEN NULL ELSE @]
            /\ UNCHANGED next

\* The node in front of n in l, or NULL if n is the first or is not found.
SllPrevious(l, n) ==
    IF head[l] = NULL \/ head[l] = n \/ \A p \in On(l) : next[p] # n
    THEN NULL
    ELSE CHOOSE p \in On(l) : next[p] = n

\* Mutant: removing the last node leaves the tail at it.
SllRemoveKeepingTail(l, n, prev) ==
    /\ IF prev = NULL
       THEN /\ head' = [head EXCEPT ![l] = next[n]]
            /\ UNCHANGED next
       ELSE /\ next' = [next EXCEPT ![prev] = next[n]]
            /\ UNCHANGED head
    /\ UNCHANGED tail

SllRemove(l, n, prev) ==
    /\ IF prev = NULL
       THEN /\ head' = [head EXCEPT ![l] = next[n]]
            /\ UNCHANGED next
       ELSE /\ next' = [next EXCEPT ![prev] = next[n]]
            /\ UNCHANGED head
    /\ tail' = [tail EXCEPT ![l] = IF @ = n THEN prev ELSE @]

------------------------------------------------------------------------------
\* Before sllInit the pointers of a list head are whatever memory holds; the
\* model starts where every list has been initialised.
Init ==
    /\ head = [l \in Lists |-> NULL]
    /\ tail = [l \in Lists |-> NULL]
    /\ next \in [Nodes -> Pointer]
    /\ got = NULL

Unlinked(n) == \A l \in Lists : n \notin On(l)

Next ==
    \E l \in Lists :
        \/ SllInit(l) /\ UNCHANGED got
        \/ SllGet(l)
        \/ \E n \in Nodes :
              \/ Unlinked(n) /\ SllPutAtHead(l, n) /\ UNCHANGED got
              \/ Unlinked(n) /\ SllPutAtTail(l, n) /\ UNCHANGED got
              \/ n \in On(l) /\ SllRemove(l, n, SllPrevious(l, n)) /\ UNCHANGED got

Spec == Init /\ [][Next]_sllVars

------------------------------------------------------------------------------
TypeOK ==
    /\ head \in [Lists -> Pointer]
    /\ tail \in [Lists -> Pointer]
    /\ next \in [Nodes -> Pointer]
    /\ got \in Pointer

(***************************************************************************)
(* Every list ends, its tail is its last node (none if it is empty), and   *)
(* no node is on two lists: what sllPutAtTail relies on when it writes     *)
(* through the tail, and every traversal (sllCount, sllEach, hashTblFind)  *)
(* when it looks for the end.                                              *)
(***************************************************************************)
ListsSound ==
    /\ \A l \in Lists :
          /\ Ends(l)
          /\ tail[l] = IF Chain(l) = <<>> THEN NULL ELSE Chain(l)[Len(Chain(l))]
    /\ \A l, m \in Lists : l # m => On(l) \intersect On(m) = {}

(***************************************************************************)
(* Whatever is put, got and removed in whatever order, each list behaves   *)
(* as the sequence of its nodes: nothing is lost when a node leaves from   *)
(* the middle, nothing reappears when it is put back elsewhere.            *)
(***************************************************************************)
Abstract == INSTANCE SeqLists WITH contents <- [l \in Lists |-> Chain(l)]

ImplementsSeqLists == Abstract!Spec
==============================================================================
