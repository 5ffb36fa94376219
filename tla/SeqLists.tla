------------------------------ MODULE SeqLists ------------------------------
(***************************************************************************)
(* What a family of linked lists promises: every list is a sequence, and a *)
(* node is in at most one of them, at one place.  Sll.tla, the lists of    *)
(* sllLib.c with their next pointers, implements this specification.       *)
(***************************************************************************)
EXTENDS Naturals, Sequences, SequencesExt

CONSTANTS Lists, Nodes, NULL

VARIABLES
    contents,   \* the sequence of nodes of each list
    got         \* what the last Get returned

ListVars == <<contents, got>>

Linked(n) == \E l \in Lists : n \in ToSet(contents[l])

Init ==
    /\ contents = [l \in Lists |-> <<>>]
    /\ got = NULL

Reset(l) ==
    /\ contents' = [contents EXCEPT ![l] = <<>>]
    /\ UNCHANGED got

PutAtHead(l, n) ==
    /\ ~Linked(n)
    /\ contents' = [contents EXCEPT ![l] = <<n>> \o @]
    /\ UNCHANGED got

PutAtTail(l, n) ==
    /\ ~Linked(n)
    /\ contents' = [contents EXCEPT ![l] = Append(@, n)]
    /\ UNCHANGED got

Get(l) ==
    IF contents[l] = <<>>
    THEN got' = NULL /\ UNCHANGED contents
    ELSE /\ got' = Head(contents[l])
         /\ contents' = [contents EXCEPT ![l] = Tail(@)]

Take(l, n) ==
    /\ \E i \in DOMAIN contents[l] :
          /\ contents[l][i] = n
          /\ contents' = [contents EXCEPT ![l] = RemoveAt(@, i)]
    /\ UNCHANGED got

Next ==
    \E l \in Lists :
        \/ Reset(l)
        \/ Get(l)
        \/ \E n \in Nodes : PutAtHead(l, n) \/ PutAtTail(l, n) \/ Take(l, n)

Spec == Init /\ [][Next]_ListVars
==============================================================================
