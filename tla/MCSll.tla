------------------------------- MODULE MCSll -------------------------------
(***************************************************************************)
(* Two lists over four nodes: a node can leave from the front, the middle  *)
(* and the end of a list and enter the other one with a stale next pointer.*)
(***************************************************************************)
EXTENDS Sll

CONSTANTS l1, l2, n1, n2, n3, n4

MCLists == {l1, l2}
MCNodes == {n1, n2, n3, n4}
==============================================================================
