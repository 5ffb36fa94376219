------------------------------- MODULE MCHeap -------------------------------
(***************************************************************************)
(* A heap of 80 bytes, room for four headers and a little payload, and a   *)
(* word of 7 bits.                                                         *)
(***************************************************************************)
EXTENDS Heap

MCHeapBase == 1
MCHeapSize == 80
MCWord == 128

\* 0, 1 and 9 round up, 24 fits twice at most and by 9 exceeds a word in calloc,
\* where 88 bytes are left of it; 123 wraps in the rounding.
MCSizes == {0, 1, 9, 24, 123}
==============================================================================
