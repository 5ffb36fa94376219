---------------------------- MODULE BumpAllocator ----------------------------
(***************************************************************************)
(* What the boot loader's allocator amounts to for its callers: a single   *)
(* break pointer that only moves up.  A request is granted if and only if  *)
(* its header and its rounded payload fit above the break; giving memory   *)
(* back changes nothing.  Heap.tla, the first-fit allocator of             *)
(* lib/libc/malloc.c, implements this specification.                       *)
(***************************************************************************)
EXTENDS Integers

CONSTANTS
    HeapBase,    \* address of the first byte of the heap
    HeapSize,    \* number of bytes of the heap
    HeaderSize,  \* bytes of a block's header
    Requests     \* the payload sizes, already rounded, that may be asked for

VARIABLES
    brk,         \* address of the first byte never handed out
    reply        \* the last request and the address it was granted, 0 if refused

HeapEnd == HeapBase + HeapSize

Fits(n) == brk + HeaderSize + n <= HeapEnd

Init == brk = HeapBase /\ reply = [size |-> 0, ptr |-> 0]

\* A payload of n bytes is cut off above the break.  A rest that could not
\* hold more than a header is given away with the payload.
Grant(n) ==
    /\ Fits(n)
    /\ reply' = [size |-> n, ptr |-> brk + HeaderSize]
    /\ brk' = IF HeapEnd - (brk + HeaderSize + n) > HeaderSize
              THEN brk + HeaderSize + n
              ELSE HeapEnd

Refuse(n) ==
    /\ ~Fits(n)
    /\ reply' = [size |-> n, ptr |-> 0]
    /\ UNCHANGED brk

Next == \E n \in Requests : Grant(n) \/ Refuse(n)

Spec == Init /\ [][Next]_<<brk, reply>>
==============================================================================
