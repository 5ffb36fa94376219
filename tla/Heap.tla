-------------------------------- MODULE Heap --------------------------------
(***************************************************************************)
(* The boot loader's dynamic memory: the first-fit allocator of            *)
(* lib/libc/malloc.c (heap_init, kmalloc, xmalloc, calloc, kfree) and its  *)
(* client strdup.                                                          *)
(*                                                                         *)
(* The heap is a singly linked list of blocks laid out in memory; the      *)
(* model keeps it as the sequence "chain", whose order is the order of the *)
(* next pointers.  A block is its header: the address the header is at,    *)
(* the size of the payload behind it and the flag "allocated", which is 0  *)
(* (free), 1 (allocated) or -1 (given back by kfree; 255 where char is     *)
(* unsigned, as on PowerPC: only "is it 0?" is ever asked).                *)
(***************************************************************************)
EXTENDS Integers, Sequences, FiniteSets

CONSTANTS
    HeapBase,   \* HEAP_BASE, 0x1 in the code
    HeapSize,   \* HEAP_SIZE, 0x3fc00000 in the code
    Word,       \* 2^32: the modulus of unsigned long
    Sizes       \* the sizes callers ask for

ASSUME HeapAssumption ==
    /\ HeapBase \in Nat
    /\ HeapSize \in Nat /\ HeapSize > 16
    /\ Word \in Nat /\ Word > 8
    /\ HeapBase + HeapSize < Word
    /\ Sizes \subseteq 0 .. Word - 1

VARIABLES
    chain,      \* the blocks from gHeapBase along the next pointers
    grants,     \* history: the grants not yet given back
    last,       \* the last allocation: caller, bytes it needs, pointer returned
    refused,    \* history: the smallest rounded request refused so far
    overrun     \* calloc cleared memory beyond the block it got

vars == <<chain, grants, last, refused, overrun>>

NULL == 0
HeaderSize == 16                                 \* sizeof(blockhead)
HeapEnd == HeapBase + HeapSize

Block == [addr : Nat, size : Nat, allocated : {-1, 0, 1}]

Payload(b) == b.addr + HeaderSize
BlockEnd(b) == b.addr + HeaderSize + b.size

\* Mutant: forgets to add 7 before the mask.
RoundedDown(n) == n - (n % 8)

(***************************************************************************)
(* size = (size+7)&~7, in unsigned 32-bit arithmetic: the seven largest    *)
(* sizes wrap around to a request for 0 bytes, and a product that does not *)
(* fit in a word to one for what is left of it.                            *)
(***************************************************************************)
Rounded(n) == LET up == (n + 7) % Word IN up - (up % 8)

------------------------------------------------------------------------------
Init ==
    /\ chain = <<[addr |-> HeapBase, size |-> HeapSize - HeaderSize,
                  allocated |-> 0]>>
    /\ grants = {}
    /\ last = [op |-> "heap_init", size |-> 0, ptr |-> NULL]
    /\ refused = HeapSize
    /\ overrun = FALSE

(***************************************************************************)
(* The search and the split of fisrt_fit_malloc.                           *)
(***************************************************************************)
\* Mutant: the search forgets the test of the flag.
UsableIgnoringFlag(size) == {i \in 1 .. Len(chain) : chain[i].size >= size}

Usable(size) == {i \in 1 .. Len(chain) : /\ chain[i].allocated = 0
                                         /\ chain[i].size >= size}

FirstFit(size) == CHOOSE i \in Usable(size) : \A j \in Usable(size) : i <= j

\* Mutants: a rest without payload, and one without room for its header.
SplitsForNothing(b, size) == b.size - size >= HeaderSize
SplitsWithoutRoom(b, size) == b.size - size >= 0

\* A block is split only if the rest is larger than a header.
Splits(b, size) == b.size - size > HeaderSize

Taken(b, size) ==
    [b EXCEPT !.allocated = 1, !.size = IF Splits(b, size) THEN size ELSE @]

\* Mutant: the rest's size still counts the header cut off.
RestOverlong(b, size) ==
    [addr |-> b.addr + HeaderSize + size,
     size |-> b.size - size,
     allocated |-> 0]

Rest(b, size) ==
    [addr |-> b.addr + HeaderSize + size,
     size |-> b.size - size - HeaderSize,
     allocated |-> 0]

ChainAfter(i, size) ==
    LET b == chain[i] IN
    IF Splits(b, size)
    THEN [j \in 1 .. Len(chain) + 1 |-> IF j < i THEN chain[j]
                                        ELSE IF j = i THEN Taken(b, size)
                                        ELSE IF j = i + 1 THEN Rest(b, size)
                                        ELSE chain[j - 1]]
    ELSE [chain EXCEPT ![i] = Taken(b, size)]

(***************************************************************************)
(* fisrt_fit_malloc(n) on behalf of the caller op.                         *)
(***************************************************************************)
Granted(op, n) ==
    LET size == Rounded(n)
        i == FirstFit(size)
    IN /\ Usable(size) # {}
       /\ chain' = ChainAfter(i, size)
       /\ last' = [op |-> op, size |-> n, ptr |-> Payload(chain[i])]
       /\ grants' = grants \union {[ptr |-> Payload(chain[i]), size |-> size]}
       /\ UNCHANGED refused

Refused(op, n) ==
    LET size == Rounded(n)
    IN /\ Usable(size) = {}
       /\ last' = [op |-> op, size |-> n, ptr |-> NULL]
       /\ refused' = IF size < refused THEN size ELSE refused
       /\ UNCHANGED <<chain, grants>>

Malloc(op, n) == Granted(op, n) \/ Refused(op, n)

Kmalloc(n) == ~overrun /\ Malloc("kmalloc", n) /\ UNCHANGED overrun

\* xmalloc prints a line when kmalloc fails and returns the null pointer.
Xmalloc(n) == ~overrun /\ Malloc("xmalloc", n) /\ UNCHANGED overrun

\* strdup asks for the length of the string and its terminator.
Strdup(len) == ~overrun /\ Malloc("strdup", len + 1) /\ UNCHANGED overrun

(***************************************************************************)
(* calloc needs room for num elements of sz bytes.  It multiplies in 32    *)
(* bits, asks for the product and clears that many bytes.  When the        *)
(* product is one of the sizes that round to 0 the clearing runs through   *)
(* almost all of memory: no later state of the machine is defined.         *)
(***************************************************************************)
Calloc(num, sz) ==
    LET n == num * sz
    IN /\ ~overrun
       /\ Malloc("calloc", n)
       /\ overrun' = (last'.ptr # NULL /\ n % Word > Rounded(n))

\* Mutant: kfree marks the block 0, so that the search takes it again.
KfreeReusing(ptr) ==
    /\ ~overrun
    /\ chain' = [i \in 1 .. Len(chain) |->
                    IF Payload(chain[i]) = ptr
                    THEN [chain[i] EXCEPT !.allocated = 0]
                    ELSE chain[i]]
    /\ grants' = {g \in grants : g.ptr # ptr}
    /\ UNCHANGED <<last, refused, overrun>>

(***************************************************************************)
(* kfree: a null pointer is ignored, and so is a pointer with no signature *)
(* in front of it.  The block is marked -1, not 0.  Callers pass pointers  *)
(* they were given; a pointer may be given back twice.                     *)
(***************************************************************************)
Kfree(ptr) ==
    /\ ~overrun
    /\ chain' = [i \in 1 .. Len(chain) |->
                    IF Payload(chain[i]) = ptr
                    THEN [chain[i] EXCEPT !.allocated = -1]
                    ELSE chain[i]]
    /\ grants' = {g \in grants : g.ptr # ptr}
    /\ UNCHANGED <<last, refused, overrun>>

Pointers == {NULL} \union
    {Payload(chain[i]) : i \in {j \in 1 .. Len(chain) : chain[j].allocated # 0}}

Next ==
    \/ \E n \in Sizes : Kmalloc(n)
    \/ \E n \in Sizes : Xmalloc(n)
    \/ \E n \in Sizes : n + 1 < Word /\ Strdup(n)
    \/ \E num, sz \in Sizes : Calloc(num, sz)
    \/ \E ptr \in Pointers : Kfree(ptr)

Spec == Init /\ [][Next]_vars

------------------------------------------------------------------------------
Allocations == {"kmalloc", "xmalloc", "strdup", "calloc"}

TypeOK ==
    /\ chain \in Seq(Block)
    /\ grants \subseteq [ptr : Nat, size : Nat]
    /\ last \in [op : Allocations \union {"heap_init"}, size : Nat, ptr : Nat]
    /\ refused \in Nat
    /\ overrun \in BOOLEAN

(***************************************************************************)
(* The blocks tile the heap: walking the next pointers, each header lies   *)
(* where the payload before it ends, from the first byte of the heap to    *)
(* the last.  (The split of fisrt_fit_malloc, lines 63-72 of malloc.c,     *)
(* must compute the address and the size of the rest consistently.)        *)
(***************************************************************************)
HeapTiled ==
    /\ chain # <<>>
    /\ chain[1].addr = HeapBase
    /\ BlockEnd(chain[Len(chain)]) = HeapEnd
    /\ \A i \in 1 .. Len(chain) - 1 : chain[i + 1].addr = BlockEnd(chain[i])

(***************************************************************************)
(* No two grants that are live at once share a byte, no block header lies  *)
(* inside a live grant, and every live grant lies inside the heap: a       *)
(* caller that stays within what it was given disturbs neither another     *)
(* caller nor the allocator.                                               *)
(***************************************************************************)
Apart(p, m, q, n) == p + m <= q \/ q + n <= p

GrantsApart ==
    /\ \A g, h \in grants : g # h => Apart(g.ptr, g.size, h.ptr, h.size)
    /\ \A g \in grants, i \in 1 .. Len(chain) :
          Apart(g.ptr, g.size, chain[i].addr, HeaderSize)
    /\ \A g \in grants : HeapBase <= g.ptr /\ g.ptr + g.size <= HeapEnd

(***************************************************************************)
(* When a call returns a pointer, there is room behind it for what was     *)
(* asked for exactly if that many bytes and the seven of the rounding fit  *)
(* in a word.  Not so for the seven largest sizes, nor for a calloc whose  *)
(* num elements of sz bytes come to more: it returns a block too small for *)
(* them, which the comment at malloc.c:144-147 rules out.                  *)
(***************************************************************************)
GrantCoversRequest ==
    last.op \in Allocations /\ last.ptr # NULL
        => \E i \in 1 .. Len(chain) :
              /\ Payload(chain[i]) = last.ptr
              /\ chain[i].allocated # 0
              /\ chain[i].size >= last.size <=> last.size <= Word - 8

(***************************************************************************)
(* Running out of memory is final.  Once a request has been refused, no    *)
(* request at least as large is ever granted again, whatever is given back *)
(* in between: first_fit_free marks a block -1 (line 94) and the search    *)
(* takes only blocks marked 0 (line 55), so nothing is reused.             *)
(***************************************************************************)
RefusalIsFinal ==
    last.op \in Allocations /\ last.ptr # NULL => Rounded(last.size) < refused

(***************************************************************************)
(* The allocator is a bump allocator: the break is the only free block,    *)
(* which is always the last of the list; a call of kfree is a stuttering   *)
(* step of it.                                                             *)
(***************************************************************************)
LastBlock == chain[Len(chain)]

Bump == INSTANCE BumpAllocator WITH
            Requests <- {8 * k : k \in 0 .. Word \div 8},
            brk <- IF LastBlock.allocated = 0 THEN LastBlock.addr ELSE HeapEnd,
            reply <- [size |-> Rounded(last.size), ptr |-> last.ptr]

ImplementsBump == Bump!Spec
==============================================================================
