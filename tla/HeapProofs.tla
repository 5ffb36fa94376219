----------------------------- MODULE HeapProofs -----------------------------
(***************************************************************************)
(* The allocator of Heap.tla is correct for every heap, word width and set *)
(* of request sizes.  The inductive invariant adds to the invariants that  *)
(* TLC checks the reason why they hold: the only block ever free is the    *)
(* last one of the list, so that the first-fit search always takes that    *)
(* one, and it is smaller than every request refused so far.               *)
(***************************************************************************)
EXTENDS Heap, TLAPS, SequenceTheorems

(***************************************************************************)
(* Blocks of the list lie one behind the other.                            *)
(***************************************************************************)
Ordered ==
    \A i, j \in 1 .. Len(chain) : i < j => BlockEnd(chain[i]) <= chain[j].addr

OnlyLastFree == \A i \in 1 .. Len(chain) - 1 : chain[i].allocated # 0

(***************************************************************************)
(* Every live grant is the payload of an allocated block.                  *)
(***************************************************************************)
Holds(i, g) ==
    /\ chain[i].allocated = 1
    /\ Payload(chain[i]) = g.ptr
    /\ chain[i].size >= g.size

GrantsHeld ==
    /\ \A g \in grants : \E i \in 1 .. Len(chain) : Holds(i, g)
    /\ \A g, h \in grants : g.ptr = h.ptr => g = h

(***************************************************************************)
(* What has been refused does not fit in what is still free.               *)
(***************************************************************************)
RefusedNeverFits ==
    \A i \in 1 .. Len(chain) : chain[i].allocated = 0 => chain[i].size < refused

IInv ==
    /\ TypeOK
    /\ HeapTiled
    /\ Ordered
    /\ OnlyLastFree
    /\ GrantsHeld
    /\ RefusedNeverFits
    /\ RefusalIsFinal

------------------------------------------------------------------------------
(***************************************************************************)
(* The rounding yields a natural number, and at least the number of bytes  *)
(* asked for unless it wraps.                                              *)
(***************************************************************************)
LEMMA RoundedNat ==
    ASSUME NEW n \in Nat
    PROVE  /\ Rounded(n) \in Nat
           /\ n <= Word - 8 => Rounded(n) >= n
<1> DEFINE up == (n + 7) % Word
<1>1. up \in Nat
  BY HeapAssumption
<1>2. up % 8 \in 0 .. 7 /\ up % 8 <= up
  BY <1>1
<1>3. n <= Word - 8 => up = n + 7
  BY HeapAssumption
<1>4. Rounded(n) = up - (up % 8)
  BY DEF Rounded
<1> HIDE DEF up
<1> QED
  BY <1>1, <1>2, <1>3, <1>4

(***************************************************************************)
(* The end of a block is an address.                                       *)
(***************************************************************************)
LEMMA BlockEndNat ==
    ASSUME NEW b \in Block
    PROVE  BlockEnd(b) \in Nat
BY DEF Block, BlockEnd, HeaderSize

(***************************************************************************)
(* The first fit is the last block of the list.                            *)
(***************************************************************************)
LEMMA FirstFitIsLast ==
    ASSUME TypeOK, HeapTiled, OnlyLastFree, NEW size \in Nat, Usable(size) # {}
    PROVE  /\ FirstFit(size) = Len(chain)
           /\ Len(chain) \in Nat \ {0}
           /\ LastBlock \in Block
           /\ LastBlock.allocated = 0
           /\ LastBlock.size >= size
<1>1. Len(chain) \in Nat /\ \A i \in 1 .. Len(chain) : chain[i] \in Block
  BY DEF TypeOK
<1>2. Usable(size) \subseteq {Len(chain)}
  BY <1>1 DEF Usable, OnlyLastFree
<1>3. Usable(size) = {Len(chain)}
  BY <1>2
<1>4. Len(chain) \in 1 .. Len(chain) /\ LastBlock.allocated = 0 /\ LastBlock.size >= size
  BY <1>3 DEF Usable, LastBlock
<1>5. FirstFit(size) = Len(chain)
  BY <1>1, <1>3 DEF FirstFit
<1> QED
  BY <1>1, <1>4, <1>5 DEF LastBlock

(***************************************************************************)
(* What a successful search does to the list: the last block is replaced   *)
(* by one or two blocks that cover the same bytes.                         *)
(***************************************************************************)
LEMMA TakenFields ==
    ASSUME NEW b \in Block, NEW size \in Nat
    PROVE  /\ Taken(b, size) \in Block
           /\ Taken(b, size).addr = b.addr
           /\ Taken(b, size).allocated = 1
           /\ Taken(b, size).size = IF Splits(b, size) THEN size ELSE b.size
BY DEF Taken, Block

LEMMA RestFields ==
    ASSUME NEW b \in Block, NEW size \in Nat, Splits(b, size)
    PROVE  /\ Rest(b, size) \in Block
           /\ Rest(b, size).addr = b.addr + HeaderSize + size
           /\ Rest(b, size).allocated = 0
           /\ Rest(b, size).size = b.size - size - HeaderSize
BY DEF Rest, Block, Splits, HeaderSize

LEMMA ChainAfterSplit ==
    ASSUME TypeOK, NEW size \in Nat, Len(chain) \in Nat \ {0},
           LastBlock \in Block, Splits(LastBlock, size)
    PROVE  /\ ChainAfter(Len(chain), size) \in Seq(Block)
           /\ Len(ChainAfter(Len(chain), size)) = Len(chain) + 1
           /\ \A i \in 1 .. Len(chain) - 1 :
                 ChainAfter(Len(chain), size)[i] = chain[i]
           /\ ChainAfter(Len(chain), size)[Len(chain)] = Taken(LastBlock, size)
           /\ ChainAfter(Len(chain), size)[Len(chain) + 1] = Rest(LastBlock, size)
<1> DEFINE L == Len(chain)
           a == Taken(LastBlock, size)
           r == Rest(LastBlock, size)
           c == [j \in 1 .. L + 1 |-> IF j < L THEN chain[j]
                                      ELSE IF j = L THEN a
                                      ELSE IF j = L + 1 THEN r
                                      ELSE chain[j - 1]]
<1>1. L \in Nat /\ \A i \in 1 .. L : chain[i] \in Block
  BY DEF TypeOK
<1>2. a \in Block /\ r \in Block
  BY TakenFields, RestFields
<1>3. ChainAfter(L, size) = c
  BY DEF ChainAfter, LastBlock
<1> HIDE DEF L, a, r
<1>4. \A j \in 1 .. L + 1 : c[j] \in Block
  BY <1>1, <1>2
<1>5. c \in Seq(Block) /\ Len(c) = L + 1
  BY <1>1, <1>4
<1>6. (\A i \in 1 .. L - 1 : c[i] = chain[i]) /\ c[L] = a /\ c[L + 1] = r
  BY <1>1, L # 0 DEF L
<1> QED
  BY <1>3, <1>5, <1>6 DEF L, a, r

LEMMA ChainAfterWhole ==
    ASSUME TypeOK, NEW size \in Nat, Len(chain) \in Nat \ {0},
           LastBlock \in Block, ~Splits(LastBlock, size)
    PROVE  /\ ChainAfter(Len(chain), size) \in Seq(Block)
           /\ Len(ChainAfter(Len(chain), size)) = Len(chain)
           /\ \A i \in 1 .. Len(chain) - 1 :
                 ChainAfter(Len(chain), size)[i] = chain[i]
           /\ ChainAfter(Len(chain), size)[Len(chain)] = Taken(LastBlock, size)
<1>1. chain \in Seq(Block)
  BY DEF TypeOK
<1>2. Taken(LastBlock, size) \in Block
  BY TakenFields
<1>3. ChainAfter(Len(chain), size) = [chain EXCEPT ![Len(chain)] = Taken(LastBlock, size)]
  BY DEF ChainAfter, LastBlock
<1> QED
  BY <1>1, <1>2, <1>3
------------------------------------------------------------------------------
(***************************************************************************)
(* The invariant holds initially and is kept by each of the three things   *)
(* that happen to the heap: a grant, a refusal, a release.                 *)
(***************************************************************************)
LEMMA InitIInv == Init => IInv
<1> SUFFICES ASSUME Init PROVE IInv
  OBVIOUS
<1> DEFINE b == [addr |-> HeapBase, size |-> HeapSize - HeaderSize, allocated |-> 0]
<1>1. /\ b \in Block /\ b.addr = HeapBase
      /\ b.size = HeapSize - HeaderSize /\ b.allocated = 0
  BY HeapAssumption DEF Block, HeaderSize
<1>2. chain = <<b>>
  BY DEF Init
<1> HIDE DEF b
<1>3. chain \in Seq(Block) /\ Len(chain) = 1 /\ chain[1] = b
  BY <1>1, <1>2
<1>4. TypeOK
  <2>1. grants \subseteq [ptr : Nat, size : Nat]
    BY DEF Init
  <2>2. last \in [op : Allocations \union {"heap_init"}, size : Nat, ptr : Nat]
    BY DEF Init, NULL
  <2>3. refused \in Nat /\ overrun \in BOOLEAN
    BY HeapAssumption DEF Init
  <2> QED
    BY <1>3, <2>1, <2>2, <2>3 DEF TypeOK
<1>5. HeapTiled
  <2>1. chain # <<>>
    BY <1>3
  <2>2. BlockEnd(chain[Len(chain)]) = HeapEnd
    BY <1>1, <1>3, HeapAssumption DEF BlockEnd, HeapEnd, HeaderSize
  <2> QED
    BY <1>1, <1>3, <2>1, <2>2 DEF HeapTiled
<1>6. Ordered /\ OnlyLastFree
  BY <1>3 DEF Ordered, OnlyLastFree
<1>7. GrantsHeld
  BY DEF Init, GrantsHeld
<1>8. RefusedNeverFits
  BY <1>1, <1>3, HeapAssumption DEF Init, RefusedNeverFits, HeaderSize
<1>9. RefusalIsFinal
  BY DEF Init, RefusalIsFinal, Allocations
<1> QED
  BY <1>4, <1>5, <1>6, <1>7, <1>8, <1>9 DEF IInv

(***************************************************************************)
(* The last block, once taken, has the payload the grant promises.  Where  *)
(* the block is split the rest is the new last block, and free.            *)
(***************************************************************************)
LEMMA GrantedChain ==
    ASSUME IInv, NEW op, NEW n \in Nat, Granted(op, n)
    PROVE  LET L == Len(chain)
               size == Rounded(n)
           IN /\ L \in Nat \ {0} /\ size \in Nat
              /\ chain' \in Seq(Block)
              /\ \A i \in 1 .. L - 1 : chain'[i] = chain[i]
              /\ LastBlock \in Block /\ LastBlock.allocated = 0
              /\ LastBlock.size >= size
              /\ chain'[L].addr = LastBlock.addr
              /\ chain'[L].allocated = 1
              /\ chain'[L].size >= size
              /\ last' = [op |-> op, size |-> n, ptr |-> Payload(LastBlock)]
              /\ grants' = grants \union {[ptr |-> Payload(LastBlock), size |-> size]}
              /\ \/ /\ ~Splits(LastBlock, size)
                    /\ Len(chain') = L
                    /\ chain'[L].size = LastBlock.size
                 \/ /\ Splits(LastBlock, size)
                    /\ Len(chain') = L + 1
                    /\ chain'[L].size = size
                    /\ chain'[L + 1].addr = LastBlock.addr + HeaderSize + size
                    /\ chain'[L + 1].size = LastBlock.size - size - HeaderSize
                    /\ chain'[L + 1].allocated = 0
<1> DEFINE L == Len(chain)
           size == Rounded(n)
<1>1. size \in Nat
  BY RoundedNat
<1>2. TypeOK /\ HeapTiled /\ OnlyLastFree /\ Usable(size) # {}
  BY DEF IInv, Granted
<1> HIDE DEF size
<1>3. /\ FirstFit(size) = L /\ L \in Nat \ {0} /\ LastBlock \in Block
      /\ LastBlock.allocated = 0 /\ LastBlock.size >= size
  BY <1>1, <1>2, FirstFitIsLast
<1>4. /\ chain' = ChainAfter(L, size)
      /\ last' = [op |-> op, size |-> n, ptr |-> Payload(LastBlock)]
      /\ grants' = grants \union {[ptr |-> Payload(LastBlock), size |-> size]}
  BY <1>3 DEF Granted, size, LastBlock
<1>5. CASE Splits(LastBlock, size)
  <2>1. /\ chain' \in Seq(Block) /\ Len(chain') = L + 1
        /\ \A i \in 1 .. L - 1 : chain'[i] = chain[i]
        /\ chain'[L] = Taken(LastBlock, size)
        /\ chain'[L + 1] = Rest(LastBlock, size)
    BY <1>1, <1>2, <1>3, <1>4, <1>5, ChainAfterSplit
  <2>2. /\ chain'[L].addr = LastBlock.addr /\ chain'[L].allocated = 1
        /\ chain'[L].size = size
    BY <1>1, <1>3, <1>5, <2>1, TakenFields
  <2>3. /\ chain'[L + 1].addr = LastBlock.addr + HeaderSize + size
        /\ chain'[L + 1].size = LastBlock.size - size - HeaderSize
        /\ chain'[L + 1].allocated = 0
    BY <1>1, <1>3, <1>5, <2>1, RestFields
  <2> QED
    BY <1>1, <1>3, <1>4, <1>5, <2>1, <2>2, <2>3 DEF size
<1>6. CASE ~Splits(LastBlock, size)
  <2>1. /\ chain' \in Seq(Block) /\ Len(chain') = L
        /\ \A i \in 1 .. L - 1 : chain'[i] = chain[i]
        /\ chain'[L] = Taken(LastBlock, size)
    BY <1>1, <1>2, <1>3, <1>4, <1>6, ChainAfterWhole
  <2>2. /\ chain'[L].addr = LastBlock.addr /\ chain'[L].allocated = 1
        /\ chain'[L].size = LastBlock.size
    BY <1>1, <1>3, <1>6, <2>1, TakenFields
  <2> QED
    BY <1>1, <1>3, <1>4, <1>6, <2>1, <2>2 DEF size
<1> QED
  BY <1>5, <1>6
LEMMA GrantedKeeps ==
    ASSUME IInv, NEW op \in Allocations, NEW n \in Nat, Granted(op, n),
           overrun' \in BOOLEAN
    PROVE  IInv'
<1> DEFINE L == Len(chain)
           size == Rounded(n)
           p == Payload(LastBlock)
<1>1. /\ L \in Nat \ {0} /\ size \in Nat
      /\ chain' \in Seq(Block)
      /\ \A i \in 1 .. L - 1 : chain'[i] = chain[i]
      /\ LastBlock \in Block /\ LastBlock.allocated = 0
      /\ LastBlock.size >= size
      /\ chain'[L].addr = LastBlock.addr
      /\ chain'[L].allocated = 1
      /\ chain'[L].size >= size
      /\ last' = [op |-> op, size |-> n, ptr |-> p]
      /\ grants' = grants \union {[ptr |-> p, size |-> size]}
  BY GrantedChain
<1>2. \/ /\ Len(chain') = L
         /\ chain'[L].size = LastBlock.size
      \/ /\ Len(chain') = L + 1
         /\ chain'[L].size = size
         /\ chain'[L + 1].addr = LastBlock.addr + HeaderSize + size
         /\ chain'[L + 1].size = LastBlock.size - size - HeaderSize
         /\ chain'[L + 1].allocated = 0
  BY GrantedChain
<1>3. /\ TypeOK /\ HeapTiled /\ Ordered /\ OnlyLastFree /\ GrantsHeld
      /\ RefusedNeverFits /\ RefusalIsFinal
  BY DEF IInv
<1>4. /\ chain \in Seq(Block)
      /\ \A i \in 1 .. L : chain[i] \in Block
      /\ chain[L] = LastBlock
  BY <1>3 DEF TypeOK, LastBlock
<1>5. /\ p \in Nat /\ p = LastBlock.addr + HeaderSize
      /\ LastBlock.addr \in Nat /\ LastBlock.size \in Nat
  BY <1>1 DEF Payload, Block, HeaderSize
<1>6. refused' = refused /\ refused \in Nat
  BY <1>3 DEF Granted, TypeOK
<1> HIDE DEF size, p
<1>7. TypeOK'
  <2>1. (grants \subseteq [ptr : Nat, size : Nat])'
    BY <1>1, <1>3, <1>5 DEF TypeOK
  <2>2. (last \in [op : Allocations \union {"heap_init"}, size : Nat, ptr : Nat])'
    BY <1>1, <1>5
  <2> QED
    BY <1>1, <1>6, <2>1, <2>2 DEF TypeOK
<1>8. HeapTiled'
  <2>1. Len(chain') \in Nat \ {0} /\ chain' # <<>>
    BY <1>1, <1>2
  <2>2. chain'[1].addr = HeapBase
    BY <1>1, <1>3, <1>4 DEF HeapTiled
  <2>3. BlockEnd(chain'[Len(chain')]) = HeapEnd
    <3>1. BlockEnd(LastBlock) = HeapEnd
      BY <1>3, <1>4 DEF HeapTiled
    <3>2. CASE Len(chain') = L
      <4>1. /\ chain'[Len(chain')].addr = LastBlock.addr
            /\ chain'[Len(chain')].size = LastBlock.size
        BY <1>1, <1>2, <3>2
      <4> QED
        BY <3>1, <4>1 DEF BlockEnd
    <3>3. CASE Len(chain') = L + 1
      <4>1. /\ chain'[Len(chain')].addr = LastBlock.addr + HeaderSize + size
            /\ chain'[Len(chain')].size = LastBlock.size - size - HeaderSize
        BY <1>1, <1>2, <3>3
      <4>2. /\ LastBlock.addr + 16 + LastBlock.size = HeapEnd
            /\ LastBlock.addr \in Nat /\ LastBlock.size \in Nat
        BY <1>1, <3>1 DEF BlockEnd, HeaderSize, Block
      <4>3. BlockEnd(chain'[Len(chain')]) =
               (LastBlock.addr + 16 + size) + 16 + (LastBlock.size - size - 16)
        BY <4>1 DEF BlockEnd, HeaderSize
      <4> QED
        BY <1>1, <4>2, <4>3
    <3> QED
      BY <1>2, <3>2, <3>3
  <2>4. \A i \in 1 .. Len(chain') - 1 : chain'[i + 1].addr = BlockEnd(chain'[i])
    <3>1. \A i \in 1 .. L - 1 : chain'[i + 1].addr = chain[i + 1].addr
      BY <1>1, <1>4
    <3>2. \A i \in 1 .. L - 1 : chain'[i + 1].addr = BlockEnd(chain'[i])
      BY <1>1, <1>3, <3>1 DEF HeapTiled, BlockEnd
    <3> QED
      BY <1>1, <1>2, <3>2 DEF BlockEnd
  <2> QED
    BY <2>1, <2>2, <2>3, <2>4 DEF HeapTiled
<1>9. Ordered'
  <2> SUFFICES ASSUME NEW i \in 1 .. Len(chain'), NEW j \in 1 .. Len(chain'), i < j
               PROVE  BlockEnd(chain'[i]) <= chain'[j].addr
    BY DEF Ordered
  <2>1. CASE j <= L
    <3>1. i \in 1 .. L - 1 /\ j \in 1 .. L
      BY <1>1, <1>2, <2>1
    <3>2. BlockEnd(chain[i]) <= chain[j].addr
      BY <1>1, <1>3, <2>1, <3>1 DEF Ordered
    <3>3. chain'[j].addr = chain[j].addr
      BY <1>1, <1>4, <3>1
    <3>4. chain'[i] = chain[i]
      BY <1>1, <3>1
    <3> QED
      BY <3>2, <3>3, <3>4
  <2>2. CASE j = L + 1
    <3>1. CASE i = L
      BY <1>1, <1>2, <1>5, <2>2, <3>1 DEF BlockEnd, HeaderSize
    <3>2. CASE i < L
      <4>1. BlockEnd(chain[i]) <= LastBlock.addr
        BY <1>1, <1>3, <1>4, <3>2 DEF Ordered
      <4>2. BlockEnd(chain'[i]) = BlockEnd(chain[i]) /\ BlockEnd(chain[i]) \in Nat
        <5>1. chain'[i] = chain[i] /\ chain[i] \in Block
          BY <1>1, <1>4, <3>2
        <5>2. BlockEnd(chain[i]) \in Nat
          BY <5>1, BlockEndNat
        <5>3. BlockEnd(chain'[i]) = BlockEnd(chain[i])
          BY <5>1
        <5> QED
          BY <5>2, <5>3
      <4>3. chain'[j].addr = LastBlock.addr + HeaderSize + size
        BY <1>1, <1>2, <2>2
      <4> QED
        BY <1>1, <1>5, <4>1, <4>2, <4>3 DEF HeaderSize
    <3> QED
      BY <1>1, <2>2, <3>1, <3>2
  <2> QED
    BY <1>1, <1>2, <2>1, <2>2
<1>10. OnlyLastFree'
  <2> SUFFICES ASSUME NEW i \in 1 .. Len(chain') - 1
               PROVE  chain'[i].allocated # 0
    BY DEF OnlyLastFree
  <2>1. CASE i < L
    BY <1>1, <1>3, <2>1 DEF OnlyLastFree
  <2> QED
    BY <1>1, <1>2, <2>1
<1>11. GrantsHeld'
  <2>1. L \in 1 .. Len(chain') /\ 1 .. L \subseteq 1 .. Len(chain')
    BY <1>1, <1>2
  <2>2. Payload(chain'[L]) = p
    BY <1>1, <1>5 DEF Payload
  <2>3. \A g \in grants : \E i \in 1 .. L - 1 : Holds(i, g) /\ g.ptr < p
    <3> SUFFICES ASSUME NEW g \in grants
                 PROVE  \E i \in 1 .. L - 1 : Holds(i, g) /\ g.ptr < p
      OBVIOUS
    <3>1. PICK i \in 1 .. L : Holds(i, g)
      BY <1>3 DEF GrantsHeld
    <3>2. i # L
      BY <1>1, <1>4, <3>1 DEF Holds
    <3>3. BlockEnd(chain[i]) <= LastBlock.addr /\ chain[i] \in Block
      BY <1>1, <1>3, <1>4, <3>2 DEF Ordered
    <3>4. g.ptr < p
      BY <1>1, <1>5, <3>1, <3>3 DEF Holds, BlockEnd, Payload, Block, HeaderSize
    <3> QED
      BY <1>1, <3>1, <3>2, <3>4
  <2>4. \A g \in grants : \E i \in 1 .. Len(chain') : Holds(i, g)'
    <3> SUFFICES ASSUME NEW g \in grants
                 PROVE  \E i \in 1 .. Len(chain') : Holds(i, g)'
      OBVIOUS
    <3>1. PICK i \in 1 .. L - 1 : Holds(i, g)
      BY <2>3
    <3>2. chain'[i] = chain[i] /\ i \in 1 .. Len(chain')
      BY <1>1, <1>2
    <3>3. Holds(i, g)'
      BY <3>1, <3>2 DEF Holds, Payload
    <3> QED
      BY <3>2, <3>3
  <2>5. ASSUME NEW g \in grants', NEW h \in grants', g.ptr = h.ptr
        PROVE  g = h
    BY <1>1, <1>3, <1>5, <2>3, <2>5 DEF GrantsHeld, TypeOK
  <2>6. \A g \in grants' : \E i \in 1 .. Len(chain') : Holds(i, g)'
    <3>1. PICK fresh : fresh = [ptr |-> p, size |-> size]
      OBVIOUS
    <3>2. fresh.ptr = p /\ fresh.size = size /\ grants' = grants \union {fresh}
      BY <1>1, <3>1
    <3>3. ASSUME NEW i, i = L
          PROVE  Holds(i, fresh)'
      BY <1>1, <2>2, <3>2, <3>3 DEF Holds, Payload
    <3> QED
      BY <2>1, <2>4, <3>2, <3>3
  <2> QED
    BY <2>5, <2>6 DEF GrantsHeld
<1>12. RefusedNeverFits'
  <2> SUFFICES ASSUME NEW i \in 1 .. Len(chain'), chain'[i].allocated = 0
               PROVE  chain'[i].size < refused
    BY <1>6 DEF RefusedNeverFits
  <2>1. i = L + 1 /\ Len(chain') = L + 1
    BY <1>1, <1>2, <1>3 DEF OnlyLastFree
  <2>2. chain'[i].size = LastBlock.size - size - HeaderSize
    BY <1>1, <1>2, <2>1
  <2>3. LastBlock.size < refused /\ LastBlock.size \in Nat
    BY <1>1, <1>3, <1>4, <1>5 DEF RefusedNeverFits
  <2> QED
    BY <1>1, <1>6, <2>2, <2>3 DEF HeaderSize
<1>13. RefusalIsFinal'
  <2>1. LastBlock.size < refused /\ LastBlock.size \in Nat
    BY <1>1, <1>3, <1>4, <1>5 DEF RefusedNeverFits
  <2>2. size < refused
    BY <1>1, <1>6, <2>1
  <2>3. Rounded(last'.size) = size
    BY <1>1 DEF size
  <2> QED
    BY <1>6, <2>2, <2>3 DEF RefusalIsFinal
<1> QED
  BY <1>7, <1>8, <1>9, <1>10, <1>11, <1>12, <1>13 DEF IInv

LEMMA RefusedKeeps ==
    ASSUME IInv, NEW op \in Allocations, NEW n \in Nat, Refused(op, n),
           overrun' \in BOOLEAN
    PROVE  IInv'
<1>1. Rounded(n) \in Nat
  BY RoundedNat
<1>2. /\ last' = [op |-> op, size |-> n, ptr |-> NULL]
      /\ refused' = IF Rounded(n) < refused THEN Rounded(n) ELSE refused
      /\ chain' = chain /\ grants' = grants /\ Usable(Rounded(n)) = {}
  BY DEF Refused
<1>3. TypeOK'
  <2>1. (last \in [op : Allocations \union {"heap_init"}, size : Nat, ptr : Nat])'
    BY <1>2 DEF NULL
  <2>2. TypeOK
    BY DEF IInv
  <2> QED
    BY <1>1, <1>2, <2>1, <2>2 DEF TypeOK
<1>4. HeapTiled' /\ Ordered' /\ OnlyLastFree' /\ GrantsHeld'
  BY <1>2 DEF IInv, HeapTiled, Ordered, OnlyLastFree, GrantsHeld, Holds
<1>5. RefusedNeverFits'
  <2>1. /\ \A i \in 1 .. Len(chain) : chain[i].size \in Nat
        /\ refused \in Nat
        /\ RefusedNeverFits
    <3>1. TypeOK /\ RefusedNeverFits
      BY DEF IInv
    <3>2. \A i \in 1 .. Len(chain) : chain[i] \in Block
      BY <3>1 DEF TypeOK
    <3> QED
      BY <3>1, <3>2 DEF TypeOK, Block
  <2>2. \A i \in 1 .. Len(chain) :
           chain[i].allocated = 0 => chain[i].size < Rounded(n)
    BY <1>1, <1>2, <2>1 DEF Usable
  <2> QED
    BY <1>2, <2>1, <2>2 DEF RefusedNeverFits
<1>6. RefusalIsFinal'
  BY <1>2 DEF RefusalIsFinal
<1> QED
  BY <1>3, <1>4, <1>5, <1>6 DEF IInv

LEMMA KfreeKeeps ==
    ASSUME IInv, NEW ptr, Kfree(ptr)
    PROVE  IInv'
<1>1. /\ TypeOK /\ HeapTiled /\ Ordered /\ OnlyLastFree /\ GrantsHeld
      /\ RefusedNeverFits /\ RefusalIsFinal
  BY DEF IInv
<1> DEFINE L == Len(chain)
<1>2. L \in Nat /\ L # 0 /\ \A i \in 1 .. L : chain[i] \in Block
  BY <1>1 DEF TypeOK, HeapTiled
<1>3. /\ grants' = {g \in grants : g.ptr # ptr}
      /\ last' = last /\ refused' = refused /\ overrun' = overrun
      /\ chain' = [i \in 1 .. L |-> IF Payload(chain[i]) = ptr
                                     THEN [chain[i] EXCEPT !.allocated = -1]
                                     ELSE chain[i]]
  BY DEF Kfree
<1>4. \A i \in 1 .. L : /\ chain'[i] \in Block
                        /\ chain'[i].addr = chain[i].addr
                        /\ chain'[i].size = chain[i].size
                        /\ chain'[i].allocated = IF Payload(chain[i]) = ptr THEN -1
                                                 ELSE chain[i].allocated
  BY <1>2, <1>3 DEF Block
<1>5. chain' \in Seq(Block) /\ Len(chain') = L
  <2>1. DOMAIN chain' = 1 .. L
    BY <1>3
  <2>2. chain' = [i \in 1 .. L |-> chain'[i]]
    BY <1>3
  <2> QED
    BY <1>2, <1>4, <2>1, <2>2
<1>6. TypeOK'
  BY <1>1, <1>3, <1>5 DEF TypeOK
<1>7. HeapTiled'
  <2>1. BlockEnd(chain'[Len(chain')]) = HeapEnd /\ chain'[1].addr = HeapBase
    BY <1>1, <1>2, <1>4, <1>5 DEF HeapTiled, BlockEnd
  <2>2. \A i \in 1 .. L - 1 : chain'[i + 1].addr = BlockEnd(chain'[i])
    BY <1>1, <1>2, <1>4 DEF HeapTiled, BlockEnd
  <2> QED
    BY <1>2, <1>5, <2>1, <2>2 DEF HeapTiled
<1>8. Ordered'
  BY <1>1, <1>4, <1>5 DEF Ordered, BlockEnd
<1>9. OnlyLastFree'
  BY <1>1, <1>2, <1>4, <1>5 DEF OnlyLastFree
<1>10. GrantsHeld'
  <2>1. \A g \in grants' : \E i \in 1 .. L : Holds(i, g)'
    BY <1>1, <1>3, <1>4 DEF GrantsHeld, Holds, Payload
  <2> QED
    BY <1>1, <1>3, <1>5, <2>1 DEF GrantsHeld
<1>11. RefusedNeverFits'
  BY <1>1, <1>3, <1>4, <1>5 DEF RefusedNeverFits
<1>12. RefusalIsFinal'
  BY <1>1, <1>3 DEF RefusalIsFinal
<1> QED
  BY <1>6, <1>7, <1>8, <1>9, <1>10, <1>11, <1>12 DEF IInv

LEMMA MallocKeeps ==
    ASSUME IInv, NEW op \in Allocations, NEW n \in Nat, Malloc(op, n),
           overrun' \in BOOLEAN
    PROVE  IInv'
BY GrantedKeeps, RefusedKeeps DEF Malloc

(***************************************************************************)
(* What a caller gets: a pointer that no live grant has, for a request     *)
(* below all that were refused; or the null pointer, and nothing changed.  *)
(***************************************************************************)
LEMMA MallocReply ==
    ASSUME IInv, NEW op, NEW n \in Nat, Malloc(op, n)
    PROVE  \/ /\ last'.ptr = NULL /\ grants' = grants
              /\ refused' <= refused
           \/ /\ last'.ptr \in Nat \ {NULL}
              /\ \A g \in grants : g.ptr # last'.ptr
              /\ grants' = grants \union {[ptr |-> last'.ptr, size |-> Rounded(n)]}
              /\ refused' = refused /\ Rounded(n) < refused
<1>1. Rounded(n) \in Nat /\ refused \in Nat
  BY RoundedNat DEF IInv, TypeOK
<1>2. CASE Refused(op, n)
  BY <1>1, <1>2 DEF Refused, NULL
<1>3. CASE Granted(op, n)
  <2> DEFINE p == Payload(LastBlock)
  <2>1. /\ Len(chain) \in Nat \ {0} /\ LastBlock \in Block
        /\ LastBlock.allocated = 0 /\ LastBlock.size >= Rounded(n)
        /\ last' = [op |-> op, size |-> n, ptr |-> p]
        /\ grants' = grants \union {[ptr |-> p, size |-> Rounded(n)]}
    BY <1>3, GrantedChain
  <2>2. p \in Nat \ {NULL}
    BY <2>1 DEF Payload, HeaderSize, Block, NULL
  <2>3. refused' = refused /\ Rounded(n) < refused
    BY <1>1, <1>3, <2>1 DEF Granted, IInv, RefusedNeverFits, LastBlock, Block
  <2>4. \A g \in grants : g.ptr # p
    <3> SUFFICES ASSUME NEW g \in grants, g.ptr = p PROVE FALSE
      OBVIOUS
    <3>1. PICK i \in 1 .. Len(chain) : Holds(i, g)
      BY DEF IInv, GrantsHeld
    <3>2. i # Len(chain)
      BY <2>1, <3>1 DEF Holds, LastBlock
    <3>3. BlockEnd(chain[i]) <= LastBlock.addr /\ chain[i] \in Block
      BY <2>1, <3>2 DEF IInv, Ordered, LastBlock, TypeOK
    <3>. QED
      BY <2>1, <3>1, <3>3 DEF Holds, BlockEnd, Payload, HeaderSize, Block
  <2>. QED
    BY <2>1, <2>2, <2>3, <2>4
<1>. QED
  BY <1>2, <1>3 DEF Malloc

LEMMA NextIInv == IInv /\ [Next]_vars => IInv'
<1> SUFFICES ASSUME IInv, [Next]_vars PROVE IInv'
  OBVIOUS
<1>1. Sizes \subseteq Nat /\ Word \in Nat \ {0} /\ overrun \in BOOLEAN
  BY HeapAssumption DEF IInv, TypeOK
<1>2. ASSUME NEW n \in Sizes, Kmalloc(n) PROVE IInv'
  BY <1>1, <1>2, MallocKeeps DEF Kmalloc, Allocations
<1>3. ASSUME NEW n \in Sizes, Xmalloc(n) PROVE IInv'
  BY <1>1, <1>3, MallocKeeps DEF Xmalloc, Allocations
<1>4. ASSUME NEW n \in Sizes, Strdup(n) PROVE IInv'
  <2>1. n + 1 \in Nat
    BY <1>1
  <2> QED
    BY <1>1, <1>4, <2>1, MallocKeeps DEF Strdup, Allocations
<1>5. ASSUME NEW num \in Sizes, NEW sz \in Sizes, Calloc(num, sz) PROVE IInv'
  <2>1. num * sz \in Nat
    BY <1>1
  <2>2. overrun' \in BOOLEAN
    BY <1>5 DEF Calloc
  <2>3. Malloc("calloc", num * sz)
    BY <1>5 DEF Calloc
  <2> QED
    BY <2>1, <2>2, <2>3, MallocKeeps DEF Allocations
<1>6. ASSUME NEW ptr \in Pointers, Kfree(ptr) PROVE IInv'
  BY <1>6, KfreeKeeps
<1>7. CASE UNCHANGED vars
  BY <1>7 DEF vars, IInv, TypeOK, HeapTiled, Ordered, OnlyLastFree, GrantsHeld,
              Holds, RefusedNeverFits, RefusalIsFinal
<1> QED
  BY <1>2, <1>3, <1>4, <1>5, <1>6, <1>7 DEF Next

(***************************************************************************)
(* No block is larger than the heap, and so none as large as a request     *)
(* that wraps.                                                             *)
(***************************************************************************)
LEMMA BlocksBelowWord ==
    ASSUME IInv', NEW i \in 1 .. Len(chain')
    PROVE  chain'[i].size < Word - 8
<1> DEFINE L == Len(chain')
<1>1. /\ L \in Nat \ {0} /\ chain'[i] \in Block /\ chain'[L] \in Block
      /\ BlockEnd(chain'[L]) = HeapEnd
      /\ i < L => BlockEnd(chain'[i]) <= chain'[L].addr
  BY DEF IInv, TypeOK, HeapTiled, Ordered
<1>2. HeapEnd \in Nat /\ HeapEnd < Word /\ Word \in Nat
  BY HeapAssumption DEF HeapEnd
<1> HIDE DEF L
<1>3. BlockEnd(chain'[i]) <= HeapEnd
  <2>1. i < L \/ i = L
    BY <1>1 DEF L
  <2>. QED
    BY <1>1, <1>2, <2>1 DEF BlockEnd, HeaderSize, Block
<1>. QED
  BY <1>1, <1>2, <1>3 DEF BlockEnd, HeaderSize, Block

(***************************************************************************)
(* What a call returned last stays as it is: a grant takes a block at      *)
(* least as large as the rounded request, and no later step changes the    *)
(* size of a block or frees it.                                            *)
(***************************************************************************)
LEMMA MallocCovers ==
    ASSUME IInv, IInv', NEW op \in Allocations, NEW n \in Nat, Malloc(op, n)
    PROVE  GrantCoversRequest'
<1>1. CASE Granted(op, n)
  <2> DEFINE L == Len(chain)
  <2>1. /\ L \in Nat \ {0} /\ chain' \in Seq(Block)
        /\ LastBlock \in Block
        /\ chain'[L].addr = LastBlock.addr
        /\ chain'[L].allocated = 1
        /\ chain'[L].size >= Rounded(n)
        /\ last' = [op |-> op, size |-> n, ptr |-> Payload(LastBlock)]
        /\ Len(chain') = L \/ Len(chain') = L + 1
    BY <1>1, GrantedChain
  <2>2. L \in 1 .. Len(chain') /\ chain'[L] \in Block
    BY <2>1
  <2>3. Payload(chain'[L]) = last'.ptr /\ last'.size = n
    BY <2>1 DEF Payload
  <2>4. chain'[L].size >= n <=> n <= Word - 8
    <3>1. Rounded(n) \in Nat /\ (n <= Word - 8 => Rounded(n) >= n)
      BY RoundedNat
    <3>2. chain'[L].size \in Nat /\ chain'[L].size < Word - 8 /\ Word \in Nat
      BY <2>2, BlocksBelowWord, HeapAssumption DEF Block
    <3> QED
      BY <2>1, <3>1, <3>2
  <2> QED
    BY <2>1, <2>2, <2>3, <2>4 DEF GrantCoversRequest, Payload
<1>2. CASE Refused(op, n)
  BY <1>2 DEF Refused, GrantCoversRequest
<1> QED
  BY <1>1, <1>2 DEF Malloc

LEMMA KfreeCovers ==
    ASSUME IInv, GrantCoversRequest, NEW ptr, Kfree(ptr)
    PROVE  GrantCoversRequest'
<1> DEFINE L == Len(chain)
<1>1. L \in Nat /\ \A i \in 1 .. L : chain[i] \in Block
  BY DEF IInv, TypeOK
<1>2. /\ last' = last
      /\ chain' = [i \in 1 .. L |-> IF Payload(chain[i]) = ptr
                                     THEN [chain[i] EXCEPT !.allocated = -1]
                                     ELSE chain[i]]
  BY DEF Kfree
<1>3. Len(chain') = L
  BY <1>1, <1>2
<1>4. \A i \in 1 .. L : /\ chain'[i].addr = chain[i].addr
                        /\ chain'[i].size = chain[i].size
                        /\ chain[i].allocated # 0 => chain'[i].allocated # 0
  BY <1>1, <1>2 DEF Block
<1> QED
  BY <1>2, <1>3, <1>4 DEF GrantCoversRequest, Payload

------------------------------------------------------------------------------
(***************************************************************************)
(* Two live grants are apart: each is held by a block of its own, and the  *)
(* blocks lie one behind the other, headers included.                      *)
(***************************************************************************)
LEMMA IInvGrantsApart == IInv => GrantsApart
<1> SUFFICES ASSUME IInv PROVE GrantsApart
  OBVIOUS
<1>1. TypeOK /\ HeapTiled /\ Ordered /\ GrantsHeld
  BY DEF IInv
<1>2. Len(chain) \in Nat /\ \A i \in 1 .. Len(chain) : chain[i] \in Block
  BY <1>1 DEF TypeOK
<1>3. /\ \A i \in 1 .. Len(chain) : chain[i].addr \in Nat /\ chain[i].size \in Nat
      /\ \A g \in grants : g.ptr \in Nat /\ g.size \in Nat
  BY <1>1, <1>2 DEF Block, TypeOK
<1>4. ASSUME NEW g \in grants, NEW i \in 1 .. Len(chain), Holds(i, g)
      PROVE  /\ g.ptr = chain[i].addr + HeaderSize
             /\ g.ptr + g.size <= BlockEnd(chain[i])
             /\ BlockEnd(chain[i]) \in Nat
  BY <1>3, <1>4 DEF Holds, Payload, BlockEnd, HeaderSize
<1>5. ASSUME NEW g \in grants, NEW h \in grants, g # h
      PROVE  Apart(g.ptr, g.size, h.ptr, h.size)
  <2>1. PICK i \in 1 .. Len(chain) : Holds(i, g)
    BY <1>1 DEF GrantsHeld
  <2>2. PICK j \in 1 .. Len(chain) : Holds(j, h)
    BY <1>1 DEF GrantsHeld
  <2>3. i # j
    <3>1. g.ptr # h.ptr
      BY <1>1, <1>5 DEF GrantsHeld
    <3> QED
      BY <2>1, <2>2, <3>1 DEF Holds
  <2>4. BlockEnd(chain[i]) <= chain[j].addr \/ BlockEnd(chain[j]) <= chain[i].addr
    BY <1>1, <1>2, <2>3 DEF Ordered
  <2>5. /\ g.ptr = chain[i].addr + HeaderSize
        /\ g.ptr + g.size <= BlockEnd(chain[i])
        /\ h.ptr = chain[j].addr + HeaderSize
        /\ h.ptr + h.size <= BlockEnd(chain[j])
        /\ BlockEnd(chain[i]) \in Nat /\ BlockEnd(chain[j]) \in Nat
    BY <1>4, <2>1, <2>2
  <2>6. CASE BlockEnd(chain[i]) <= chain[j].addr
    <3>1. g.ptr + g.size <= chain[j].addr
      BY <1>3, <2>5, <2>6
    <3>2. chain[j].addr \in Nat /\ h.ptr = chain[j].addr + 16
      BY <1>3, <2>5 DEF HeaderSize
    <3>3. g.ptr + g.size \in Nat
      BY <1>3
    <3>4. g.ptr + g.size <= h.ptr
      BY <3>1, <3>2, <3>3
    <3> QED
      BY <3>4 DEF Apart
  <2>7. CASE BlockEnd(chain[j]) <= chain[i].addr
    <3>1. h.ptr + h.size <= chain[i].addr
      BY <1>3, <2>5, <2>7
    <3>2. chain[i].addr \in Nat /\ g.ptr = chain[i].addr + 16
      BY <1>3, <2>5 DEF HeaderSize
    <3>3. h.ptr + h.size \in Nat
      BY <1>3
    <3>4. h.ptr + h.size <= g.ptr
      BY <3>1, <3>2, <3>3
    <3> QED
      BY <3>4 DEF Apart
  <2> QED
    BY <2>4, <2>6, <2>7
<1>6. ASSUME NEW g \in grants, NEW j \in 1 .. Len(chain)
      PROVE  Apart(g.ptr, g.size, chain[j].addr, HeaderSize)
  <2>1. PICK i \in 1 .. Len(chain) : Holds(i, g)
    BY <1>1 DEF GrantsHeld
  <2>2. /\ g.ptr = chain[i].addr + HeaderSize
        /\ g.ptr + g.size <= BlockEnd(chain[i])
        /\ BlockEnd(chain[i]) \in Nat
    BY <1>4, <2>1
  <2>3. CASE i < j
    <3>1. BlockEnd(chain[i]) <= chain[j].addr
      BY <1>1, <2>3 DEF Ordered
    <3>2. g.ptr + g.size \in Nat /\ chain[j].addr \in Nat
      BY <1>3
    <3>3. g.ptr + g.size <= chain[j].addr
      BY <2>2, <3>1, <3>2
    <3> QED
      BY <3>3 DEF Apart
  <2>4. CASE j < i
    <3>1. BlockEnd(chain[j]) <= chain[i].addr
      BY <1>1, <2>4 DEF Ordered
    <3>2. /\ BlockEnd(chain[j]) = chain[j].addr + 16 + chain[j].size
          /\ g.ptr = chain[i].addr + 16
      BY <2>2 DEF BlockEnd, HeaderSize
    <3>3. /\ chain[i].addr \in Nat
          /\ chain[j].addr \in Nat /\ chain[j].size \in Nat
      BY <1>3
    <3>4. chain[j].addr + 16 + chain[j].size <= chain[i].addr
      BY <3>1, <3>2
    <3>5. chain[j].addr + 16 <= chain[i].addr + 16
      BY <3>3, <3>4
    <3> QED
      BY <3>2, <3>5 DEF Apart, HeaderSize
  <2>5. CASE i = j
    BY <1>3, <2>2, <2>5 DEF Apart, HeaderSize
  <2> QED
    BY <1>2, <2>3, <2>4, <2>5
<1>7. ASSUME NEW g \in grants
      PROVE  HeapBase <= g.ptr /\ g.ptr + g.size <= HeapEnd
  <2>1. PICK i \in 1 .. Len(chain) : Holds(i, g)
    BY <1>1 DEF GrantsHeld
  <2>2. /\ g.ptr = chain[i].addr + HeaderSize
        /\ g.ptr + g.size <= BlockEnd(chain[i])
        /\ BlockEnd(chain[i]) \in Nat
    BY <1>4, <2>1
  <2>3. HeapBase <= chain[i].addr
    <3>1. CASE i = 1
      BY <1>1, <1>3, <3>1, HeapAssumption DEF HeapTiled
    <3>2. CASE 1 < i
      <4>1. BlockEnd(chain[1]) <= chain[i].addr /\ chain[1].addr = HeapBase
        BY <1>1, <1>2, <3>2 DEF Ordered, HeapTiled
      <4> QED
        BY <1>2, <1>3, <4>1, HeapAssumption DEF BlockEnd, HeaderSize
    <3> QED
      BY <1>2, <3>1, <3>2
  <2>4. BlockEnd(chain[i]) <= HeapEnd
    <3>1. BlockEnd(chain[Len(chain)]) = HeapEnd /\ Len(chain) \in 1 .. Len(chain)
      BY <1>1, <1>2 DEF HeapTiled
    <3>2. CASE i = Len(chain)
      BY <2>2, <3>1, <3>2
    <3>3. CASE i < Len(chain)
      <4>1. BlockEnd(chain[i]) <= chain[Len(chain)].addr
        BY <1>1, <3>1, <3>3 DEF Ordered
      <4>2. /\ BlockEnd(chain[Len(chain)]) =
                   chain[Len(chain)].addr + 16 + chain[Len(chain)].size
            /\ chain[Len(chain)].addr \in Nat /\ chain[Len(chain)].size \in Nat
        BY <1>2, <3>1 DEF BlockEnd, HeaderSize, Block
      <4> QED
        BY <2>2, <3>1, <4>1, <4>2
    <3> QED
      BY <1>2, <3>2, <3>3
  <2> QED
    BY <1>3, <2>2, <2>3, <2>4, HeapAssumption DEF HeaderSize, HeapEnd
<1> QED
  BY <1>5, <1>6, <1>7 DEF GrantsApart

------------------------------------------------------------------------------
(***************************************************************************)
(* The inductive invariant holds in every behaviour of the allocator.      *)
(***************************************************************************)
THEOREM SpecIInv == Spec => []IInv
<1>1. Init => IInv
  BY InitIInv
<1>2. IInv /\ [Next]_vars => IInv'
  BY NextIInv
<1> QED
  BY <1>1, <1>2, PTL DEF Spec

(***************************************************************************)
(* Every variable keeps its type.                                          *)
(***************************************************************************)
THEOREM SpecTypeOK == Spec => []TypeOK
<1>1. IInv => TypeOK
  BY DEF IInv
<1> QED
  BY <1>1, SpecIInv, PTL

(***************************************************************************)
(* The blocks tile the heap, whatever is asked for and given back: the     *)
(* split of fisrt_fit_malloc neither loses bytes nor hands out a header.   *)
(***************************************************************************)
THEOREM SpecHeapTiled == Spec => []HeapTiled
<1>1. IInv => HeapTiled
  BY DEF IInv
<1> QED
  BY <1>1, SpecIInv, PTL

(***************************************************************************)
(* Two live grants never share a byte with one another, with a header or   *)
(* with anything outside the heap.                                         *)
(***************************************************************************)
THEOREM SpecGrantsApart == Spec => []GrantsApart
<1>1. IInv => GrantsApart
  BY IInvGrantsApart
<1> QED
  BY <1>1, SpecIInv, PTL

(***************************************************************************)
(* A request at least as large as one that was refused is never granted.   *)
(***************************************************************************)
THEOREM SpecRefusalIsFinal == Spec => []RefusalIsFinal
<1>1. IInv => RefusalIsFinal
  BY DEF IInv
<1> QED
  BY <1>1, SpecIInv, PTL

(***************************************************************************)
(* There is room behind a pointer returned exactly if what was asked for   *)
(* does not wrap: neither in the rounding nor, for calloc, in the product. *)
(***************************************************************************)
THEOREM SpecGrantCoversRequest == Spec => []GrantCoversRequest
<1>1. Init => GrantCoversRequest
  BY DEF Init, GrantCoversRequest, Allocations
<1>2. IInv /\ GrantCoversRequest /\ [Next]_vars => GrantCoversRequest'
  <2> SUFFICES ASSUME IInv, GrantCoversRequest, [Next]_vars
               PROVE  GrantCoversRequest'
    OBVIOUS
  <2>0. IInv'
    BY NextIInv
  <2>1. Sizes \subseteq Nat /\ Word \in Nat \ {0}
    BY HeapAssumption
  <2>2. ASSUME NEW n \in Sizes, Kmalloc(n) \/ Xmalloc(n) PROVE GrantCoversRequest'
    BY <2>0, <2>1, <2>2, MallocCovers DEF Kmalloc, Xmalloc, Allocations
  <2>3. ASSUME NEW n \in Sizes, Strdup(n) PROVE GrantCoversRequest'
    <3>1. n + 1 \in Nat
      BY <2>1
    <3> QED
      BY <2>0, <2>3, <3>1, MallocCovers DEF Strdup, Allocations
  <2>4. ASSUME NEW num \in Sizes, NEW sz \in Sizes, Calloc(num, sz)
        PROVE  GrantCoversRequest'
    <3>1. num * sz \in Nat
      BY <2>1
    <3>2. Malloc("calloc", num * sz)
      BY <2>4 DEF Calloc
    <3> QED
      BY <2>0, <3>1, <3>2, MallocCovers DEF Allocations
  <2>5. ASSUME NEW ptr \in Pointers, Kfree(ptr) PROVE GrantCoversRequest'
    BY <2>5, KfreeCovers
  <2>6. CASE UNCHANGED vars
    BY <2>6 DEF vars, GrantCoversRequest
  <2> QED
    BY <2>2, <2>3, <2>4, <2>5, <2>6 DEF Next
<1> QED
  BY <1>1, <1>2, SpecIInv, PTL DEF Spec

------------------------------------------------------------------------------
(***************************************************************************)
(* The refinement: what Bump calls its break and its reply.                *)
(***************************************************************************)
Brk == IF LastBlock.allocated = 0 THEN LastBlock.addr ELSE HeapEnd
Reply == [size |-> Rounded(last.size), ptr |-> last.ptr]
Requests == {8 * k : k \in 0 .. Word \div 8}

LEMMA RoundedRequest ==
    ASSUME NEW n \in Nat
    PROVE  Rounded(n) \in Requests
<1> DEFINE up == (n + 7) % Word
<1>1. Word \in Nat \ {0} /\ up \in Nat /\ up < Word
  BY HeapAssumption
<1>2. Rounded(n) = up - (up % 8)
  BY DEF Rounded
<1> HIDE DEF up
<1>3. Rounded(n) = 8 * (up \div 8) /\ up \div 8 \in 0 .. Word \div 8
  BY <1>1, <1>2
<1> QED
  BY <1>3 DEF Requests

LEMMA LastBlockFacts ==
    ASSUME IInv
    PROVE  /\ Len(chain) \in Nat \ {0}
           /\ LastBlock \in Block
           /\ LastBlock.addr \in Nat /\ LastBlock.size \in Nat
           /\ HeapEnd = LastBlock.addr + HeaderSize + LastBlock.size
<1>1. TypeOK /\ HeapTiled
  BY DEF IInv
<1>2. Len(chain) \in Nat \ {0} /\ LastBlock \in Block
  BY <1>1 DEF TypeOK, HeapTiled, LastBlock
<1>3. HeapEnd = LastBlock.addr + HeaderSize + LastBlock.size
  BY <1>1 DEF HeapTiled, BlockEnd, LastBlock
<1> QED
  BY <1>2, <1>3 DEF Block

\* A grant cuts its payload off above the break.
LEMMA GrantedBump ==
    ASSUME IInv, NEW op, NEW n \in Nat, Granted(op, n)
    PROVE  Bump!Grant(Rounded(n))
<1> DEFINE L == Len(chain)
           size == Rounded(n)
           k == LastBlock.addr + HeaderSize + size
<1>1. /\ L \in Nat \ {0} /\ size \in Nat
      /\ LastBlock.allocated = 0
      /\ LastBlock.size >= size
      /\ chain'[L].addr = LastBlock.addr
      /\ chain'[L].allocated = 1
      /\ last' = [op |-> op, size |-> n, ptr |-> Payload(LastBlock)]
  BY GrantedChain
<1>2. \/ ~Splits(LastBlock, size) /\ Len(chain') = L
      \/ /\ Splits(LastBlock, size)
         /\ Len(chain') = L + 1
         /\ chain'[L + 1].addr = k
         /\ chain'[L + 1].allocated = 0
  BY GrantedChain
<1>3. /\ LastBlock.addr \in Nat /\ LastBlock.size \in Nat
      /\ HeapEnd = LastBlock.addr + HeaderSize + LastBlock.size
  BY LastBlockFacts
<1>4. Brk = LastBlock.addr
  BY <1>1 DEF Brk
<1>5. Reply' = [size |-> size, ptr |-> Brk + HeaderSize]
  BY <1>1, <1>4 DEF Reply, Payload
<1> HIDE DEF size
<1>6. Brk + HeaderSize + size <= HeapEnd
  BY <1>1, <1>3, <1>4 DEF HeaderSize
<1>7. Splits(LastBlock, size) <=> HeapEnd - k > HeaderSize
  BY <1>1, <1>3 DEF Splits, HeaderSize
<1>8. Brk' = IF HeapEnd - k > HeaderSize THEN k ELSE HeapEnd
  <2>1. HeapEnd' = HeapEnd
    BY DEF HeapEnd
  <2>2. CASE ~Splits(LastBlock, size)
    <3>1. LastBlock' = chain'[L]
      BY <1>2, <2>2 DEF LastBlock
    <3> QED
      BY <1>1, <1>7, <2>1, <2>2, <3>1 DEF Brk
  <2>3. CASE Splits(LastBlock, size)
    <3>1. LastBlock' = chain'[L + 1]
      BY <1>2, <2>3 DEF LastBlock
    <3> QED
      BY <1>2, <1>7, <2>3, <3>1 DEF Brk
  <2> QED
    BY <2>2, <2>3
<1> QED
  BY <1>4, <1>5, <1>6, <1>8 DEF Bump!Grant, Bump!Fits, Bump!HeapEnd, Brk, Reply,
                                HeapEnd, size

\* A refused request does not fit above the break.
LEMMA RefusedBump ==
    ASSUME IInv, NEW op, NEW n \in Nat, Refused(op, n)
    PROVE  Bump!Refuse(Rounded(n))
<1> DEFINE size == Rounded(n)
<1>1. size \in Nat
  BY RoundedNat
<1>2. /\ last' = [op |-> op, size |-> n, ptr |-> NULL]
      /\ chain' = chain /\ Usable(size) = {}
  BY DEF Refused
<1>3. /\ Len(chain) \in Nat \ {0}
      /\ LastBlock.addr \in Nat /\ LastBlock.size \in Nat
      /\ HeapEnd = LastBlock.addr + HeaderSize + LastBlock.size
  BY LastBlockFacts
<1>4. Reply' = [size |-> size, ptr |-> 0]
  BY <1>2 DEF Reply, NULL
<1>5. Brk' = Brk
  BY <1>2 DEF Brk, LastBlock, HeapEnd
<1> HIDE DEF size
<1>6. ~(Brk + HeaderSize + size <= HeapEnd)
  <2>1. CASE LastBlock.allocated = 0
    <3>1. LastBlock.size < size
      <4>1. Len(chain) \notin Usable(size)
        BY <1>2
      <4>2. ~(LastBlock.size >= size)
        BY <1>3, <2>1, <4>1 DEF Usable, LastBlock
      <4> QED
        BY <1>1, <1>3, <4>2
    <3>2. Brk = LastBlock.addr
      BY <2>1 DEF Brk
    <3> QED
      BY <1>1, <1>3, <3>1, <3>2 DEF HeaderSize
  <2>2. CASE LastBlock.allocated # 0
    <3>1. Brk = HeapEnd
      BY <2>2 DEF Brk
    <3> QED
      BY <1>1, <1>3, <3>1 DEF HeaderSize
  <2> QED
    BY <2>1, <2>2
<1> QED
  BY <1>4, <1>5, <1>6 DEF Bump!Refuse, Bump!Fits, Bump!HeapEnd, Brk, Reply,
                          HeapEnd, size

\* Giving a block back moves neither the break nor the reply.
LEMMA KfreeBump ==
    ASSUME IInv, NEW ptr \in Pointers, Kfree(ptr)
    PROVE  Brk' = Brk /\ Reply' = Reply
<1> DEFINE L == Len(chain)
<1>1. /\ L \in Nat \ {0} /\ LastBlock \in Block
      /\ \A i \in 1 .. L : chain[i] \in Block
      /\ Ordered
  BY LastBlockFacts DEF IInv, TypeOK
<1>2. /\ Len(chain') = L
      /\ chain'[L] = IF Payload(chain[L]) = ptr
                     THEN [chain[L] EXCEPT !.allocated = -1]
                     ELSE chain[L]
      /\ last' = last
  BY <1>1 DEF Kfree
<1>3. CASE LastBlock.allocated = 0
  <2>1. Payload(LastBlock) # ptr
    <3> SUFFICES ASSUME Payload(LastBlock) = ptr PROVE FALSE
      OBVIOUS
    <3>1. LastBlock.addr \in Nat /\ Payload(LastBlock) = LastBlock.addr + 16
      BY <1>1 DEF Block, Payload, HeaderSize
    <3>2. ptr # NULL
      BY <3>1 DEF NULL
    <3>3. PICK i \in 1 .. L : chain[i].allocated # 0 /\ ptr = Payload(chain[i])
      BY <3>2 DEF Pointers
    <3>4. i # L
      BY <1>3, <3>3 DEF LastBlock
    <3>5. BlockEnd(chain[i]) <= LastBlock.addr
      BY <1>1, <3>4 DEF Ordered, LastBlock
    <3>6. chain[i] \in Block
      BY <1>1
    <3>7. ASSUME NEW b \in Block
          PROVE  /\ Payload(b) \in Nat /\ BlockEnd(b) \in Nat
                 /\ Payload(b) <= BlockEnd(b)
      BY DEF BlockEnd, Payload, Block, HeaderSize
    <3>8. /\ Payload(chain[i]) \in Nat /\ BlockEnd(chain[i]) \in Nat
          /\ Payload(chain[i]) <= BlockEnd(chain[i])
      BY <3>6, <3>7
    <3>9. ptr = LastBlock.addr + 16 /\ ptr <= LastBlock.addr
      <4>1. Payload(chain[i]) <= LastBlock.addr
        BY <3>1, <3>5, <3>8
      <4>2. ptr <= LastBlock.addr
        BY <3>3, <4>1
      <4> QED
        BY <3>1, <4>2
    <3> QED
      BY <3>1, <3>9
  <2>2. LastBlock' = LastBlock
    BY <1>2, <2>1 DEF LastBlock
  <2> QED
    BY <1>2, <2>2 DEF Brk, Reply, HeapEnd
<1>4. CASE LastBlock.allocated # 0
  <2>1. chain[L] \in Block /\ chain[L].allocated # 0
    BY <1>1, <1>4 DEF LastBlock
  <2>2. chain'[L].allocated # 0
    BY <1>2, <2>1 DEF Block
  <2>3. LastBlock'.allocated # 0
    BY <1>2, <2>2 DEF LastBlock
  <2> QED
    BY <1>2, <1>4, <2>3 DEF Brk, Reply, HeapEnd
<1> QED
  BY <1>3, <1>4

LEMMA MallocBump ==
    ASSUME IInv, NEW op, NEW n \in Nat, Malloc(op, n)
    PROVE  Bump!Next
<1>1. Rounded(n) \in Requests
  BY RoundedRequest
<1>2. Bump!Grant(Rounded(n)) \/ Bump!Refuse(Rounded(n))
  BY GrantedBump, RefusedBump DEF Malloc
<1> QED
  BY <1>1, <1>2 DEF Bump!Next, Requests

(***************************************************************************)
(* The first-fit allocator is a bump allocator, for every heap and every   *)
(* set of sizes: each grant and each refusal is a step of BumpAllocator    *)
(* and each kfree a stutter.                                               *)
(***************************************************************************)
THEOREM SpecImplementsBump == Spec => ImplementsBump
<1>1. Init => Bump!Init
  <2> SUFFICES ASSUME Init PROVE Bump!Init
    OBVIOUS
  <2> DEFINE b == [addr |-> HeapBase, size |-> HeapSize - HeaderSize, allocated |-> 0]
  <2>1. chain = <<b>>
    BY DEF Init
  <2>2. b.addr = HeapBase /\ b.allocated = 0
    OBVIOUS
  <2> HIDE DEF b
  <2>3. LastBlock = b
    BY <2>1 DEF LastBlock
  <2>4. last.size = 0 /\ last.ptr = 0
    BY DEF Init, NULL
  <2>5. Rounded(0) = 0
    BY HeapAssumption DEF Rounded
  <2> QED
    BY <2>2, <2>3, <2>4, <2>5 DEF Bump!Init
<1>2. IInv /\ [Next]_vars => [Bump!Next]_<<Brk, Reply>>
  <2> SUFFICES ASSUME IInv, [Next]_vars PROVE Bump!Next \/ UNCHANGED <<Brk, Reply>>
    OBVIOUS
  <2>1. Sizes \subseteq Nat /\ Word \in Nat \ {0}
    BY HeapAssumption
  <2>2. ASSUME NEW n \in Sizes, Kmalloc(n) PROVE Bump!Next
    BY <2>1, <2>2, MallocBump DEF Kmalloc
  <2>3. ASSUME NEW n \in Sizes, Xmalloc(n) PROVE Bump!Next
    BY <2>1, <2>3, MallocBump DEF Xmalloc
  <2>4. ASSUME NEW n \in Sizes, Strdup(n) PROVE Bump!Next
    <3>1. n + 1 \in Nat
      BY <2>1
    <3> QED
      BY <2>4, <3>1, MallocBump DEF Strdup
  <2>5. ASSUME NEW num \in Sizes, NEW sz \in Sizes, Calloc(num, sz) PROVE Bump!Next
    <3>1. num * sz \in Nat
      BY <2>1
    <3>2. Malloc("calloc", num * sz)
      BY <2>5 DEF Calloc
    <3> QED
      BY <3>1, <3>2, MallocBump
  <2>6. ASSUME NEW ptr \in Pointers, Kfree(ptr) PROVE UNCHANGED <<Brk, Reply>>
    BY <2>6, KfreeBump
  <2>7. CASE UNCHANGED vars
    BY <2>7 DEF vars, Brk, Reply, LastBlock, HeapEnd
  <2> QED
    BY <2>2, <2>3, <2>4, <2>5, <2>6, <2>7 DEF Next
<1>3. [Bump!Next]_<<Brk, Reply>>
        <=> [Bump!Next]_<<IF LastBlock.allocated = 0 THEN LastBlock.addr ELSE HeapEnd,
                          [size |-> Rounded(last.size), ptr |-> last.ptr]>>
  BY DEF Brk, Reply
<1> QED
  BY <1>1, <1>2, <1>3, SpecIInv, PTL DEF Spec, ImplementsBump, Bump!Spec
==============================================================================
