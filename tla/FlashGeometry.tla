--------------------------- MODULE FlashGeometry ---------------------------
(***************************************************************************)
(* The erase blocks of a NOR flash as the MTD layer sees them: the table   *)
(* of erase regions that cfi_intelext_setup builds, the search for a       *)
(* region, the size to erase for a write (find_erase_size of mtdcore.c)    *)
(* and the walk over the blocks of a range (cfi_intelext_varsize_frob of   *)
(* cfi_cmdset_0001.c).                                                     *)
(*                                                                         *)
(* A geometry g is what the probe leaves in mtd_info and cfi_private:      *)
(*   g.regions    sequence of [offset, erasesize, numblocks]               *)
(*   g.chipsize   1 << cfi->chipshift                                      *)
(*   g.numchips   the chips side by side, each with the same regions       *)
(***************************************************************************)
EXTENDS Integers, Sequences, SequencesExt, FiniteSetsExt

\* The running totals of a sequence of numbers: the k-th sums its first k.
Totals(s) ==
    LET total[k \in 0 .. Len(s)] == IF k = 0 THEN 0 ELSE total[k - 1] + s[k]
    IN total

(***************************************************************************)
(* The regions of numchips chips that each have the given [size, number]   *)
(* pairs of erase blocks, as CFI lists them.                               *)
(***************************************************************************)
PairStarts(info) == Totals([k \in DOMAIN info |-> info[k][1] * info[k][2]])

Setup(info, numchips) ==
    LET n == Len(info)
        devsize == PairStarts(info)[n]
        region(j, k) == [offset |-> j * devsize + PairStarts(info)[k - 1],
                         erasesize |-> info[k][1],
                         numblocks |-> info[k][2]]
    IN [regions |-> [r \in 1 .. n * numchips |-> region((r - 1) \div n, ((r - 1) % n) + 1)],
        chipsize |-> devsize,
        numchips |-> numchips]

RegionEnd(r) == r.offset + r.erasesize * r.numblocks

FlashSize(g) == g.chipsize * g.numchips

(***************************************************************************)
(* The loop that skips regions and steps back one: the last region that    *)
(* starts at or below adr.                                                 *)
(***************************************************************************)
RegionAt(g, adr) ==
    Max({k \in DOMAIN g.regions : \A j \in 1 .. k : adr >= g.regions[j].offset})

(***************************************************************************)
(* find_erase_size: starting with the first block of the region that ofs   *)
(* is in (not with the block), as many blocks as len bytes need; 0 if the  *)
(* blocks of the regions up to the one of ofs + len do not suffice.        *)
(***************************************************************************)
\* Where blocks end in regions first to last, from the start of the first.
BlockEnds(g, first, last) ==
    LET region(k) == g.regions[first + k - 1]
        before == Totals([k \in 1 .. last - first + 1 |->
                             region(k).erasesize * region(k).numblocks])
    IN UNION {{before[k - 1] + b * region(k).erasesize : b \in 1 .. region(k).numblocks} :
                 k \in 1 .. last - first + 1}

\* Mutant: "if (len >= erasesize)" in place of "if (len > erasesize)".
FindEraseSizeGreedy(g, ofs, len) ==
    LET enough == {e \in BlockEnds(g, RegionAt(g, ofs), RegionAt(g, ofs + len)) : e > len}
    IN IF enough = {} THEN 0 ELSE Min(enough)

FindEraseSize(g, ofs, len) ==
    LET enough == {e \in BlockEnds(g, RegionAt(g, ofs), RegionAt(g, ofs + len)) : e >= len}
    IN IF enough = {} THEN 0 ELSE Min(enough)

(***************************************************************************)
(* cfi_intelext_varsize_frob: what it refuses (-22), where it starts, and  *)
(* how it moves from one block to the next.  The position w has the        *)
(* address within the chip, the chip, the bytes left and the region.       *)
(***************************************************************************)
\* Mutant: the end of the range is not looked at.
FrobRefusesStart(g, ofs, len) ==
    \/ ofs + len > FlashSize(g)
    \/ ofs % g.regions[RegionAt(g, ofs)].erasesize # 0

FrobRefuses(g, ofs, len) ==
    \/ ofs + len > FlashSize(g)
    \/ ofs % g.regions[RegionAt(g, ofs)].erasesize # 0
    \/ (ofs + len) % g.regions[RegionAt(g, ofs + len)].erasesize # 0

FrobStart(g, ofs, len) ==
    [adr |-> ofs % g.chipsize, chip |-> ofs \div g.chipsize,
     left |-> len, region |-> RegionAt(g, ofs)]

FrobBlock(g, w) == w.chip * g.chipsize + w.adr
FrobBlockSize(g, w) == g.regions[w.region].erasesize

FrobEnded(g, w) == w.left = 0 \/ w.chip >= g.numchips

\* Mutant: the region changes only at the end of a chip.
FrobNextSameRegion(g, w) ==
    LET r == g.regions[w.region]
        adr == w.adr + r.erasesize
        wraps == adr >= g.chipsize
    IN [adr |-> IF wraps THEN 0 ELSE adr,
        chip |-> IF wraps THEN w.chip + 1 ELSE w.chip,
        left |-> w.left - r.erasesize,
        region |-> IF wraps THEN w.region + 1 ELSE w.region]

FrobNext(g, w) ==
    LET r == g.regions[w.region]
        adr == w.adr + r.erasesize
        wraps == adr >= g.chipsize
    IN [adr |-> IF wraps THEN 0 ELSE adr,
        chip |-> IF wraps THEN w.chip + 1 ELSE w.chip,
        left |-> w.left - r.erasesize,
        region |-> IF adr % g.chipsize = RegionEnd(r) % g.chipsize
                   THEN w.region + 1 ELSE w.region]

------------------------------------------------------------------------------
(***************************************************************************)
(* What the chips promise, and a probe that returns relies on: regions     *)
(* follow one another from 0 to the end of the flash, each chip starts     *)
(* with one, and each starts at a multiple of the size of its blocks (or   *)
(* the masks of cfi_intelext_varsize_frob would be wrong).                 *)
(***************************************************************************)
Region == [offset : Nat, erasesize : Nat \ {0}, numblocks : Nat \ {0}]

WellFormed(g) ==
    LET n == Len(g.regions)
    IN /\ g.regions \in Seq(Region) /\ n > 0
       /\ g.chipsize \in Nat \ {0} /\ g.numchips \in Nat \ {0}
       /\ g.regions[1].offset = 0
       /\ \A k \in 1 .. n - 1 : g.regions[k + 1].offset = RegionEnd(g.regions[k])
       /\ RegionEnd(g.regions[n]) = FlashSize(g)
       /\ \A c \in 0 .. g.numchips - 1 :
             \E k \in 1 .. n : g.regions[k].offset = c * g.chipsize
       /\ \A k \in 1 .. n : g.regions[k].offset % g.regions[k].erasesize = 0

(***************************************************************************)
(* Reference: the blocks of the flash as [start, size], from the table.    *)
(***************************************************************************)
Blocks(g) ==
    UNION {{[start |-> r.offset + b * r.erasesize, size |-> r.erasesize] :
               b \in 0 .. r.numblocks - 1} : r \in ToSet(g.regions)}

Boundaries(g) == {b.start : b \in Blocks(g)} \union {FlashSize(g)}

\* The blocks that share a byte with [ofs, ofs + len).
Covering(g, ofs, len) ==
    {b \in Blocks(g) : b.start < ofs + len /\ ofs < b.start + b.size}

CoveredBytes(g, ofs, len) ==
    UNION {b.start .. b.start + b.size - 1 : b \in Covering(g, ofs, len)}

(***************************************************************************)
(* The ranges find_erase_size is right for: they start with a block and    *)
(* stay in its region, or they start with a region.                        *)
(***************************************************************************)
WellPlaced(g, ofs, len) ==
    /\ len > 0 /\ ofs + len <= FlashSize(g)
    /\ ofs \in Boundaries(g)
    /\ LET r == g.regions[RegionAt(g, ofs)]
       IN ofs = r.offset \/ ofs + len <= RegionEnd(r)
==============================================================================
