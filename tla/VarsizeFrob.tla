---------------------------- MODULE VarsizeFrob ----------------------------
(***************************************************************************)
(* cfi_intelext_varsize_frob, block by block: the loop every erase, lock   *)
(* and unlock of the flash goes through.  The routine called for a block   *)
(* may fail, which ends the loop.  The names differ from those of NorWrite, *)
(* which has the same walk among its steps.                                *)
(***************************************************************************)
EXTENDS FlashGeometry

CONSTANT Geometries     \* the chips the loader may find

ASSUME GeometriesAssumption == \A geo \in Geometries : WellFormed(geo)

VARIABLES
    mtd,                \* the geometry
    frobOfs, frobLen,   \* the arguments ofs and len
    frobPc,             \* "check", "walk", or the result: "refused", "failed", "done"
    frobAt,             \* the position of the walk
    visited             \* the blocks the routine was called for, in order

frobVars == <<mtd, frobOfs, frobLen, frobPc, frobAt, visited>>

FrobInit ==
    /\ mtd \in Geometries
    /\ frobOfs \in 0 .. FlashSize(mtd)
    /\ frobLen \in 0 .. FlashSize(mtd) + 1
    /\ frobPc = "check"
    /\ frobAt = FrobStart(mtd, 0, 0)
    /\ visited = <<>>

FrobCheck ==
    /\ frobPc = "check"
    /\ IF FrobRefuses(mtd, frobOfs, frobLen)
       THEN frobPc' = "refused" /\ UNCHANGED frobAt
       ELSE frobPc' = "walk" /\ frobAt' = FrobStart(mtd, frobOfs, frobLen)
    /\ UNCHANGED <<mtd, frobOfs, frobLen, visited>>

FrobVisit ==
    /\ frobPc = "walk" /\ ~FrobEnded(mtd, frobAt)
    /\ visited' = Append(visited, [start |-> FrobBlock(mtd, frobAt),
                                   size |-> FrobBlockSize(mtd, frobAt)])
    /\ \/ frobAt' = FrobNext(mtd, frobAt) /\ UNCHANGED frobPc
       \/ frobPc' = "failed" /\ UNCHANGED frobAt
    /\ UNCHANGED <<mtd, frobOfs, frobLen>>

FrobReturn ==
    /\ frobPc = "walk" /\ FrobEnded(mtd, frobAt)
    /\ frobPc' = "done"
    /\ UNCHANGED <<mtd, frobOfs, frobLen, frobAt, visited>>

FrobStep == FrobCheck \/ FrobVisit \/ FrobReturn

FrobSpec == FrobInit /\ [][FrobStep]_frobVars

------------------------------------------------------------------------------
FrobTypeOK ==
    /\ frobPc \in {"check", "walk", "refused", "failed", "done"}
    /\ frobAt.chip \in 0 .. mtd.numchips
    /\ frobAt.left \in 0 .. frobLen
    /\ ~FrobEnded(mtd, frobAt) => frobAt.region \in DOMAIN mtd.regions

(***************************************************************************)
(* A range is refused if and only if it leaves the flash or does not start *)
(* and end between two blocks, whichever regions its ends are in.          *)
(***************************************************************************)
RefusedIffUnaligned ==
    frobPc # "check" =>
        (frobPc = "refused" <=> {frobOfs, frobOfs + frobLen} \ Boundaries(mtd) # {})

(***************************************************************************)
(* Every call is for a block of the range, in ascending order and with     *)
(* none left out, and a walk that succeeds has been to all of them: across *)
(* the border of two regions and of two chips.                             *)
(***************************************************************************)
VisitsTheRange ==
    LET range == Covering(mtd, frobOfs, frobLen)
    IN /\ \A i \in DOMAIN visited : visited[i] \in range
       /\ \A i, j \in DOMAIN visited : i < j => visited[i].start < visited[j].start
       /\ \A i \in DOMAIN visited : \A b \in range :
             b.start < visited[i].start => b \in ToSet(visited)
       /\ frobPc = "done" => range \subseteq ToSet(visited)

(***************************************************************************)
(* For a well placed range, find_erase_size gives exactly the blocks that  *)
(* the range touches: write_to_nor erases what it is going to write, and   *)
(* nothing else.                                                           *)
(***************************************************************************)
EraseSizeCovers ==
    WellPlaced(mtd, frobOfs, frobLen) =>
        frobOfs .. frobOfs + FindEraseSize(mtd, frobOfs, frobLen) - 1
            = CoveredBytes(mtd, frobOfs, frobLen)
==============================================================================
