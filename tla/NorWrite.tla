------------------------------ MODULE NorWrite ------------------------------
(***************************************************************************)
(* Writing, erasing, locking and unlocking the NOR flash: write_to_flash   *)
(* and the flash commands of src/drivers/mtd/mtdcore.c over the Intel      *)
(* command set of cfi_cmdset_0001.c, and the chip below them.              *)
(*                                                                         *)
(* write_to_flash makes a list of steps (unlock, erase or format, write,   *)
(* verify, lock) and takes them one by one; each is a walk over blocks     *)
(* (FlashGeometry) or a sequence of word or buffer programs.  The chip may *)
(* fail at any of them, and the power may go.                              *)
(*                                                                         *)
(* Two things the source leaves open are chosen in Init.  Line 266 of      *)
(* make_steps, steps[temp--] = steps[temp], has no defined order: either   *)
(* it moves the steps up by one, or each step is assigned to itself.  And  *)
(* the chip says whether it is programmed by words or by buffers.          *)
(***************************************************************************)
EXTENDS FlashGeometry

CONSTANTS
    Geometry,       \* the chip found by the probe
    BusWidth,       \* CFIDEV_BUSWIDTH
    WBufSize,       \* bytes of the chip's write buffer
    LongSize,       \* sizeof(unsigned long)
    PartTables,     \* the partition tables: sequences of [offset, size, flag]
    FileSizes,      \* the sizes of the files downloaded into a partition
    Ranges,         \* the [ofs, len] pairs typed in commands
    MaxFaults,      \* bound: chip faults in one operation
    MaxOps          \* bound: operations

Flags == {"MF_LOCKED", "MF_JFFS2"}
Bytes == 0 .. FlashSize(Geometry) - 1
BlockStarts == {b.start : b \in Blocks(Geometry)}

ASSUME NorWriteAssumption ==
    /\ WellFormed(Geometry)
    /\ BusWidth \in Nat \ {0} /\ WBufSize \in Nat \ {0} /\ LongSize \in Nat \ {0}
    /\ WBufSize % BusWidth = 0
    /\ \A b \in Blocks(Geometry) : b.size % WBufSize = 0
    /\ PartTables \subseteq Seq([offset : Bytes, size : Nat \ {0}, flag : SUBSET Flags])
    /\ Ranges \subseteq [ofs : Bytes, len : Nat]
    /\ MaxFaults \in Nat /\ MaxOps \in Nat

VARIABLES
    flash,      \* each byte: "blank" (0xff), "data" (what the running
                \*    operation is to leave there) or "junk" (anything else)
    locked,     \* the lock bit of each block
    parts,      \* the partition table
    shifted,    \* make_steps moves the steps
    buffered,   \* mtd->write is cfi_intelext_write_buffers
    op,         \* the operation, its arguments and the bytes to erase (blk)
    steps,      \* the steps it has yet to take
    pc,         \* "idle", "step" (the switch), "frob", "program" or "hung"
    w,          \* the position of a walk over blocks
    pos,        \* the next byte to program
    result,     \* how the last operation ended
    faults,     \* chip faults during it
    ops         \* operations so far

chip == <<flash, locked>>
machine == <<parts, shifted, buffered>>
vars == <<flash, locked, parts, shifted, buffered, op, steps, pc, w, pos,
          result, faults, ops>>

StepNames ==
    {"LOCKING", "UNLOCKING", "FM_JFFS2", "ERASING", "WRITING", "VERIFYING",
     "ERROR", "DONE"}

BlockOf(a) == CHOOSE b \in Blocks(Geometry) : a \in b.start .. b.start + b.size - 1

Stepping(kind) == pc = "step" /\ Head(steps) = kind

\* How a step ends: the next one, or ERROR in its place.
Succeed == steps' = Tail(steps) /\ pc' = "step" /\ UNCHANGED result
Fail == steps' = <<>> /\ pc' = "idle" /\ result' = "error"

\* The chip does something else than it was told.
Faulty == faults < MaxFaults /\ faults' = faults + 1

Set(bytes, v) == flash' = [a \in Bytes |-> IF a \in bytes THEN v ELSE flash[a]]

Init ==
    /\ flash = [a \in Bytes |-> "junk"]
    /\ \E l \in BOOLEAN : locked = [b \in BlockStarts |-> l]
    /\ parts \in PartTables
    /\ shifted \in BOOLEAN /\ buffered \in BOOLEAN
    /\ op = [kind |-> "none", ofs |-> 0, len |-> 0, flag |-> {}, blk |-> 0]
    /\ steps = <<>> /\ pc = "idle"
    /\ w = FrobStart(Geometry, 0, 0) /\ pos = 0
    /\ result = "none" /\ faults = 0 /\ ops = 0

------------------------------------------------------------------------------
(***************************************************************************)
(* The lists of steps.  Unmoved, the list loses its first step and has an  *)
(* entry nothing was ever assigned to, here any member of the enumeration  *)
(* ("ERROR" stands for the values outside it, which end the same way).     *)
(***************************************************************************)
Body(flag) ==
    <<IF "MF_JFFS2" \in flag THEN "FM_JFFS2" ELSE "ERASING", "WRITING", "VERIFYING">>

\* Mutants: the lists as if the steps never moved, and without the lock.
MakeStepsUnmoved(flag) ==
    IF "MF_LOCKED" \notin flag THEN {Body(flag) \o <<"DONE">>}
    ELSE {<<"UNLOCKING", "WRITING", "VERIFYING", u, "LOCKING", "DONE">> : u \in StepNames}

MakeStepsUnlocked(flag) ==
    IF "MF_LOCKED" \notin flag THEN {Body(flag) \o <<"DONE">>}
    ELSE {<<"UNLOCKING">> \o Body(flag) \o <<"DONE">>}

MakeSteps(flag) ==
    IF "MF_LOCKED" \notin flag THEN {Body(flag) \o <<"DONE">>}
    ELSE IF shifted THEN {<<"UNLOCKING">> \o Body(flag) \o <<"LOCKING", "DONE">>}
    ELSE {<<"UNLOCKING", "WRITING", "VERIFYING", u, "LOCKING", "DONE">> : u \in StepNames}

Start(kind, range, flag) ==
    /\ pc = "idle" /\ ops < MaxOps
    /\ op' = [kind |-> kind, ofs |-> range.ofs, len |-> range.len, flag |-> flag,
              blk |-> IF kind = "erase" THEN range.len
                      ELSE FindEraseSize(Geometry, range.ofs, range.len)]
    /\ steps' \in CASE kind = "write"  -> MakeSteps(flag)
                    [] kind = "erase"  -> {<<"ERASING", "DONE">>}
                    [] kind = "lock"   -> {<<"LOCKING", "DONE">>}
                    [] kind = "unlock" -> {<<"UNLOCKING", "DONE">>}
    /\ pc' = "step"
    \* what was the data of the last operation is not that of this one
    /\ flash' = [a \in Bytes |-> IF flash[a] = "data" THEN "junk" ELSE flash[a]]
    /\ result' = "none" /\ faults' = 0 /\ ops' = ops + 1
    /\ UNCHANGED <<locked, machine, w, pos>>

(***************************************************************************)
(* load flash: a partition and no more than it holds, or a range,          *)
(* unflagged.  The write here is what command_load_flash does with a file  *)
(* that was received; download_file of this commit (load_file.c:42-67)     *)
(* returns 0, with which the command ends at line 172, before the write.   *)
(* Nor are its tests of an uninitialised ret (158, 160), which end it too, *)
(* in the model: it has more behaviours than the command.                  *)
(***************************************************************************)
CommandLoadFlash ==
    \/ \E k \in DOMAIN parts : \E n \in FileSizes \intersect 1 .. parts[k].size :
          Start("write", [ofs |-> parts[k].offset, len |-> n], parts[k].flag)
    \/ \E r \in Ranges : Start("write", r, {})

CommandErase ==
    \/ \E k \in DOMAIN parts :
          Start("erase", [ofs |-> parts[k].offset, len |-> parts[k].size], {})
    \/ \E r \in Ranges : Start("erase", r, {})

CommandLock == \E r \in Ranges : Start("lock", r, {})
CommandUnlock == \E r \in Ranges : Start("unlock", r, {})

------------------------------------------------------------------------------
(***************************************************************************)
(* The range a step over blocks works on.  The erase command takes its own *)
(* length; do_format_jffs2 takes the first partition at or above ofs, in   *)
(* the order of the table.                                                 *)
(***************************************************************************)
FindMtdPartition(ofs) == {k \in DOMAIN parts : parts[k].offset >= ofs}

StepRanges ==
    IF Head(steps) = "FM_JFFS2"
    THEN LET above == FindMtdPartition(op.ofs)
         IN {[ofs |-> parts[k].offset, len |-> parts[k].size] :
                k \in {j \in above : j = Min(above)}}
    ELSE {[ofs |-> op.ofs, len |-> op.blk]}

FrobBegin ==
    /\ pc = "step" /\ Head(steps) \in {"LOCKING", "UNLOCKING", "ERASING", "FM_JFFS2"}
    /\ \/ StepRanges = {} /\ Fail /\ UNCHANGED w
       \/ \E r \in StepRanges :
             IF FrobRefuses(Geometry, r.ofs, r.len)
             THEN Fail /\ UNCHANGED w
             ELSE /\ w' = FrobStart(Geometry, r.ofs, r.len) /\ pc' = "frob"
                  /\ UNCHANGED <<steps, result>>
    /\ UNCHANGED <<chip, machine, op, pos, faults, ops>>

FrobFinish ==
    /\ pc = "frob" /\ FrobEnded(Geometry, w)
    /\ Succeed
    /\ UNCHANGED <<chip, machine, op, w, pos, faults, ops>>

\* The routine returned 0 for the block: on to the next.
OnToNext ==
    w' = FrobNext(Geometry, w) /\ UNCHANGED <<steps, pc, result>>

FrobBytes ==
    FrobBlock(Geometry, w) .. FrobBlock(Geometry, w) + FrobBlockSize(Geometry, w) - 1

(***************************************************************************)
(* do_erase_oneblock reads the status of the chip: a locked block and a    *)
(* failed erase are errors.  A block not ready when the count runs out is  *)
(* none, if the status shows no error yet.                                 *)
(***************************************************************************)
DoEraseOneblock ==
    /\ pc = "frob" /\ ~FrobEnded(Geometry, w)
    /\ Head(steps) \in {"ERASING", "FM_JFFS2"}
    /\ \/ /\ locked[FrobBlock(Geometry, w)]
          /\ Fail
          /\ UNCHANGED <<flash, w, faults>>
       \/ /\ ~locked[FrobBlock(Geometry, w)]
          /\ \/ Set(FrobBytes, "blank") /\ OnToNext /\ UNCHANGED faults
             \/ Set(FrobBytes, "junk") /\ Faulty /\ OnToNext
             \/ Set(FrobBytes, "junk") /\ Faulty /\ Fail /\ UNCHANGED w
    /\ UNCHANGED <<locked, machine, op, pos, ops>>

(***************************************************************************)
(* do_xxlock_oneblock waits for the chip to be ready and does not read its *)
(* error bits.                                                             *)
(***************************************************************************)
DoXxlockOneblock ==
    /\ pc = "frob" /\ ~FrobEnded(Geometry, w)
    /\ Head(steps) \in {"LOCKING", "UNLOCKING"}
    /\ \/ /\ locked' = [locked EXCEPT ![FrobBlock(Geometry, w)] = Head(steps) = "LOCKING"]
          /\ OnToNext
          /\ UNCHANGED faults
       \/ /\ Faulty
          /\ OnToNext \/ (Fail /\ UNCHANGED w)
          /\ UNCHANGED locked
    /\ UNCHANGED <<flash, machine, op, pos, ops>>

------------------------------------------------------------------------------
WriteBegin ==
    /\ Stepping("WRITING")
    /\ pos' = op.ofs /\ pc' = "program"
    /\ UNCHANGED <<chip, machine, op, steps, w, result, faults, ops>>

Left == op.ofs + op.len - pos

\* After n more bytes: the end of the data or of the last chip ends the
\* step, and nor_write calls a short write done if no error came with it.
\* Mutant: the end of the last chip does not.
WrittenPastEnd(n) ==
    IF Left = n
    THEN Succeed /\ UNCHANGED pos
    ELSE pos' = pos + n /\ UNCHANGED <<steps, pc, result>>

Written(n) ==
    IF Left = n \/ pos + n = FlashSize(Geometry)
    THEN Succeed /\ UNCHANGED pos
    ELSE pos' = pos + n /\ UNCHANGED <<steps, pc, result>>

WordBytes == BusWidth - (pos % BusWidth)
ChunkSize ==
    LET size == WBufSize - (pos % WBufSize)
    IN IF size > Left THEN Left - (Left % BusWidth) ELSE size

\* Is the rest worth a write buffer?
UsesBuffer == buffered /\ pos % BusWidth = 0 /\ Left > BusWidth

\* Programming clears bits and sets none.
Burn(bytes) ==
    flash' = [a \in Bytes |-> IF a \in bytes /\ flash[a] = "blank" THEN "data" ELSE flash[a]]

(***************************************************************************)
(* do_write_oneword: the bytes of the data in one word of the bus, the     *)
(* others being written as 0xff, which leaves them alone.  It waits for    *)
(* the chip and does not read its error bits: neither a locked block nor a *)
(* failed program is an error, only a chip that is never ready.            *)
(***************************************************************************)
\* Mutant: it waits for the chip for ever.
DoWriteOnewordForever ==
    /\ pc = "program" /\ ~UsesBuffer
    /\ LET n == Min({Left, WordBytes})
           bytes == pos .. pos + n - 1
       IN \/ Burn(bytes) /\ Written(n) /\ UNCHANGED faults
          \/ Set(bytes, "junk") /\ Faulty /\ pc' = "hung" /\ UNCHANGED <<pos, steps, result>>
    /\ UNCHANGED <<locked, machine, op, w, ops>>

DoWriteOneword ==
    /\ pc = "program" /\ ~UsesBuffer
    /\ LET n == Min({Left, WordBytes})
           bytes == pos .. pos + n - 1
       IN IF locked[BlockOf(pos).start]
          THEN Written(n) /\ UNCHANGED <<flash, faults>>
          ELSE \/ Burn(bytes) /\ Written(n) /\ UNCHANGED faults
               \/ Set(bytes, "junk") /\ Faulty /\ Written(n)
               \/ Set(bytes, "junk") /\ Faulty /\ Fail /\ UNCHANGED pos
    /\ UNCHANGED <<locked, machine, op, w, ops>>

(***************************************************************************)
(* do_write_buffer writes the first word plus one at every word of the     *)
(* chunk ("buf" never advances, and the increment is outside the read), so *)
(* that the first is always wrong and another is right by accident only.   *)
(* Its waits count nothing down, or count an unsigned number below zero: a *)
(* chip that is never ready hangs the loader.                              *)
(***************************************************************************)
DoWriteBuffer ==
    /\ pc = "program" /\ UsesBuffer
    /\ LET later == {pos + k * BusWidth : k \in 1 .. (ChunkSize \div BusWidth) - 1}
           wordsAt(starts) == UNION {a .. a + BusWidth - 1 : a \in starts}
           burnt(right) ==
               flash' = [a \in Bytes |->
                            IF a \notin pos .. pos + ChunkSize - 1 THEN flash[a]
                            ELSE IF a \in wordsAt(right) /\ flash[a] = "blank"
                            THEN "data" ELSE "junk"]
       IN IF locked[BlockOf(pos).start]
          THEN Fail /\ UNCHANGED <<flash, pos, faults>>
          ELSE \E right \in SUBSET later :
                  /\ burnt(right)
                  /\ \/ Written(ChunkSize) /\ UNCHANGED faults
                     \/ /\ Faulty /\ pc' = "hung"
                        /\ UNCHANGED <<pos, steps, result>>
    /\ UNCHANGED <<locked, machine, op, w, ops>>

(***************************************************************************)
(* nor_verify compares the data with the memory at ofs + 0x10000000, where *)
(* this board has no flash: it may find anything.  What is certain is that *)
(* a length that is no multiple of a long fails: in mem_compare the test   *)
(* of the last bytes ends in a semicolon, and the return stands alone.     *)
(***************************************************************************)
NorVerify ==
    /\ Stepping("VERIFYING")
    /\ (op.len % LongSize = 0 /\ Succeed) \/ Fail
    /\ UNCHANGED <<chip, machine, op, w, pos, faults, ops>>

WriteDone ==
    /\ Stepping("DONE")
    /\ steps' = <<>> /\ pc' = "idle" /\ result' = "done"
    /\ UNCHANGED <<chip, machine, op, w, pos, faults, ops>>

WriteError ==
    /\ Stepping("ERROR")
    /\ Fail
    /\ UNCHANGED <<chip, machine, op, w, pos, faults, ops>>

(***************************************************************************)
(* The power goes.  What the chip was working on is lost, and it comes     *)
(* back with its locks as they were, or all set.                           *)
(***************************************************************************)
InProgress ==
    CASE pc = "frob" /\ ~FrobEnded(Geometry, w) /\ Head(steps) \in {"ERASING", "FM_JFFS2"}
            -> IF locked[FrobBlock(Geometry, w)] THEN {} ELSE FrobBytes
      [] pc = "program" /\ ~locked[BlockOf(pos).start]
            -> pos .. pos + Min({Left, IF UsesBuffer THEN ChunkSize ELSE WordBytes}) - 1
      [] OTHER -> {}

PowerCut ==
    /\ pc # "idle"
    /\ UNCHANGED flash \/ Set(InProgress, "junk")
    /\ UNCHANGED locked \/ locked' = [b \in BlockStarts |-> TRUE]
    /\ steps' = <<>> /\ pc' = "idle" /\ result' = "cut"
    /\ UNCHANGED <<machine, op, w, pos, faults, ops>>

Advance ==
    \/ FrobBegin \/ DoEraseOneblock \/ DoXxlockOneblock \/ FrobFinish
    \/ WriteBegin \/ DoWriteOneword \/ DoWriteBuffer
    \/ NorVerify \/ WriteDone \/ WriteError

Next ==
    \/ CommandLoadFlash \/ CommandErase \/ CommandLock \/ CommandUnlock
    \/ Advance
    \/ PowerCut

Spec == Init /\ [][Next]_vars

\* A started operation runs on by itself; nobody has to type or pull a plug.
FairSpec == Spec /\ WF_vars(Advance)

------------------------------------------------------------------------------
TypeOK ==
    /\ flash \in [Bytes -> {"blank", "data", "junk"}]
    /\ locked \in [BlockStarts -> BOOLEAN]
    /\ pc \in {"idle", "step", "frob", "program", "hung"}
    /\ pos \in Bytes
    /\ pc = "frob" /\ ~FrobEnded(Geometry, w) => FrobBlock(Geometry, w) \in BlockStarts
    /\ pc = "step" => Head(steps) \in StepNames
    /\ result \in {"none", "done", "error", "cut"}

\* Its partitions are listed in ascending order and do not overlap.
Ascending ==
    \A j, k \in DOMAIN parts : j < k => parts[j].offset + parts[j].size <= parts[k].offset

(***************************************************************************)
(* The bytes an operation is for: whole blocks, and the rest of its own    *)
(* partition if that is to be formatted.                                   *)
(***************************************************************************)
Reach ==
    IF op.kind = "erase" THEN op.ofs .. op.ofs + op.len - 1
    ELSE CoveredBytes(Geometry, op.ofs, op.len)
         \union (IF "MF_JFFS2" \notin op.flag THEN {}
                 ELSE UNION {parts[k].offset .. parts[k].offset + parts[k].size - 1 :
                                k \in {j \in DOMAIN parts : parts[j].offset = op.ofs}})

Sane ==
    /\ Ascending /\ shifted
    /\ op.kind = "erase" \/ WellPlaced(Geometry, op.ofs, op.len)

(***************************************************************************)
(* A well placed operation changes no byte and no lock outside the blocks  *)
(* it is for, whatever fails in it and wherever it is cut short.           *)
(***************************************************************************)
OutsideUntouched ==
    [][pc # "idle" =>
          /\ \A a \in Bytes : flash'[a] # flash[a] /\ Sane => a \in Reach
          /\ \A b \in BlockStarts :
                locked'[b] # locked[b] /\ Sane /\ result' # "cut" => b \in Reach]_vars

Clean == Sane /\ faults = 0 /\ ~buffered

(***************************************************************************)
(* A write or an erase that ends well, without a fault of the chip, on a   *)
(* chip programmed by words, has left its data everywhere (or blank bytes),*)
(* whatever earlier operations, faults and power cuts left behind.         *)
(***************************************************************************)
CleanDoneStored ==
    result = "done" /\ Clean =>
        /\ op.kind = "write" => \A a \in op.ofs .. op.ofs + op.len - 1 : flash[a] = "data"
        /\ op.kind = "erase" => \A a \in Reach : flash[a] = "blank"

(***************************************************************************)
(* A write to a partition that is kept locked ends well only with all of   *)
(* its blocks locked again.                                                *)
(***************************************************************************)
RelockedOnDone ==
    result = "done" /\ op.kind = "write" /\ "MF_LOCKED" \in op.flag /\ Clean =>
        \A b \in Covering(Geometry, op.ofs, op.len) : locked[b.start]

(***************************************************************************)
(* Programming by words, every operation ends.                             *)
(***************************************************************************)
OpEnds == pc # "idle" /\ ~buffered ~> pc = "idle"

(***************************************************************************)
(* What the comment above write_to_flash says (mtdcore.c, line 338): the   *)
(* stage that verifies the result of the write.  A write that ends well    *)
(* has been verified, hence stored.                                        *)
(***************************************************************************)
VerifiedMeansStored ==
    shifted /\ result = "done" /\ op.kind = "write" =>
        \A a \in (op.ofs .. op.ofs + op.len - 1) \intersect Bytes : flash[a] = "data"
==============================================================================
