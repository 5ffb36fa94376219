------------------------------ MODULE PrivData ------------------------------
(***************************************************************************)
(* The private data of the loader: the partition table (mtdpart.c), the    *)
(* parameters and the Linux command line (param.c), three areas of a block *)
(* in RAM that rw.c fills with defaults, saves to the flash and loads from *)
(* it.  src/drivers/mtd/ has all three.                                    *)
(*                                                                         *)
(* The areas lie one behind the other, each with a magic number in front   *)
(* that only load_saved_priv_data looks at.  Nothing ends a table: entries *)
(* 0 .. Cap - 1 lie in its area, entry Cap has its name there and the rest *)
(* of it over the magic and the count of the parameters, entry CmdEntry    *)
(* ends over the magic of the command line, EndEntry is the last to touch  *)
(* the block; and entry -1 lies over the magic and the count of the table  *)
(* itself.                                                                 *)
(*                                                                         *)
(* A save erases the block in the flash, unit by unit, and writes it area  *)
(* by area, as write_to_flash does for a partition without flags (module   *)
(* NorWrite): it does not unlock what it erases.  Here an area is the      *)
(* smallest piece that a fault of the chip or a power cut may tear.  The   *)
(* address that load_saved_priv_data reads is taken to be that of the      *)
(* flash, as on the boards rw.c was made for.                              *)
(***************************************************************************)
EXTENDS Integers, Sequences, SequencesExt, FiniteSetsExt

CONSTANTS
    Names,          \* names of partitions
    Junk,           \* a name nobody types
    Prefix,         \* [n, m] in Prefix: n is m or a beginning of it
    Cap,            \* whole entries in the area of the table
    CmdEntry,       \* the entry that lies over the magic of the command line
    EndEntry,       \* the last entry that begins in the block
    DefaultParts,   \* default_mtd_partitions, by name
    DefaultNbPart,  \* default_nb_part
    ParamNames,     \* the names in default_vivi_parameters, in order
    ParamValues,
    Flags,          \* flags a partition may be added with
    Texts,          \* command lines
    DefaultText,    \* linux_cmd
    EraseUnits,     \* how the areas may lie in the chip's erase blocks
    BufferedUnits,  \* those of chips that are programmed by write buffer
    ParsePrivData,  \* CONFIG_PARSE_PRIV_DATA
    MaxEdits,       \* bound: commands that change the data in RAM or the locks
    MaxSaves,       \* bound: saves
    MaxStarts,      \* bound: times the power comes on
    MaxFaults       \* bound: faults of the chip

WriteOrder == <<"part", "param", "cmd">>
Areas == Range(WriteOrder)

ASSUME PrivDataAssumption ==
    /\ Cap \in Nat \ {0} /\ {CmdEntry, EndEntry} \subseteq Nat
    /\ Cap + 1 < CmdEntry /\ CmdEntry < EndEntry /\ Junk \notin Names
    /\ DefaultParts \in Seq(Names)
    /\ DefaultNbPart \in Len(DefaultParts) .. Cap
    /\ \A u \in EraseUnits : u \in Seq(SUBSET Areas) /\ UNION Range(u) = Areas
    /\ BufferedUnits \subseteq EraseUnits
    /\ ParamNames \in Seq(STRING) /\ Prefix \subseteq (STRING \X STRING)
    /\ 0 \in ParamValues /\ DefaultText \in Texts /\ Flags \subseteq Nat
    /\ ParsePrivData \in BOOLEAN
    /\ {MaxEdits, MaxSaves, MaxStarts, MaxFaults} \subseteq Nat

VARIABLES
    ram,        \* the block in RAM: area -> [state, magic, body]
    rom,        \* the block in the flash, likewise
    of,         \* ghost: the save each area in the flash is of
    up,         \* init_priv_data has been run since the power came on
    pc,         \* "idle", or what a save is at: "erase", "write"
    at,         \* the next unit to erase or area to write
    units,      \* the erase blocks of the chip
    locked,     \* which of them are locked
    sound,      \* ghost: the last save went word by word, and met no locked
                \*   block, fault or power cut
    saved,      \* ghost: the block in RAM when it began, while it is sound
    edits, saves, starts, faults

data == <<ram, up>>
chip == <<units, locked>>
save == <<rom, of, pc, at, saved, sound, saves, faults>>
vars == <<ram, rom, of, up, pc, at, units, locked, saved, sound,
          edits, saves, starts, faults>>

NbParams == Len(ParamNames)
buffered == units \in BufferedUnits

(***************************************************************************)
(* What the areas hold.  A torn area has a body nobody knows.              *)
(***************************************************************************)
DefaultBody ==
    [part  |-> [count |-> DefaultNbPart,
                slots |-> [k \in 0 .. Cap |->
                              IF k < Len(DefaultParts) THEN DefaultParts[k + 1] ELSE Junk]],
     param |-> [count |-> NbParams, values |-> [k \in 1 .. NbParams |-> 0]],
     cmd   |-> DefaultText]

Default(a) == [state |-> "whole", magic |-> TRUE, body |-> DefaultBody[a]]
Torn(a, magic) == [state |-> "torn", magic |-> magic, body |-> DefaultBody[a]]
Blank(a) == [state |-> "blank", magic |-> FALSE, body |-> DefaultBody[a]]

\* What RAM holds when the power comes on.
RamLost == [a \in Areas |-> Torn(a, FALSE)]

Init ==
    /\ ram = RamLost /\ up = FALSE
    /\ rom = [a \in Areas |-> Blank(a)] /\ of = [a \in Areas |-> 0]
    /\ pc = "idle" /\ at = 1
    /\ units \in EraseUnits /\ locked \in {{}, DOMAIN units}
    /\ saved = RamLost /\ sound = FALSE
    /\ edits = 0 /\ saves = 0 /\ starts = 1 /\ faults = 0

------------------------------------------------------------------------------
(***************************************************************************)
(* Defaults.  get_default_mtd_partition copies default_nb_part entries out *)
(* of an array that has fewer: the rest is what lies behind the array.     *)
(***************************************************************************)
GetDefaultMtdPartition(r) ==
    LET slots == [k \in 0 .. Cap |->
                     IF k < DefaultNbPart THEN DefaultBody.part.slots[k]
                     ELSE r.part.body.slots[k]]
    IN [r EXCEPT !.part = [Default("part") EXCEPT !.body.slots = slots]]

GetDefaultParamTlb(r) == [r EXCEPT !.param = Default("param")]
GetDefaultLinuxCmd(r) == [r EXCEPT !.cmd = Default("cmd")]

GetDefaultPrivData(r) ==
    GetDefaultMtdPartition(GetDefaultLinuxCmd(GetDefaultParamTlb(r)))

(***************************************************************************)
(* load_saved_priv_data: which areas it copies before the first wrong      *)
(* magic number.                                                           *)
(***************************************************************************)
\* Mutant: each area is judged by its own magic number.
CopiedEach == {a \in Areas : rom[a].magic}

Copied ==
    IF ~rom.param.magic THEN {}
    ELSE IF ~rom.cmd.magic THEN {"param"}
    ELSE IF ~rom.part.magic THEN {"param", "cmd"}
    ELSE Areas

Load(r) == [a \in Areas |-> IF a \in Copied THEN rom[a] ELSE r[a]]

InitPrivData ==
    /\ pc = "idle" /\ ~up
    /\ up' = TRUE
    /\ ram' = IF ParsePrivData THEN Load(GetDefaultPrivData(ram))
              ELSE GetDefaultPrivData(ram)
    /\ UNCHANGED <<save, chip, edits, starts>>

LoadSavedPrivData ==
    /\ pc = "idle" /\ up
    /\ ram' = Load(ram)
    /\ UNCHANGED <<save, up, chip, edits, starts>>

------------------------------------------------------------------------------
(***************************************************************************)
(* Changes of the block in RAM.                                            *)
(***************************************************************************)
Edit(r) ==
    /\ pc = "idle" /\ up /\ edits < MaxEdits
    /\ ram' = r
    /\ edits' = edits + 1
    /\ UNCHANGED <<save, up, chip, starts>>

ResetMtdPartition == Edit(GetDefaultMtdPartition(ram))

\* param reset: the parameters and the command line.
ResetParamTlb == Edit(GetDefaultLinuxCmd(GetDefaultParamTlb(ram)))

table == ram.part.body
TableKnown == ram.part.state = "whole"

(***************************************************************************)
(* A torn table has a count nobody knows.  An entry added there, or the    *)
(* entries moved up to there, may be any of the bytes of the block.        *)
(***************************************************************************)
Garble ==
    \E hit \in SUBSET Areas : \E lost \in SUBSET hit :
        Edit([a \in Areas |-> IF a \in hit THEN Torn(a, ram[a].magic /\ a \notin lost)
                              ELSE ram[a]])

(***************************************************************************)
(* The parameters whose header a partition was written over: its offset    *)
(* and size are their magic now, its flag their count.                     *)
(***************************************************************************)
Overlaid(r, flag) ==
    [r EXCEPT !.param.magic = FALSE, !.param.body.count = flag]

\* The block after entries further out than that were written.
RunOver(r, entries) ==
    [r EXCEPT !.param = IF entries \cap (Cap + 1 .. CmdEntry - 1) = {} THEN @
                        ELSE Torn("param", @.magic),
              !.cmd = LET magic == @.magic /\ CmdEntry \notin entries
                      IN IF entries \cap (CmdEntry + 1 .. EndEntry) = {}
                         THEN [@ EXCEPT !.magic = magic] ELSE Torn("cmd", magic)]

(***************************************************************************)
(* add_mtd_partition looks neither at the room left nor at a count below   *)
(* zero.                                                                   *)
(***************************************************************************)
\* Mutant: the count goes up before the entry is copied.
AddMtdPartitionEarly(n, flag) ==
    /\ TableKnown /\ table.count \in -1 .. Cap - 1
    /\ Edit(LET r == [ram EXCEPT !.part.body.count = @ + 1,
                                 !.part.body.slots[table.count + 1] = n]
            IN IF table.count = Cap - 1 THEN Overlaid(r, flag) ELSE r)

AddMtdPartition(n, flag) ==
    LET counted == [ram EXCEPT !.part.body.count = @ + 1]
        stored == [counted EXCEPT !.part.body.slots[table.count] = n]
    IN IF ~TableKnown THEN Garble
       ELSE Edit(CASE table.count = -1           -> [counted EXCEPT !.part.magic = FALSE]
                   [] table.count \in 0 .. Cap-1 -> stored
                   [] table.count = Cap          -> Overlaid(stored, flag)
                   [] OTHER                      -> RunOver(counted, {table.count}))

\* The entries in use, and those with the name in the table's own area that
\* the name typed is a beginning of.
InUse == 0 .. table.count - 1
Matches(n) == {k \in InUse : k <= Cap /\ <<n, table.slots[k]>> \in Prefix}

\* Where the search may stop: at the first match, or at the count; further
\* out than entry Cap nobody knows the names.
Found(n) ==
    IF Matches(n) # {} THEN {Min(Matches(n))}
    ELSE (Cap + 1 .. table.count) \union {table.count}

(***************************************************************************)
(* del_mtd_partition moves the entries behind the one found, and the one   *)
(* after the last, one down; without a match only the count goes down.     *)
(* What comes into entry Cap has a name nobody knows, and out of the first *)
(* bytes of the parameters no magic number, and zeros for their count.     *)
(***************************************************************************)
\* Mutant: the entry that was found stays.
DeletedBehind(first, spare) ==
    [ram EXCEPT !.part.body.count = @ - 1,
                !.part.body.slots =
                   [k \in 0 .. Cap |-> IF k \in first + 1 .. Cap - 1 THEN @[k + 1] ELSE @[k]]]

Deleted(first, spare) ==
    LET moved == first .. table.count - 1
        shortened ==
            [ram EXCEPT !.part.body.count = @ - 1,
                        !.part.body.slots =
                           [k \in 0 .. Cap |-> IF k \notin moved THEN @[k]
                                              ELSE IF k = Cap THEN spare ELSE @[k + 1]]]
    IN RunOver(IF Cap \in moved THEN Overlaid(shortened, 0) ELSE shortened, moved)

DelMtdPartition(n) ==
    IF ~TableKnown THEN Garble
    ELSE \E first \in Found(n), spare \in Names \union {Junk} : Edit(Deleted(first, spare))

(***************************************************************************)
(* set_param_value: the first parameter the name is a beginning of, if     *)
(* there is one.  In torn parameters the search may run on into the        *)
(* command line, where no value lies over the magic.                       *)
(***************************************************************************)
GetParam(n) ==
    {k \in 1 .. Min({ram.param.body.count, NbParams}) : <<n, ParamNames[k]>> \in Prefix}

SetParamValue(n, v) ==
    IF ram.param.state = "whole"
    THEN /\ GetParam(n) # {}
         /\ Edit([ram EXCEPT !.param.body.values[Min(GetParam(n))] = v])
    ELSE \E r \in {ram, [ram EXCEPT !.cmd = Torn("cmd", @.magic)]} : Edit(r)

SetLinuxCmdLine(t) == Edit([ram EXCEPT !.cmd.body = t, !.cmd.state = "whole"])

Edits ==
    \/ ResetMtdPartition \/ ResetParamTlb
    \/ \E n \in Names :
          DelMtdPartition(n) \/ \E flag \in Flags : AddMtdPartition(n, flag)
    \/ \E n \in Range(ParamNames), v \in ParamValues : SetParamValue(n, v)
    \/ \E t \in Texts : SetLinuxCmdLine(t)

(***************************************************************************)
(* flash lock and flash unlock, and writes of other images to partitions   *)
(* that are locked again behind them, on any of the blocks.                *)
(***************************************************************************)
LockBlocks ==
    /\ pc = "idle" /\ up /\ edits < MaxEdits
    /\ \E l \in SUBSET DOMAIN units : locked' = l
    /\ edits' = edits + 1
    /\ UNCHANGED <<data, save, units, starts>>

------------------------------------------------------------------------------
(***************************************************************************)
(* save_priv_data_blk: write_to_flash erases what the block lies in, then  *)
(* writes.  Its verify stage tells nothing (NorWrite) and changes nothing, *)
(* and it returns 0 however it went.                                       *)
(***************************************************************************)
Spoilt == sound' = FALSE /\ saved' = RamLost
Faulty == faults < MaxFaults /\ faults' = faults + 1 /\ Spoilt
NoFault == UNCHANGED <<faults, sound, saved>>

SavePrivDataBlk ==
    /\ pc = "idle" /\ up /\ saves < MaxSaves
    /\ pc' = "erase" /\ at' = 1
    /\ saves' = saves + 1
    /\ sound' = ~buffered /\ saved' = IF buffered THEN RamLost ELSE ram
    /\ UNCHANGED <<data, rom, of, chip, edits, starts, faults>>

EndSave == pc' = "idle" /\ at' = 1

\* On to the next unit, then to the writing.  Mutant: one unit is all.
NextUnitOne == pc' = "write" /\ at' = 1

NextUnit ==
    IF at = Len(units) THEN pc' = "write" /\ at' = 1
    ELSE at' = at + 1 /\ UNCHANGED pc

TornUnit == \E m \in [units[at] -> BOOLEAN] :
    rom' = [a \in Areas |-> IF a \in units[at] THEN Torn(a, m[a]) ELSE rom[a]]

\* A locked unit is not erased, and that is the end of the save.
EraseUnit ==
    /\ pc = "erase"
    /\ \/ /\ at \notin locked
          /\ rom' = [a \in Areas |-> IF a \in units[at] THEN Blank(a) ELSE rom[a]]
          /\ NextUnit /\ NoFault
       \/ /\ at \notin locked
          /\ TornUnit /\ Faulty
          /\ NextUnit \/ EndSave
       \/ /\ at \in locked
          /\ EndSave /\ Spoilt /\ UNCHANGED <<rom, faults>>
    /\ UNCHANGED <<data, chip, of, saves, edits, starts>>

\* Mutant: one area too many.
NextAreaPast ==
    IF at > Len(WriteOrder) THEN EndSave ELSE at' = at + 1 /\ UNCHANGED pc

NextArea ==
    IF at = Len(WriteOrder) THEN EndSave ELSE at' = at + 1 /\ UNCHANGED pc

(***************************************************************************)
(* Word by word an area that was erased gets what is saved.  Through the   *)
(* write buffer it gets the first word of each chunk, plus one, over and   *)
(* over.  The chip only clears bits: over what was not erased nothing is   *)
(* written that is known.                                                  *)
(***************************************************************************)
WriteArea ==
    LET a == WriteOrder[at]
        clean == rom[a].state = "blank"
    IN /\ pc = "write"
       /\ \/ /\ ~buffered /\ clean
             /\ rom' = [rom EXCEPT ![a] = ram[a]]
             /\ NoFault /\ NextArea
          \/ /\ buffered \/ ~clean
             /\ \E m \in BOOLEAN : /\ clean => ~m
                                   /\ rom' = [rom EXCEPT ![a] = Torn(a, m)]
             /\ NoFault /\ NextArea
          \/ \E m \in BOOLEAN :
                /\ rom' = [rom EXCEPT ![a] = Torn(a, m)]
                /\ Faulty
                /\ NextArea \/ EndSave
       /\ of' = [of EXCEPT ![a] = saves]
       /\ UNCHANGED <<data, chip, saves, edits, starts>>

(***************************************************************************)
(* The power goes and comes back.  What the chip was working on is torn,   *)
(* if it had begun; its blocks are as they were, or all locked, as on      *)
(* chips that come up so.                                                  *)
(***************************************************************************)
PowerCut ==
    /\ up /\ starts < MaxStarts
    /\ starts' = starts + 1
    /\ ram' = RamLost /\ up' = FALSE
    /\ \/ UNCHANGED rom
       \/ pc = "erase" /\ at \notin locked /\ TornUnit
       \/ pc = "write" /\ \E m \in BOOLEAN :
             rom' = [rom EXCEPT ![WriteOrder[at]] = Torn(WriteOrder[at], m)]
    /\ locked' \in {locked, DOMAIN units}
    /\ EndSave /\ IF pc = "idle" THEN UNCHANGED <<sound, saved>> ELSE Spoilt
    /\ UNCHANGED <<of, units, saves, edits, faults>>

Next ==
    \/ InitPrivData \/ LoadSavedPrivData
    \/ Edits \/ LockBlocks
    \/ SavePrivDataBlk \/ EraseUnit \/ WriteArea
    \/ PowerCut

Spec == Init /\ [][Next]_vars

------------------------------------------------------------------------------
Area(bodies) == [state : {"whole", "torn", "blank"}, magic : BOOLEAN, body : bodies]
Blocks ==
    [part  : Area([count : Int, slots : [0 .. Cap -> Names \union {Junk}]]),
     param : Area([count : Nat, values : [1 .. NbParams -> ParamValues]]),
     cmd   : Area(Texts)]

TypeOK ==
    /\ {ram, rom, saved} \subseteq Blocks
    /\ up \in BOOLEAN /\ pc \in {"idle", "erase", "write"}
    /\ units \in EraseUnits /\ locked \subseteq DOMAIN units
    /\ pc = "erase" => at \in DOMAIN units
    /\ pc = "write" => at \in DOMAIN WriteOrder
    /\ sound \in BOOLEAN
    /\ of \in [Areas -> 0 .. MaxSaves]

Loading == (InitPrivData /\ ParsePrivData) \/ LoadSavedPrivData

(***************************************************************************)
(* After a save that no fault, no power cut and no locked block met, on a  *)
(* chip that is programmed word by word, a load brings back the block that *)
(* was saved, whatever earlier saves, changes and power cuts left in the   *)
(* flash or in RAM: unless a magic number in RAM was lost before the save, *)
(* which load_saved_priv_data sees after it has copied the areas it found  *)
(* right before.                                                           *)
(***************************************************************************)
SavedIsLoaded ==
    [][Loading /\ sound =>
          /\ \A a \in Copied : ram'[a] = saved[a]
          /\ (\A a \in Areas : saved[a].magic) => Copied = Areas]_vars

(***************************************************************************)
(* The partition table is written first and loaded last: if a load would   *)
(* bring it in, the parameters and the command line would come too, and    *)
(* what is not torn of the three is from one save.                         *)
(***************************************************************************)
TableBringsTheRest ==
    pc = "idle" /\ "part" \in Copied =>
        /\ Copied = Areas
        /\ \A a, b \in Areas :
              {rom[a].state, rom[b].state} = {"whole"} => of[a] = of[b]

(***************************************************************************)
(* What ruins a header in RAM, with add_mtd_partition and                  *)
(* del_mtd_partition checking no bounds: while the count of the table is   *)
(* known, its own magic goes only with a count of -1, that of the          *)
(* parameters only with a table as long as its area or longer, and that of *)
(* the command line only with one that reaches over all the parameters.    *)
(***************************************************************************)
HeadersKept ==
    [][up /\ up' /\ TableKnown =>
          \A a \in Areas :
              ram[a].magic /\ ~ram'[a].magic =>
                 CASE a = "part"  -> table.count = -1
                   [] a = "param" -> table.count >= Cap
                   [] a = "cmd"   -> table.count >= CmdEntry]_vars

TableSeq(r) == [k \in 1 .. r.part.body.count |-> r.part.body.slots[k - 1]]

(***************************************************************************)
(* Deleting the name of a partition that no earlier one's name begins with *)
(* removes that partition and keeps the others, in their order, in a table *)
(* whose names all lie in its own area.                                    *)
(***************************************************************************)
DelRemovesNamed ==
    up /\ TableKnown /\ table.count <= Cap + 1 =>
        \A n \in Names, spare \in Names \union {Junk} :
            Matches(n) # {} /\ table.slots[Min(Matches(n))] = n =>
               TableSeq(Deleted(Min(Matches(n)), spare)) =
                  RemoveAt(TableSeq(ram), Min(Matches(n)) + 1)
==============================================================================
