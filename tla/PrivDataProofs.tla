---------------------------- MODULE PrivDataProofs ----------------------------
(***************************************************************************)
(* What is in the flash after a save, for any table size, names, layout of *)
(* the erase blocks and number of faults and power cuts.                   *)
(***************************************************************************)
EXTENDS PrivData, TLAPS, SequenceTheorems, WellFoundedInduction

LEMMA AreasAre == Areas = {"part", "param", "cmd"} /\ Len(WriteOrder) = 3
<1>1. WriteOrder = <<"part", "param", "cmd">> /\ DOMAIN WriteOrder = 1 .. 3
  BY DEF WriteOrder
<1>. QED
  BY <1>1 DEF Areas, Range

LEMMA WriteOrderIs ==
    /\ DOMAIN WriteOrder = 1 .. 3
    /\ WriteOrder[1] = "part" /\ WriteOrder[2] = "param" /\ WriteOrder[3] = "cmd"
    /\ \A a \in Areas : \E k \in 1 .. 3 : a = WriteOrder[k]
  BY AreasAre DEF WriteOrder

LEMMA UnitsAre ==
    ASSUME NEW u \in EraseUnits
    PROVE  /\ Len(u) \in Nat \ {0} /\ DOMAIN u = 1 .. Len(u)
           /\ \A k \in 1 .. Len(u) : u[k] \subseteq Areas
           /\ \A a \in Areas : \E k \in 1 .. Len(u) : a \in u[k]
<1>1. u \in Seq(SUBSET Areas) /\ UNION Range(u) = Areas
  BY PrivDataAssumption
<1>2. Len(u) \in Nat /\ DOMAIN u = 1 .. Len(u) /\ \A k \in 1 .. Len(u) : u[k] \subseteq Areas
  BY <1>1
<1>3. \A a \in Areas : \E k \in 1 .. Len(u) : a \in u[k]
  BY <1>1, <1>2 DEF Range
<1>4. Areas # {}
  BY AreasAre
<1>. QED
  BY <1>2, <1>3, <1>4

(***************************************************************************)
(* The flash during a save.  What is erased is blank and what is written   *)
(* is what is saved, if the save is sound, and that it is only without a   *)
(* write buffer; and sound or not, nothing that is not torn is left of an  *)
(* older save where the present one has been.                              *)
(***************************************************************************)
Shape ==
    /\ DOMAIN rom = Areas /\ DOMAIN of = Areas
    /\ units \in EraseUnits
    /\ pc \in {"idle", "erase", "write"}
    /\ pc = "erase" => at \in 1 .. Len(units)
    /\ pc = "write" => at \in 1 .. Len(WriteOrder)
    /\ pc # "idle" /\ sound => saved = ram

Erased(a) == \E k \in 1 .. Len(units) : k < at /\ a \in units[k]
Written(a) == \E k \in 1 .. Len(WriteOrder) : k < at /\ a = WriteOrder[k]
Whole(a) == rom[a].state = "whole"
OneSave == \A a, b \in Areas : Whole(a) /\ Whole(b) => of[a] = of[b]

SoundInv ==
    sound =>
        /\ ~buffered
        /\ \A a \in Areas :
            /\ pc = "idle" => rom[a] = saved[a]
            /\ pc = "erase" /\ Erased(a) => rom[a] = Blank(a)
            /\ pc = "write" => rom[a] = IF Written(a) THEN saved[a] ELSE Blank(a)

WholeInv ==
    /\ pc \in {"idle", "erase"} => OneSave
    /\ pc = "erase" => \A a \in Areas : Erased(a) => ~Whole(a)
    /\ pc = "write" => \A a \in Areas : Whole(a) => Written(a) /\ of[a] = saves

FlashInv == Shape /\ SoundInv /\ WholeInv

LEMMA InitFlashInv == Init => FlashInv
  BY DEF Init, FlashInv, Shape, SoundInv, WholeInv, OneSave, Whole

(***************************************************************************)
(* Steps that leave the flash and the save alone.                          *)
(***************************************************************************)
LEMMA QuietFlashInv ==
    ASSUME FlashInv, UNCHANGED <<rom, of, pc, at, saved, sound, saves, units>>,
           pc = "idle" \/ UNCHANGED ram
    PROVE  FlashInv'
  BY DEF FlashInv, Shape, SoundInv, WholeInv, OneSave, Whole, Erased, Written, Blank, buffered

LEMMA SaveFlashInv ==
    ASSUME FlashInv, SavePrivDataBlk
    PROVE  FlashInv'
<1>1. Shape /\ pc = "idle" /\ OneSave
  BY DEF FlashInv, SavePrivDataBlk, WholeInv
<1>2. /\ pc' = "erase" /\ at' = 1
      /\ sound' => ~buffered /\ saved' = ram
      /\ UNCHANGED <<ram, rom, of, units>>
  BY DEF SavePrivDataBlk, data, chip
<1>3. Len(units) \in Nat \ {0}
  BY <1>1, UnitsAre DEF Shape
<1>4. Shape'
  BY <1>1, <1>2, <1>3 DEF Shape
<1>5. \A a \in Areas : ~Erased(a)'
  BY <1>2, <1>3 DEF Erased
<1>. QED
  BY <1>1, <1>2, <1>4, <1>5 DEF FlashInv, SoundInv, WholeInv, OneSave, Whole, buffered

(***************************************************************************)
(* The units erased, and the areas written, after one more.                *)
(***************************************************************************)
LEMMA OneMoreErased ==
    ASSUME Shape, pc = "erase", NEW a \in Areas
    PROVE  /\ at' = at + 1 /\ units' = units => (Erased(a)' <=> Erased(a) \/ a \in units[at])
           /\ at = Len(units) => Erased(a) \/ a \in units[at]
<1>1. /\ Len(units) \in Nat \ {0} /\ at \in 1 .. Len(units)
      /\ \E k \in 1 .. Len(units) : a \in units[k]
  BY UnitsAre DEF Shape
<1>. QED
  BY <1>1 DEF Erased

LEMMA TornUnitShape ==
    ASSUME Shape, at \in 1 .. Len(units), TornUnit
    PROVE  /\ DOMAIN rom' = Areas
           /\ \A a \in Areas : IF a \in units[at] THEN ~Whole(a)'
                               ELSE rom'[a] = rom[a]
<1>1. DOMAIN rom = Areas /\ units[at] \subseteq Areas
  BY UnitsAre DEF Shape
<1>2. PICK m \in [units[at] -> BOOLEAN] :
         rom' = [a \in Areas |-> IF a \in units[at] THEN Torn(a, m[a]) ELSE rom[a]]
  BY DEF TornUnit
<1>. QED
  BY <1>1, <1>2 DEF Torn, Whole

LEMMA EraseFlashInv ==
    ASSUME FlashInv, EraseUnit
    PROVE  FlashInv'
<1>1. /\ Shape /\ pc = "erase" /\ at \in 1 .. Len(units)
      /\ Len(units) \in Nat \ {0} /\ units[at] \subseteq Areas
      /\ DOMAIN rom = Areas /\ Len(WriteOrder) = 3
  BY UnitsAre, AreasAre DEF FlashInv, EraseUnit, Shape
<1>2. /\ UNCHANGED <<ram, of, units, saves>>
      /\ sound' => sound /\ saved' = saved
  BY DEF EraseUnit, data, chip, NoFault, Faulty, Spoilt
<1>3. NextUnit =>
         \/ pc' = "erase" /\ at' = at + 1 /\ at < Len(units)
         \/ pc' = "write" /\ at' = 1 /\ at = Len(units)
  BY <1>1 DEF NextUnit
<1>4. EndSave => pc' = "idle" /\ at' = 1
  BY DEF EndSave
<1>5. \A a \in Areas :
         /\ pc' = "erase" => (Erased(a)' <=> Erased(a) \/ a \in units[at])
         /\ pc' = "write" => (Erased(a) \/ a \in units[at]) /\ ~Written(a)'
  BY <1>1, <1>2, <1>3, <1>4, OneMoreErased DEF EraseUnit, Written
<1>6. ASSUME NextUnit \/ EndSave, DOMAIN rom' = Areas
      PROVE  Shape'
  BY <1>1, <1>2, <1>3, <1>4, <1>6 DEF FlashInv, Shape
<1>7. ASSUME DOMAIN rom' = Areas, NextUnit \/ EndSave,
             \A a \in Areas : IF a \in units[at] THEN ~Whole(a)' ELSE rom'[a] = rom[a]
      PROVE  WholeInv'
  <2>1. OneSave /\ \A a \in Areas : Erased(a) => ~Whole(a)
    BY <1>1 DEF FlashInv, WholeInv
  <2>2. \A a \in Areas : Whole(a)' => Whole(a) /\ a \notin units[at]
    BY <1>7 DEF Whole
  <2>3. OneSave'
    BY <1>2, <2>1, <2>2 DEF OneSave
  <2>4. pc' = "erase" => \A a \in Areas : Erased(a)' => ~Whole(a)'
    BY <1>5, <2>1, <2>2
  <2>5. pc' = "write" => \A a \in Areas : ~Whole(a)'
    BY <1>5, <2>1, <2>2
  <2>. QED
    BY <2>3, <2>4, <2>5 DEF WholeInv
<1>8. CASE /\ rom' = [a \in Areas |-> IF a \in units[at] THEN Blank(a) ELSE rom[a]]
           /\ NextUnit /\ NoFault
  <2>1. /\ DOMAIN rom' = Areas
        /\ \A a \in Areas : rom'[a] = IF a \in units[at] THEN Blank(a) ELSE rom[a]
    BY <1>1, <1>8
  <2>2. \A a \in Areas : IF a \in units[at] THEN ~Whole(a)' ELSE rom'[a] = rom[a]
    BY <2>1 DEF Whole, Blank
  <2>3. SoundInv'
    BY <1>1, <1>2, <1>3, <1>5, <1>8, <2>1 DEF FlashInv, SoundInv, NoFault, Blank, buffered
  <2>. QED
    BY <1>6, <1>7, <1>8, <2>1, <2>2, <2>3 DEF FlashInv
<1>9. CASE TornUnit /\ Faulty /\ (NextUnit \/ EndSave)
  BY <1>1, <1>6, <1>7, <1>9, TornUnitShape DEF FlashInv, SoundInv, Faulty, Spoilt
<1>10. CASE EndSave /\ Spoilt /\ UNCHANGED rom
  <2>1. WholeInv'
    BY <1>1, <1>2, <1>4, <1>10 DEF FlashInv, WholeInv, OneSave, Whole
  <2>. QED
    BY <1>1, <1>6, <1>10, <2>1 DEF FlashInv, SoundInv, Spoilt
<1>. QED
  BY <1>8, <1>9, <1>10 DEF EraseUnit

LEMMA WriteFlashInv ==
    ASSUME FlashInv, WriteArea
    PROVE  FlashInv'
<1> DEFINE area == WriteOrder[at]
<1>1. /\ Shape /\ pc = "write" /\ at \in 1 .. 3 /\ area \in Areas
      /\ DOMAIN rom = Areas /\ DOMAIN of = Areas /\ (sound => saved = ram)
      /\ Len(WriteOrder) = 3
  BY WriteOrderIs, AreasAre DEF FlashInv, WriteArea, Shape
<1>2. /\ UNCHANGED <<ram, units, saves>>
      /\ sound' => sound /\ saved' = saved
      /\ of' = [of EXCEPT ![area] = saves]
  BY DEF WriteArea, data, chip, NoFault, Faulty, Spoilt
<1>3. /\ NextArea => \/ pc' = "write" /\ at' = at + 1 /\ at < 3
                     \/ pc' = "idle" /\ at' = 1 /\ at = 3
      /\ EndSave => pc' = "idle" /\ at' = 1
  BY <1>1 DEF NextArea, EndSave
<1>4. \A a \in Areas :
         /\ ~Written(area)
         /\ pc' = "write" => (Written(a)' <=> Written(a) \/ a = area)
         /\ NextArea /\ pc' = "idle" => Written(a) \/ a = area
  BY <1>1, <1>3, WriteOrderIs, AreasAre DEF Written, WriteArea, EndSave
<1>5. ASSUME NextArea \/ EndSave, DOMAIN rom' = Areas
      PROVE  Shape'
  BY <1>1, <1>2, <1>3, <1>5 DEF FlashInv, Shape
<1>6. ASSUME NextArea \/ EndSave, \A a \in Areas : a # area => rom'[a] = rom[a]
      PROVE  WholeInv'
  <2>1. \A a \in Areas : Whole(a) => Written(a) /\ of[a] = saves
    BY <1>1 DEF FlashInv, WholeInv
  <2>2. \A a \in Areas : Whole(a)' => (Written(a) \/ a = area) /\ of'[a] = saves
    BY <1>1, <1>2, <1>6, <2>1 DEF Whole
  <2>. QED
    BY <1>2, <1>3, <1>4, <1>6, <2>2 DEF WholeInv, OneSave
<1>7. sound => ~buffered /\ rom[area].state = "blank"
  BY <1>1, <1>4 DEF FlashInv, SoundInv, Blank
<1>8. CASE rom' = [rom EXCEPT ![area] = ram[area]] /\ NoFault /\ NextArea
  <2>1. SoundInv'
    BY <1>1, <1>2, <1>3, <1>4, <1>8 DEF FlashInv, SoundInv, NoFault, Blank, buffered
  <2>. QED
    BY <1>1, <1>5, <1>6, <1>8, <2>1 DEF FlashInv
<1>9. CASE /\ buffered \/ ~(rom[area].state = "blank")
           /\ \E m \in BOOLEAN : rom' = [rom EXCEPT ![area] = Torn(area, m)]
           /\ NoFault /\ NextArea
  <2>1. ~sound'
    BY <1>7, <1>9 DEF NoFault
  <2>. QED
    BY <1>1, <1>5, <1>6, <1>9, <2>1 DEF FlashInv, SoundInv
<1>10. CASE \E m \in BOOLEAN : /\ rom' = [rom EXCEPT ![area] = Torn(area, m)]
                               /\ Faulty
                               /\ NextArea \/ EndSave
  BY <1>1, <1>5, <1>6, <1>10 DEF FlashInv, SoundInv, Faulty, Spoilt
<1>. QED
  BY <1>8, <1>9, <1>10 DEF WriteArea

LEMMA PowerCutFlashInv ==
    ASSUME FlashInv, PowerCut
    PROVE  FlashInv'
<1>1. /\ pc' = "idle" /\ (sound' => sound /\ pc = "idle" /\ saved' = saved)
      /\ UNCHANGED <<of, units, saves>>
  BY DEF PowerCut, EndSave, Spoilt
<1>2. Shape /\ SoundInv /\ WholeInv
  BY DEF FlashInv
<1>3. CASE UNCHANGED rom
  BY <1>1, <1>2, <1>3 DEF FlashInv, Shape, SoundInv, WholeInv, OneSave, Whole, buffered
<1>4. CASE pc = "erase" /\ TornUnit
  <2>1. /\ DOMAIN rom' = Areas
        /\ \A a \in Areas : Whole(a)' => Whole(a)
    BY <1>2, <1>4, TornUnitShape DEF Shape, Whole
  <2>. QED
    BY <1>1, <1>2, <1>4, <2>1 DEF FlashInv, Shape, SoundInv, WholeInv, OneSave
<1>5. CASE /\ pc = "write"
           /\ \E m \in BOOLEAN :
                 rom' = [rom EXCEPT ![WriteOrder[at]] = Torn(WriteOrder[at], m)]
  <2>1. /\ DOMAIN rom' = Areas
        /\ \A a \in Areas : Whole(a)' => Whole(a)
    BY <1>2, <1>5 DEF Shape, Whole, Torn
  <2>. QED
    BY <1>1, <1>2, <1>5, <2>1 DEF FlashInv, Shape, SoundInv, WholeInv, OneSave
<1>. QED
  BY <1>3, <1>4, <1>5 DEF PowerCut

(***************************************************************************)
(* Every change typed in is an Edit, to some block.                        *)
(***************************************************************************)
LEMMA EditsEdit == Edits => \E r : Edit(r)
<1>1. Garble => \E r : Edit(r)
  BY DEF Garble
<1>2. ASSUME NEW n, NEW flag, AddMtdPartition(n, flag) PROVE \E r : Edit(r)
  BY <1>1, <1>2 DEF AddMtdPartition
<1>3. ASSUME NEW n, DelMtdPartition(n) PROVE \E r : Edit(r)
  BY <1>1, <1>3 DEF DelMtdPartition
<1>4. ASSUME NEW n, NEW v, SetParamValue(n, v) PROVE \E r : Edit(r)
  BY <1>4 DEF SetParamValue
<1>. QED
  BY <1>2, <1>3, <1>4 DEF Edits, ResetMtdPartition, ResetParamTlb, SetLinuxCmdLine

LEMMA NextFlashInv ==
    ASSUME FlashInv, [Next]_vars
    PROVE  FlashInv'
<1>1. CASE InitPrivData \/ LoadSavedPrivData
  BY <1>1, QuietFlashInv DEF InitPrivData, LoadSavedPrivData, save, chip
<1>2. ASSUME NEW r, Edit(r) PROVE FlashInv'
  BY <1>2, QuietFlashInv DEF Edit, save, chip
<1>3. CASE Edits
  BY <1>2, <1>3, EditsEdit
<1>5. CASE LockBlocks
  BY <1>5, QuietFlashInv DEF LockBlocks, save, data
<1>4. CASE UNCHANGED vars
  BY <1>4, QuietFlashInv DEF vars
<1>. QED
  BY <1>1, <1>3, <1>5, <1>4, SaveFlashInv, EraseFlashInv, WriteFlashInv, PowerCutFlashInv DEF Next

THEOREM FlashInvariant == Spec => []FlashInv
  BY InitFlashInv, NextFlashInv, PTL DEF Spec

(***************************************************************************)
(* After a save that nothing disturbed a load brings back what was saved.  *)
(***************************************************************************)
THEOREM LoadBringsBack == Spec => SavedIsLoaded
<1> DEFINE back ==
        /\ \A a \in Copied : ram'[a] = saved[a]
        /\ (\A a \in Areas : saved[a].magic) => Copied = Areas
<1>1. FlashInv /\ [Next]_vars => [Loading /\ sound => back]_vars
  <2> SUFFICES ASSUME FlashInv, Loading, sound
               PROVE  back
    OBVIOUS
  <2>1. \A a \in Areas : rom[a] = saved[a]
    BY DEF Loading, InitPrivData, LoadSavedPrivData, FlashInv, SoundInv
  <2>2. Copied \subseteq Areas
    BY AreasAre DEF Copied
  <2>3. PICK r : ram' = Load(r)
    BY DEF Loading, InitPrivData, LoadSavedPrivData
  <2>4. \A a \in Copied : ram'[a] = saved[a]
    BY <2>1, <2>2, <2>3 DEF Load
  <2>5. (\A a \in Areas : saved[a].magic) => Copied = Areas
    BY <2>1, AreasAre DEF Copied
  <2>. QED
    BY <2>4, <2>5
<1>. QED
  BY <1>1, FlashInvariant, PTL DEF Spec, SavedIsLoaded

(***************************************************************************)
(* Where a load would bring in the table, it brings in the rest, and what  *)
(* is not torn of it is from one save.                                     *)
(***************************************************************************)
THEOREM TableIsLast == Spec => []TableBringsTheRest
<1>1. "part" \in Copied => Copied = Areas
  BY DEF Copied
<1>2. ASSUME FlashInv, pc = "idle", NEW a \in Areas, NEW b \in Areas,
             {rom[a].state, rom[b].state} = {"whole"}
      PROVE  of[a] = of[b]
  BY <1>2 DEF FlashInv, WholeInv, OneSave, Whole
<1>3. FlashInv => TableBringsTheRest
  BY <1>1, <1>2 DEF TableBringsTheRest
<1>. QED
  BY <1>3, FlashInvariant, PTL

------------------------------------------------------------------------------
(***************************************************************************)
(* Types.  The count of the table runs away, at either end; what is in     *)
(* slots that the model keeps stays a name.                                *)
(***************************************************************************)
PartBodies == [count : Int, slots : [0 .. Cap -> Names \union {Junk}]]
ParamBodies == [count : Nat, values : [1 .. NbParams -> ParamValues]]

LEMMA DefaultBodies ==
    /\ DefaultBody.part \in PartBodies
    /\ DefaultBody.param \in ParamBodies
    /\ DefaultBody.cmd \in Texts
<1>1. /\ Cap \in Nat \ {0} /\ DefaultNbPart \in Len(DefaultParts) .. Cap
      /\ Len(DefaultParts) \in Nat /\ NbParams \in Nat
      /\ \A k \in 1 .. Len(DefaultParts) : DefaultParts[k] \in Names
      /\ 0 \in ParamValues /\ DefaultText \in Texts
  BY PrivDataAssumption DEF NbParams
<1>. QED
  BY <1>1 DEF DefaultBody, PartBodies, ParamBodies

LEMMA AreaTypes ==
    ASSUME NEW m \in BOOLEAN
    PROVE  /\ [a \in Areas |-> Default(a)] \in Blocks
           /\ [a \in Areas |-> Torn(a, m)] \in Blocks
           /\ [a \in Areas |-> Blank(a)] \in Blocks
  BY DefaultBodies, AreasAre DEF Blocks, Area, Default, Torn, Blank, PartBodies, ParamBodies

(***************************************************************************)
(* A block is a function on the areas: areas of two blocks make a block.   *)
(***************************************************************************)
LEMMA Mixed ==
    ASSUME NEW r \in Blocks, NEW q \in Blocks, NEW S
    PROVE  [a \in Areas |-> IF a \in S THEN r[a] ELSE q[a]] \in Blocks
  BY AreasAre DEF Blocks

LEMMA DefaultsTyped ==
    ASSUME NEW r \in Blocks
    PROVE  /\ GetDefaultMtdPartition(r) \in Blocks
           /\ GetDefaultParamTlb(r) \in Blocks
           /\ GetDefaultLinuxCmd(r) \in Blocks
  BY DefaultBodies, PrivDataAssumption
     DEF Blocks, Area, Default, PartBodies, ParamBodies,
         GetDefaultMtdPartition, GetDefaultParamTlb, GetDefaultLinuxCmd

LEMMA PartTyped ==
    ASSUME NEW r \in Blocks, NEW body \in PartBodies
    PROVE  [r EXCEPT !.part.body = body] \in Blocks
  BY DEF Blocks, Area, PartBodies

LEMMA ParamTyped ==
    ASSUME NEW r \in Blocks, NEW body \in ParamBodies
    PROVE  [r EXCEPT !.param.magic = FALSE, !.param.body = body] \in Blocks
  BY DEF Blocks, Area, ParamBodies

LEMMA OverlaidTyped ==
    ASSUME NEW r \in Blocks, NEW flag \in Nat
    PROVE  Overlaid(r, flag) \in Blocks
<1> DEFINE body == [r.param.body EXCEPT !.count = flag]
<1>1. body \in ParamBodies
  BY DEF Blocks, Area, ParamBodies
<1>2. Overlaid(r, flag) = [r EXCEPT !.param.magic = FALSE, !.param.body = body]
  BY DEF Overlaid, Blocks, Area
<1>. QED
  BY <1>1, <1>2, ParamTyped

(***************************************************************************)
(* Blocks that an entry too far out, or one nobody knows, was written to.  *)
(***************************************************************************)
LEMMA TornTyped ==
    ASSUME NEW r \in Blocks, NEW a \in Areas, NEW m \in BOOLEAN
    PROVE  [r EXCEPT ![a] = Torn(a, m)] \in Blocks
  BY AreasAre, DefaultBodies DEF Torn, Blocks, Area, PartBodies, ParamBodies

LEMMA MagicTyped ==
    ASSUME NEW r \in Blocks
    PROVE  /\ \A a \in Areas : r[a].magic \in BOOLEAN
           /\ \A m \in BOOLEAN : [r EXCEPT !.cmd.magic = m] \in Blocks
  BY AreasAre DEF Blocks, Area

LEMMA RunOverTyped ==
    ASSUME NEW r \in Blocks, NEW entries
    PROVE  RunOver(r, entries) \in Blocks
<1> DEFINE param == IF entries \cap (Cap + 1 .. CmdEntry - 1) = {} THEN r.param
                    ELSE Torn("param", r.param.magic)
           magic == r.cmd.magic /\ CmdEntry \notin entries
           cmd == IF entries \cap (CmdEntry + 1 .. EndEntry) = {}
                  THEN [r.cmd EXCEPT !.magic = magic] ELSE Torn("cmd", magic)
<1>1. /\ r.param.magic \in BOOLEAN /\ magic \in BOOLEAN
      /\ "param" \in Areas /\ "cmd" \in Areas
  BY MagicTyped, AreasAre
<1>2. param \in Area(ParamBodies)
  BY <1>1, DefaultBodies DEF Blocks, Area, ParamBodies, Torn
<1>3. cmd \in Area(Texts)
  BY <1>1, DefaultBodies DEF Blocks, Area, Torn
<1>4. RunOver(r, entries) = [r EXCEPT !.param = param, !.cmd = cmd]
  BY DEF RunOver, Blocks
<1> HIDE DEF param, cmd
<1>. QED
  BY <1>2, <1>3, <1>4 DEF Blocks, ParamBodies

LEMMA GarbleTyped ==
    ASSUME ram \in Blocks, Garble
    PROVE  ram' \in Blocks
<1>1. PICK hit \in SUBSET Areas : \E lost \in SUBSET hit :
         ram' = [a \in Areas |-> IF a \in hit THEN Torn(a, ram[a].magic /\ a \notin lost)
                                 ELSE ram[a]]
  BY DEF Garble, Edit
<1>2. PICK lost \in SUBSET hit :
         ram' = [a \in Areas |-> IF a \in hit THEN Torn(a, ram[a].magic /\ a \notin lost)
                                 ELSE ram[a]]
  BY <1>1
<1> DEFINE new(a) == IF a \in hit THEN Torn(a, ram[a].magic /\ a \notin lost) ELSE ram[a]
<1>3. ram' = [a \in Areas |-> new(a)]
  BY <1>2
<1>4. \A a \in Areas : (ram[a].magic /\ a \notin lost) \in BOOLEAN
  BY MagicTyped
<1>5. /\ new("part") \in Area(PartBodies) /\ new("param") \in Area(ParamBodies)
      /\ new("cmd") \in Area(Texts)
  BY <1>4, AreasAre, DefaultBodies DEF Blocks, Area, PartBodies, ParamBodies, Torn
<1> HIDE DEF new
<1>. QED
  BY <1>3, <1>5, AreasAre DEF Blocks, PartBodies, ParamBodies

LEMMA CountedTyped ==
    ASSUME ram \in Blocks
    PROVE  [ram EXCEPT !.part.body.count = @ + 1] \in Blocks
<1> DEFINE body == [table EXCEPT !.count = @ + 1]
<1>1. table \in PartBodies
  BY DEF table, Blocks, Area, PartBodies
<1>2. body \in PartBodies
  BY <1>1 DEF PartBodies
<1>3. [ram EXCEPT !.part.body.count = @ + 1] = [ram EXCEPT !.part.body = body]
  BY DEF table, Blocks, Area
<1>. QED
  BY <1>2, <1>3, PartTyped

LEMMA AddTyped ==
    ASSUME ram \in Blocks, NEW n \in Names, NEW flag \in Flags, AddMtdPartition(n, flag)
    PROVE  ram' \in Blocks
<1> DEFINE counted == [ram EXCEPT !.part.body.count = @ + 1]
           stored == [counted EXCEPT !.part.body.slots[table.count] = n]
<1>1. Cap \in Nat /\ flag \in Nat
  BY PrivDataAssumption
<1>2. table.count \in Int
  BY DEF table, Blocks, Area
<1>3. counted \in Blocks
  BY CountedTyped
<1>4. stored \in Blocks
  BY <1>3 DEF Blocks, Area
<1>5. [counted EXCEPT !.part.magic = FALSE] \in Blocks
  BY <1>3 DEF Blocks, Area
<1>6. Overlaid(stored, flag) \in Blocks
  BY <1>1, <1>4, OverlaidTyped
<1>7. RunOver(counted, {table.count}) \in Blocks
  BY <1>3, RunOverTyped
<1>8. CASE TableKnown
  <2>1. Edit(CASE table.count = -1           -> [counted EXCEPT !.part.magic = FALSE]
               [] table.count \in 0 .. Cap-1 -> stored
               [] table.count = Cap          -> Overlaid(stored, flag)
               [] OTHER                      -> RunOver(counted, {table.count}))
    BY <1>8 DEF AddMtdPartition
  <2>2. ram' \in {counted, [counted EXCEPT !.part.magic = FALSE], stored,
                  Overlaid(stored, flag), RunOver(counted, {table.count})}
    <3> HIDE DEF counted, stored
    <3>. QED
      BY <2>1 DEF Edit
  <2>. QED
    BY <1>3, <1>4, <1>5, <1>6, <1>7, <2>2
<1>9. CASE ~TableKnown
  BY <1>9, GarbleTyped DEF AddMtdPartition
<1>. QED
  BY <1>8, <1>9

(***************************************************************************)
(* The least element of a set of numbers, as the first match is.           *)
(***************************************************************************)
LEMMA LeastOf ==
    ASSUME NEW S \in SUBSET Nat, S # {}
    PROVE  Min(S) \in S /\ \A y \in S : Min(S) <= y
<1> DEFINE R == {ss \in Nat \X Nat : ss[1] < ss[2]}
<1>0. IsWellFoundedOn(R, Nat)
  BY NatLessThanWellFounded DEF OpToRel
<1>1. PICK x \in S : \A y \in S : <<y, x>> \notin R
  <2> HIDE DEF R
  <2>. QED
    BY <1>0, WFMin
<1>2. \A y \in S : x <= y
  <2> SUFFICES ASSUME NEW y \in S, y < x PROVE FALSE
    OBVIOUS
  <2>1. <<y, x>> \in Nat \X Nat /\ <<y, x>>[1] = y /\ <<y, x>>[2] = x
    OBVIOUS
  <2>2. <<y, x>> \in R
    BY <2>1
  <2>. QED
    BY <1>1, <2>2
<1>. QED
  BY <1>2 DEF Min

\* The table after a deletion, and the block before what lies behind is run over.
Shifted(first, spare) ==
    [k \in 0 .. Cap |-> IF k \notin first .. table.count - 1 THEN table.slots[k]
                       ELSE IF k = Cap THEN spare ELSE table.slots[k + 1]]
Shortened(first, spare) ==
    LET slots == Shifted(first, spare)
    IN [ram EXCEPT !.part.body = [table EXCEPT !.count = @ - 1, !.slots = slots]]
Over(first, spare) ==
    IF Cap \in first .. table.count - 1 THEN Overlaid(Shortened(first, spare), 0)
    ELSE Shortened(first, spare)

LEMMA DeletedIs ==
    ASSUME ram \in Blocks, NEW first \in Int, NEW spare \in Names \union {Junk}
    PROVE  /\ Over(first, spare) \in Blocks
           /\ Over(first, spare).part = Shortened(first, spare).part
           /\ Over(first, spare).part.magic = ram.part.magic
           /\ Over(first, spare).part.body.count = table.count - 1
           /\ Over(first, spare).part.body.slots = Shifted(first, spare)
           /\ Over(first, spare).cmd = ram.cmd
           /\ Cap \notin first .. table.count - 1 => Over(first, spare).param = ram.param
           /\ Deleted(first, spare) = RunOver(Over(first, spare), first .. table.count - 1)
<1>1. Cap \in Nat /\ table.count \in Int
      /\ table.slots \in [0 .. Cap -> Names \union {Junk}]
  BY PrivDataAssumption DEF table, Blocks, Area
<1>2. Shifted(first, spare) \in [0 .. Cap -> Names \union {Junk}]
  BY <1>1 DEF Shifted
<1>3. [table EXCEPT !.count = @ - 1, !.slots = Shifted(first, spare)] \in PartBodies
  <2>1. table \in PartBodies
    BY DEF table, Blocks, Area, PartBodies
  <2>2. table.count - 1 \in Int
    BY <1>1
  <2>3. \A t \in PartBodies, c \in Int, f \in [0 .. Cap -> Names \union {Junk}] :
           [t EXCEPT !.count = c, !.slots = f] \in PartBodies
    BY DEF PartBodies
  <2>. QED
    BY <1>2, <2>1, <2>2, <2>3
<1>4. Shortened(first, spare) \in Blocks
  BY <1>3, PartTyped DEF Shortened
<1>5. /\ Shortened(first, spare).part.magic = ram.part.magic
      /\ Shortened(first, spare).part.body.count = table.count - 1
      /\ Shortened(first, spare).part.body.slots = Shifted(first, spare)
      /\ Shortened(first, spare).param = ram.param
      /\ Shortened(first, spare).cmd = ram.cmd
  BY DEF Shortened, table, Blocks, Area
<1>6. Overlaid(Shortened(first, spare), 0) \in Blocks
  BY <1>4, OverlaidTyped
<1>7. /\ Over(first, spare) \in Blocks
      /\ Over(first, spare).part = Shortened(first, spare).part
      /\ Over(first, spare).cmd = ram.cmd
      /\ Cap \notin first .. table.count - 1 => Over(first, spare).param = ram.param
  BY <1>4, <1>5, <1>6 DEF Over, Overlaid, Blocks
<1>8. [ram EXCEPT !.part.body.count = @ - 1, !.part.body.slots = Shifted(first, spare)]
         = Shortened(first, spare)
  BY DEF Shortened, table, Blocks, Area
<1>9. Deleted(first, spare) = RunOver(Over(first, spare), first .. table.count - 1)
  <2>1. Deleted(first, spare) =
           LET shortened == [ram EXCEPT !.part.body.count = @ - 1,
                                        !.part.body.slots = Shifted(first, spare)]
               moved == first .. table.count - 1
           IN RunOver(IF Cap \in moved THEN Overlaid(shortened, 0) ELSE shortened, moved)
    BY DEF Deleted, Shifted, table
  <2>. QED
    BY <1>8, <2>1 DEF Over
<1>. QED
  BY <1>5, <1>7, <1>9

LEMMA FoundIs ==
    ASSUME ram \in Blocks, NEW n
    PROVE  /\ Found(n) \subseteq Int
           /\ Matches(n) # {} =>
                 /\ Found(n) = {Min(Matches(n))}
                 /\ Min(Matches(n)) \in InUse /\ Min(Matches(n)) <= Cap
<1>1. Cap \in Nat /\ table.count \in Int
  BY PrivDataAssumption DEF table, Blocks, Area
<1>2. Matches(n) \subseteq InUse /\ InUse \subseteq Nat
  BY <1>1 DEF Matches, InUse
<1>3. Matches(n) # {} => Min(Matches(n)) \in Matches(n)
  BY <1>2, LeastOf
<1>4. \A k \in Matches(n) : k \in InUse /\ k <= Cap
  BY DEF Matches
<1>5. Matches(n) = {} => Found(n) \subseteq Int
  BY <1>1 DEF Found
<1>6. Matches(n) # {} => Found(n) = {Min(Matches(n))}
  BY DEF Found
<1> DEFINE k == Min(Matches(n))
<1>7. Matches(n) # {} => k \in InUse /\ k <= Cap /\ k \in Int
  <2> HIDE DEF k
  <2>1. Matches(n) # {} => k \in Matches(n)
    BY <1>3 DEF k
  <2>2. k \in Matches(n) => k \in InUse /\ k <= Cap
    BY ONLY <1>4, Zenon
  <2>3. k \in InUse => k \in Int
    BY <1>2
  <2>. QED
    BY ONLY <2>1, <2>2, <2>3
<1> HIDE DEF k
<1>8. Matches(n) # {} => Found(n) = {k}
  BY <1>6 DEF k
<1>9. Found(n) \subseteq Int
  BY <1>5, <1>7, <1>8
<1>. QED
  BY <1>7, <1>8, <1>9 DEF k

LEMMA DelTyped ==
    ASSUME ram \in Blocks, NEW n \in Names, DelMtdPartition(n)
    PROVE  ram' \in Blocks
<1>1. CASE TableKnown
  <2>1. PICK first \in Found(n), spare \in Names \union {Junk} : Edit(Deleted(first, spare))
    BY <1>1 DEF DelMtdPartition
  <2>. QED
    <3>1. first \in Int
      BY FoundIs
    <3>2. Deleted(first, spare) \in Blocks
      BY <3>1, DeletedIs, RunOverTyped
    <3>. QED
      BY <2>1, <3>2 DEF Edit
<1>2. CASE ~TableKnown
  BY <1>2, GarbleTyped DEF DelMtdPartition
<1>. QED
  BY <1>1, <1>2

LEMMA SetTyped ==
    ASSUME ram \in Blocks, NEW n, NEW v \in ParamValues, SetParamValue(n, v)
    PROVE  ram' \in Blocks
<1>1. CASE ram.param.state = "whole"
  <2>1. ram' = [ram EXCEPT !.param.body.values[Min(GetParam(n))] = v]
    BY <1>1 DEF SetParamValue, Edit
  <2>. QED
    BY <2>1 DEF Blocks, Area
<1>2. CASE ram.param.state # "whole"
  <2>1. ram' \in {ram, [ram EXCEPT !.cmd = Torn("cmd", ram.cmd.magic)]}
    BY <1>2 DEF SetParamValue, Edit, Blocks
  <2>. QED
    BY <2>1, TornTyped, MagicTyped, AreasAre
<1>. QED
  BY <1>1, <1>2

LEMMA EditsTyped ==
    ASSUME ram \in Blocks, Edits
    PROVE  ram' \in Blocks
<1>1. CASE ResetMtdPartition \/ ResetParamTlb
  BY <1>1, DefaultsTyped DEF ResetMtdPartition, ResetParamTlb, Edit
<1>2. CASE \E n \in Names : DelMtdPartition(n) \/ \E flag \in Flags : AddMtdPartition(n, flag)
  BY <1>2, AddTyped, DelTyped
<1>3. ASSUME NEW n, NEW v \in ParamValues, SetParamValue(n, v) PROVE ram' \in Blocks
  BY <1>3, SetTyped
<1>4. ASSUME NEW t \in Texts, SetLinuxCmdLine(t) PROVE ram' \in Blocks
  BY <1>4 DEF SetLinuxCmdLine, Edit, Blocks, Area
<1>. QED
  BY <1>1, <1>2, <1>3, <1>4 DEF Edits

LEMMA LoadTyped ==
    ASSUME rom \in Blocks, NEW r \in Blocks
    PROVE  Load(r) \in Blocks
  BY Mixed DEF Load

LEMMA TornUnitTyped ==
    ASSUME rom \in Blocks, units \in EraseUnits, at \in 1 .. Len(units), TornUnit
    PROVE  rom' \in Blocks
<1>1. units[at] \subseteq Areas
  BY UnitsAre
<1>2. \A a \in Areas, m \in BOOLEAN : Torn(a, m) \in Area({DefaultBody[a]})
  BY DEF Torn, Area
<1>. QED
  BY <1>1, AreasAre, DefaultBodies DEF TornUnit, Torn, Blocks, Area, PartBodies, ParamBodies

LEMMA WriteTyped ==
    ASSUME rom \in Blocks, ram \in Blocks, NEW a \in Areas, NEW m \in BOOLEAN
    PROVE  /\ [rom EXCEPT ![a] = ram[a]] \in Blocks
           /\ [rom EXCEPT ![a] = Torn(a, m)] \in Blocks
           /\ rom[a].magic \in BOOLEAN
  BY AreasAre, DefaultBodies DEF Torn, Blocks, Area, PartBodies, ParamBodies

(***************************************************************************)
(* The types, with the shape that the flash keeps.                         *)
(***************************************************************************)
TInv == TypeOK /\ saves \in 0 .. MaxSaves

LEMMA InitTInv == Init => TInv
<1> SUFFICES ASSUME Init PROVE TInv
  OBVIOUS
<1>1. {ram, rom, saved} \subseteq Blocks
  BY AreaTypes DEF Init, RamLost
<1>2. of \in [Areas -> 0 .. MaxSaves] /\ saves \in 0 .. MaxSaves
  BY PrivDataAssumption DEF Init
<1>. QED
  BY <1>1, <1>2 DEF Init, TInv, TypeOK

LEMMA RamTyped ==
    ASSUME TInv, Next
    PROVE  ram' \in Blocks
<1>1. ram \in Blocks /\ rom \in Blocks
  BY DEF TInv, TypeOK
<1>2. GetDefaultPrivData(ram) \in Blocks
  BY <1>1, DefaultsTyped DEF GetDefaultPrivData
<1>3. CASE InitPrivData \/ LoadSavedPrivData
  BY <1>1, <1>2, <1>3, LoadTyped DEF InitPrivData, LoadSavedPrivData
<1>4. CASE Edits
  BY <1>1, <1>4, EditsTyped
<1>5. CASE SavePrivDataBlk \/ EraseUnit \/ WriteArea \/ LockBlocks
  BY <1>1, <1>5 DEF SavePrivDataBlk, EraseUnit, WriteArea, LockBlocks, data
<1>6. CASE PowerCut
  BY <1>6, AreaTypes DEF PowerCut, RamLost
<1>. QED
  BY <1>3, <1>4, <1>5, <1>6 DEF Next

LEMMA RomTyped ==
    ASSUME TInv, Next
    PROVE  rom' \in Blocks
<1>1. ram \in Blocks /\ rom \in Blocks /\ units \in EraseUnits
  BY DEF TInv, TypeOK
<1>2. CASE UNCHANGED rom
  BY <1>1, <1>2
<1>3. CASE EraseUnit
  <2>1. at \in 1 .. Len(units)
    BY <1>1, <1>3, UnitsAre DEF EraseUnit, TInv, TypeOK
  <2>2. CASE rom' = [a \in Areas |-> IF a \in units[at] THEN Blank(a) ELSE rom[a]]
    BY <1>1, <2>2, AreaTypes, Mixed, AreasAre DEF Blocks
  <2>3. CASE TornUnit
    BY <1>1, <2>1, <2>3, TornUnitTyped
  <2>4. \/ rom' = [a \in Areas |-> IF a \in units[at] THEN Blank(a) ELSE rom[a]]
        \/ TornUnit \/ UNCHANGED rom
    BY <1>3 DEF EraseUnit
  <2>. QED
    BY <1>2, <2>2, <2>3, <2>4
<1>4. CASE WriteArea
  <2>1. WriteOrder[at] \in Areas
    BY <1>4, WriteOrderIs, AreasAre DEF WriteArea, TInv, TypeOK
  <2>2. \E m \in BOOLEAN : rom' \in {[rom EXCEPT ![WriteOrder[at]] = ram[WriteOrder[at]]],
                                    [rom EXCEPT ![WriteOrder[at]] = Torn(WriteOrder[at], m)]}
    BY <1>4 DEF WriteArea
  <2>. QED
    BY <1>1, <2>1, <2>2, WriteTyped
<1>5. CASE PowerCut
  <2>1. pc = "write" => WriteOrder[at] \in Areas
    BY <1>5, WriteOrderIs, AreasAre DEF TInv, TypeOK
  <2>2. pc = "erase" => at \in 1 .. Len(units)
    BY <1>1, UnitsAre DEF TInv, TypeOK
  <2>. QED
    BY <1>1, <1>5, <2>1, <2>2, WriteTyped, TornUnitTyped DEF PowerCut
<1>. QED
  BY <1>2, <1>3, <1>4, <1>5, EditsEdit DEF Next, InitPrivData, LoadSavedPrivData,
     Edit, LockBlocks, SavePrivDataBlk, save

LEMMA NextTInv ==
    ASSUME TInv, [Next]_vars
    PROVE  TInv'
<1>1. CASE UNCHANGED vars
  BY <1>1 DEF TInv, TypeOK, vars
<1>2. CASE Next
  <2>1. {ram', rom', saved'} \subseteq Blocks
    <3>1. saved' \in {ram, saved, RamLost}
      BY <1>2, EditsEdit DEF Next, InitPrivData, LoadSavedPrivData, Edit, LockBlocks,
         SavePrivDataBlk, EraseUnit, WriteArea, PowerCut, save, NoFault, Faulty, Spoilt
    <3>2. RamLost \in Blocks
      BY AreaTypes DEF RamLost
    <3>. QED
      BY <1>2, <3>1, <3>2, RamTyped, RomTyped DEF TInv, TypeOK
  <2>2. CASE UNCHANGED <<save, chip>> /\ up' \in BOOLEAN
    BY <2>1, <2>2 DEF TInv, TypeOK, save, chip
  <2>3. CASE SavePrivDataBlk
    <3>1. Len(units) \in Nat \ {0} /\ DOMAIN units = 1 .. Len(units)
      BY UnitsAre DEF TInv, TypeOK
    <3>2. saves' \in 0 .. MaxSaves
      BY <2>3, PrivDataAssumption DEF SavePrivDataBlk, TInv
    <3>. QED
      BY <2>1, <2>3, <3>1, <3>2 DEF SavePrivDataBlk, TInv, TypeOK, data, chip
  <2>4. CASE EraseUnit
    <3>1. /\ Len(units) \in Nat \ {0} /\ DOMAIN units = 1 .. Len(units)
          /\ DOMAIN WriteOrder = 1 .. 3
      BY UnitsAre, WriteOrderIs DEF TInv, TypeOK
    <3>2. \/ pc' = "erase" /\ at' \in 1 .. Len(units)
          \/ pc' = "write" /\ at' = 1
          \/ pc' = "idle"
      BY <2>4, <3>1 DEF EraseUnit, NextUnit, EndSave, TInv, TypeOK
    <3>3. sound' \in BOOLEAN
      BY <2>4 DEF EraseUnit, NoFault, Faulty, Spoilt, TInv, TypeOK
    <3>. QED
      BY <2>1, <2>4, <3>1, <3>2, <3>3 DEF EraseUnit, TInv, TypeOK, data, chip
  <2>5. CASE WriteArea
    <3>1. DOMAIN WriteOrder = 1 .. 3 /\ Len(WriteOrder) = 3
      BY WriteOrderIs, AreasAre
    <3>2. \/ pc' = "write" /\ at' \in 1 .. 3
          \/ pc' = "idle"
      BY <2>5, <3>1 DEF WriteArea, NextArea, EndSave, TInv, TypeOK
    <3>3. sound' \in BOOLEAN
      BY <2>5 DEF WriteArea, NoFault, Faulty, Spoilt, TInv, TypeOK
    <3>4. of' \in [Areas -> 0 .. MaxSaves]
      BY <2>5 DEF WriteArea, TInv, TypeOK
    <3>. QED
      BY <2>1, <2>5, <3>1, <3>2, <3>3, <3>4 DEF WriteArea, TInv, TypeOK, data, chip
  <2>6. CASE PowerCut
    BY <2>1, <2>6 DEF PowerCut, EndSave, Spoilt, TInv, TypeOK
  <2>7. CASE InitPrivData \/ LoadSavedPrivData \/ Edits
    BY <2>2, <2>7, EditsEdit DEF InitPrivData, LoadSavedPrivData, Edit, TInv, TypeOK
  <2>8. CASE LockBlocks
    BY <2>1, <2>8 DEF LockBlocks, data, save, TInv, TypeOK
  <2>. QED
    BY <1>2, <2>3, <2>4, <2>5, <2>6, <2>7, <2>8 DEF Next
<1>. QED
  BY <1>1, <1>2

(***************************************************************************)
(* The variables keep their types, whatever count a table is added to or   *)
(* deleted from, and whatever a torn one makes of either.                  *)
(***************************************************************************)
THEOREM TypesKept == Spec => []TypeOK
<1>1. TInv => TypeOK
  BY DEF TInv
<1>. QED
  BY <1>1, InitTInv, NextTInv, PTL DEF Spec

------------------------------------------------------------------------------
(***************************************************************************)
(* What becomes of the magic numbers when the block in RAM is changed.     *)
(***************************************************************************)
MagicKept == \A a \in Areas : ram[a].magic => ram'[a].magic

\* Which count may cost which area its magic number.
MagicLost(a) == up /\ up' /\ TableKnown /\ ram[a].magic /\ ~ram'[a].magic
Blamed ==
    \A a \in Areas : MagicLost(a) =>
        CASE a = "part"  -> table.count = -1
          [] a = "param" -> table.count >= Cap
          [] a = "cmd"   -> table.count >= CmdEntry

LEMMA BlamedIs ==
    Blamed <=> /\ MagicLost("part") => table.count = -1
               /\ MagicLost("param") => table.count >= Cap
               /\ MagicLost("cmd") => table.count >= CmdEntry
  BY AreasAre DEF Blamed

LEMMA RunOverMagic ==
    ASSUME NEW r \in Blocks, NEW entries
    PROVE  /\ RunOver(r, entries).part.magic = r.part.magic
           /\ RunOver(r, entries).param.magic = r.param.magic
           /\ CmdEntry \notin entries => RunOver(r, entries).cmd.magic = r.cmd.magic
  BY MagicTyped, AreasAre DEF RunOver, Torn, Blocks, Area

LEMMA AddKeepsMagic ==
    ASSUME ram \in Blocks, NEW n \in Names, NEW flag \in Flags, AddMtdPartition(n, flag)
    PROVE  Blamed
<1> DEFINE counted == [ram EXCEPT !.part.body.count = @ + 1]
           stored == [counted EXCEPT !.part.body.slots[table.count] = n]
<1>0. SUFFICES ASSUME TableKnown PROVE Blamed
  BY DEF Blamed, MagicLost
<1>1. /\ table.count \in Int /\ Cap \in Nat /\ CmdEntry \in Nat /\ Cap < CmdEntry
  BY PrivDataAssumption DEF table, Blocks, Area
<1>2. counted \in Blocks /\ stored \in Blocks
  <2>1. counted \in Blocks
    BY CountedTyped
  <2>. QED
    BY <2>1 DEF Blocks, Area
<1>3. /\ counted.part.magic = ram.part.magic /\ stored.part.magic = ram.part.magic
      /\ counted.param = ram.param /\ stored.param = ram.param
      /\ counted.cmd = ram.cmd /\ stored.cmd = ram.cmd
  BY DEF Blocks, Area
<1>4. Edit(CASE table.count = -1           -> [counted EXCEPT !.part.magic = FALSE]
             [] table.count \in 0 .. Cap-1 -> stored
             [] table.count = Cap          -> Overlaid(stored, flag)
             [] OTHER                      -> RunOver(counted, {table.count}))
  BY <1>0 DEF AddMtdPartition
<1>5. CASE table.count = -1
  <2>1. ram' = [counted EXCEPT !.part.magic = FALSE]
    <3> HIDE DEF counted, stored
    <3>. QED
      BY <1>1, <1>4, <1>5 DEF Edit
  <2>2. ram'.param = ram.param /\ ram'.cmd = ram.cmd
    <3> HIDE DEF counted
    <3>. QED
      BY <1>2, <1>3, <2>1 DEF Blocks
  <2>. QED
    BY <1>5, <2>2, BlamedIs DEF MagicLost
<1>6. CASE table.count \in 0 .. Cap - 1
  <2>1. ram' = stored
    <3> HIDE DEF counted, stored
    <3>. QED
      BY <1>1, <1>4, <1>6 DEF Edit
  <2>. QED
    BY <1>3, <2>1, BlamedIs DEF MagicLost
<1>7. CASE table.count = Cap
  <2>1. ram' = Overlaid(stored, flag)
    <3> HIDE DEF counted, stored
    <3>. QED
      BY <1>1, <1>4, <1>7 DEF Edit
  <2>2. ram'.part = stored.part /\ ram'.cmd = stored.cmd
    <3> HIDE DEF stored
    <3>. QED
      BY <1>2, <2>1 DEF Overlaid, Blocks
  <2>. QED
    <3>1. /\ ram'.part.magic = ram.part.magic /\ ram'.cmd.magic = ram.cmd.magic
          /\ table.count >= Cap
      BY <1>1, <1>3, <1>7, <2>2
    <3>. QED
      BY <3>1, BlamedIs DEF MagicLost
<1>8. CASE table.count \notin -1 .. Cap
  <2>1. ram' = RunOver(counted, {table.count})
    <3>1. /\ table.count # -1 /\ table.count \notin 0 .. Cap - 1 /\ table.count # Cap
      BY <1>1, <1>8
    <3> HIDE DEF counted, stored
    <3>. QED
      BY <1>4, <3>1 DEF Edit
  <2>2. /\ ram'.part.magic = ram.part.magic /\ ram'.param.magic = ram.param.magic
        /\ CmdEntry # table.count => ram'.cmd.magic = ram.cmd.magic
    <3> HIDE DEF counted
    <3>. QED
      BY <1>2, <1>3, <2>1, RunOverMagic
  <2>. QED
    BY <1>1, <2>2, BlamedIs DEF MagicLost
<1>. QED
  BY <1>1, <1>5, <1>6, <1>7, <1>8

LEMMA DelKeepsMagic ==
    ASSUME ram \in Blocks, NEW n \in Names, DelMtdPartition(n)
    PROVE  Blamed
<1>0. SUFFICES ASSUME TableKnown PROVE Blamed
  BY DEF Blamed, MagicLost
<1>1. PICK first \in Found(n), spare \in Names \union {Junk} : Edit(Deleted(first, spare))
  BY <1>0 DEF DelMtdPartition
<1> DEFINE moved == first .. table.count - 1
<1>2. /\ table.count \in Int /\ first \in Int /\ Cap \in Nat /\ CmdEntry \in Nat
  BY FoundIs, PrivDataAssumption DEF table, Blocks, Area
<1>3. ram' = RunOver(Over(first, spare), moved)
  BY <1>1, <1>2, DeletedIs DEF Edit
<1>4. /\ Over(first, spare) \in Blocks
      /\ Over(first, spare).part.magic = ram.part.magic
      /\ Over(first, spare).cmd = ram.cmd
      /\ Cap \notin moved => Over(first, spare).param = ram.param
  BY <1>2, DeletedIs
<1>5. /\ ram'.part.magic = ram.part.magic
      /\ Cap \notin moved => ram'.param.magic = ram.param.magic
      /\ CmdEntry \notin moved => ram'.cmd.magic = ram.cmd.magic
  <2>1. /\ ram'.part.magic = Over(first, spare).part.magic
        /\ ram'.param.magic = Over(first, spare).param.magic
        /\ CmdEntry \notin moved => ram'.cmd.magic = Over(first, spare).cmd.magic
    <3> HIDE DEF moved
    <3>. QED
      BY <1>3, <1>4, RunOverMagic
  <2>. QED
    BY <1>4, <2>1
<1>6. \A k \in Nat : k \in moved => table.count >= k
  BY <1>2
<1>. QED
  BY <1>2, <1>5, <1>6, BlamedIs DEF MagicLost

LEMMA RestKeepsMagic ==
    ASSUME ram \in Blocks
    PROVE  /\ ResetMtdPartition \/ ResetParamTlb => MagicKept
           /\ \A n, v : SetParamValue(n, v) => MagicKept
           /\ \A t : SetLinuxCmdLine(t) => MagicKept
           /\ LoadSavedPrivData => MagicKept
<1>1. ResetMtdPartition \/ ResetParamTlb => MagicKept
  <2>1. /\ ResetMtdPartition => ram' = GetDefaultMtdPartition(ram)
        /\ ResetParamTlb => ram' = GetDefaultLinuxCmd(GetDefaultParamTlb(ram))
    BY DEF ResetMtdPartition, ResetParamTlb, Edit
  <2>2. \A a \in Areas : ram[a].magic => GetDefaultMtdPartition(ram)[a].magic
    BY AreasAre DEF GetDefaultMtdPartition, Default, Blocks
  <2>3. \A a \in Areas :
           ram[a].magic => GetDefaultLinuxCmd(GetDefaultParamTlb(ram))[a].magic
    BY AreasAre DEF GetDefaultParamTlb, GetDefaultLinuxCmd, Default, Blocks
  <2>. QED
    BY <2>1, <2>2, <2>3 DEF MagicKept
<1>2. ASSUME NEW n, NEW v, SetParamValue(n, v) PROVE MagicKept
  BY <1>2, AreasAre DEF SetParamValue, Edit, MagicKept, Blocks, Area, Torn
<1>3. ASSUME NEW t, SetLinuxCmdLine(t) PROVE MagicKept
  BY <1>3, AreasAre DEF SetLinuxCmdLine, Edit, MagicKept, Blocks, Area
<1>4. LoadSavedPrivData => MagicKept
  BY AreasAre DEF LoadSavedPrivData, Load, Copied, MagicKept
<1>. QED
  BY <1>1, <1>2, <1>3, <1>4

(***************************************************************************)
(* Each header in RAM is lost only by a table that runs over its end of    *)
(* it, as long as the count of the table is known.                         *)
(***************************************************************************)
THEOREM HeadersAreKept == Spec => HeadersKept
<1> DEFINE kept ==
        up /\ up' /\ TableKnown =>
           \A a \in Areas :
              ram[a].magic /\ ~ram'[a].magic =>
                 CASE a = "part"  -> table.count = -1
                   [] a = "param" -> table.count >= Cap
                   [] a = "cmd"   -> table.count >= CmdEntry
<1>1. TInv /\ [Next]_vars => [kept]_vars
  <2> SUFFICES ASSUME TInv, Next PROVE Blamed
    BY DEF Blamed, MagicLost
  <2>1. ram \in Blocks
    BY DEF TInv, TypeOK
  <2>2. CASE InitPrivData \/ PowerCut
    BY <2>2 DEF InitPrivData, PowerCut, Blamed, MagicLost
  <2>3. CASE SavePrivDataBlk \/ EraseUnit \/ WriteArea \/ LockBlocks
    BY <2>3 DEF SavePrivDataBlk, EraseUnit, WriteArea, LockBlocks, data, Blamed, MagicLost
  <2>4. MagicKept => Blamed
    BY DEF MagicKept, Blamed, MagicLost
  <2>5. CASE Edits \/ LoadSavedPrivData
    BY <2>1, <2>4, <2>5, AddKeepsMagic, DelKeepsMagic, RestKeepsMagic DEF Edits
  <2>. QED
    BY <2>2, <2>3, <2>5 DEF Next
<1>. QED
  BY <1>1, InitTInv, NextTInv, PTL DEF Spec, HeadersKept

LEMMA RemoveAtIs ==
    ASSUME NEW E, NEW s \in Seq(E), NEW i \in 1 .. Len(s)
    PROVE  /\ RemoveAt(s, i) \in Seq(E)
           /\ Len(RemoveAt(s, i)) = Len(s) - 1
           /\ \A k \in 1 .. Len(s) - 1 :
                 RemoveAt(s, i)[k] = IF k < i THEN s[k] ELSE s[k + 1]
<1> DEFINE first == SubSeq(s, 1, i - 1)
           rest == SubSeq(s, i + 1, Len(s))
<1>1. /\ first \in Seq(E) /\ Len(first) = i - 1
      /\ \A k \in 1 .. i - 1 : first[k] = s[k]
  OBVIOUS
<1>2. /\ rest \in Seq(E) /\ Len(rest) = Len(s) - i
      /\ \A k \in 1 .. Len(s) - i : rest[k] = s[i + k]
  OBVIOUS
<1>3. RemoveAt(s, i) = first \o rest
  BY DEF RemoveAt
<1> HIDE DEF first, rest
<1>4. /\ first \o rest \in Seq(E)
      /\ Len(first \o rest) = Len(s) - 1
      /\ \A k \in 1 .. Len(s) - 1 :
            (first \o rest)[k] = IF k <= i - 1 THEN first[k] ELSE rest[k - (i - 1)]
  <2>1. /\ first \o rest \in Seq(E)
        /\ Len(first \o rest) = Len(first) + Len(rest)
        /\ \A k \in 1 .. Len(first) + Len(rest) : (first \o rest)[k] =
              IF k <= Len(first) THEN first[k] ELSE rest[k - Len(first)]
    BY <1>1, <1>2, ConcatProperties
  <2>2. Len(first) + Len(rest) = Len(s) - 1
    BY <1>1, <1>2
  <2>. QED
    BY <1>1, <2>1, <2>2
<1>5. ASSUME NEW k \in 1 .. Len(s) - 1
      PROVE  (first \o rest)[k] = IF k < i THEN s[k] ELSE s[k + 1]
  <2>1. CASE k < i
    <3>1. k \in 1 .. i - 1 /\ k <= i - 1
      BY <2>1
    <3>. QED
      BY <1>1, <1>4, <2>1, <3>1
  <2>2. CASE ~(k < i)
    <3>1. k - (i - 1) \in 1 .. Len(s) - i /\ ~(k <= i - 1) /\ i + (k - (i - 1)) = k + 1
      BY <2>2
    <3>2. rest[k - (i - 1)] = s[i + (k - (i - 1))]
      BY ONLY <1>2, <3>1
    <3>3. (first \o rest)[k] = rest[k - (i - 1)]
      BY <1>4, <3>1
    <3>. QED
      BY <2>2, <3>1, <3>2, <3>3
  <2>. QED
    BY <2>1, <2>2
<1>. QED
  BY <1>3, <1>4, <1>5

(***************************************************************************)
(* Deleting by name takes the named entry out of the table, and no other.  *)
(***************************************************************************)
THEOREM DelRemovesOne == Spec => []DelRemovesNamed
<1>1. ASSUME ram \in Blocks, table.count <= Cap + 1,
             NEW n, Matches(n) # {}, NEW spare \in Names \union {Junk}
      PROVE  TableSeq(Deleted(Min(Matches(n)), spare)) =
             RemoveAt(TableSeq(ram), Min(Matches(n)) + 1)
  <2> DEFINE m == Min(Matches(n))
             c == table.count
             left == Deleted(m, spare)
  <2>1. m \in 0 .. c - 1 /\ c \in 1 .. Cap + 1 /\ Cap \in Nat
    BY <1>1, FoundIs, PrivDataAssumption DEF InUse, table, Blocks, Area
  <2>2. /\ left.part.body.count = c - 1
        /\ \A k \in 0 .. Cap - 1 : left.part.body.slots[k] =
              IF k \in m .. c - 1 THEN table.slots[k + 1] ELSE table.slots[k]
    <3>0. m \in Int
      BY <2>1
    <3>1. /\ left = RunOver(Over(m, spare), m .. c - 1)
          /\ Over(m, spare) \in Blocks
          /\ Over(m, spare).part.body.count = c - 1
          /\ Over(m, spare).part.body.slots = Shifted(m, spare)
      <4> HIDE DEF m
      <4>. QED
        BY <1>1, <3>0, DeletedIs
    <3>3. left.part.body.count = c - 1 /\ left.part.body.slots = Shifted(m, spare)
      <4> HIDE DEF left
      <4>. QED
        BY <3>1 DEF RunOver, Blocks
    <3>. QED
      BY <2>1, <3>3 DEF Shifted
  <2>3. TableSeq(ram) = [k \in 1 .. c |-> table.slots[k - 1]]
    BY DEF TableSeq, table
  <2>4. TableSeq(left) =
           [k \in 1 .. c - 1 |-> IF k <= m THEN table.slots[k - 1] ELSE table.slots[k]]
    BY <2>1, <2>2 DEF TableSeq
  <2> HIDE DEF m, c, left
  <2>. QED
    <3> DEFINE E == Names \union {Junk}
               old == TableSeq(ram)
               new == TableSeq(left)
    <3>1. \A k \in 0 .. Cap : table.slots[k] \in E
      BY <1>1 DEF Blocks, Area, table
    <3>2. old \in Seq(E) /\ Len(old) = c
      BY <2>1, <2>3, <3>1
    <3>3. new \in Seq(E) /\ Len(new) = c - 1
      BY <2>1, <2>4, <3>1
    <3> DEFINE shorter == RemoveAt(old, m + 1)
    <3> HIDE DEF old, new, E
    <3>4. /\ shorter \in Seq(E) /\ Len(shorter) = c - 1
          /\ \A k \in 1 .. c - 1 :
                shorter[k] = IF k < m + 1 THEN old[k] ELSE old[k + 1]
      <4>1. m + 1 \in 1 .. Len(old) /\ Len(old) = c
        BY <2>1, <3>2
      <4>. QED
        BY <3>2, <4>1, RemoveAtIs
    <3>5. \A k \in 1 .. c - 1 : new[k] = IF k < m + 1 THEN old[k] ELSE old[k + 1]
      BY <2>1, <2>3, <2>4 DEF old, new
    <3> HIDE DEF shorter
    <3>6. new = shorter
      BY <3>3, <3>4, <3>5, SeqEqual
    <3>. QED
      BY <3>6 DEF old, new, shorter, left, m
<1>2. TInv => DelRemovesNamed
  BY <1>1 DEF TInv, TypeOK, DelRemovesNamed
<1>. QED
  BY <1>2, InitTInv, NextTInv, PTL DEF Spec
===============================================================================
