------------------------------- MODULE Loader -------------------------------
(***************************************************************************)
(* boot of src/loader/image.c: an image somewhere in memory, an ELF file,  *)
(* a U-Boot image or a plain binary, is moved to where it wants to run,    *)
(* the device tree is fixed up, and the entry point is called.             *)
(*                                                                         *)
(* Memory is a function of cells; a header, a piece of data or the device  *)
(* tree takes one cell.  The headers of an ELF image are read again for    *)
(* each segment, from memory that a segment may have been moved over: the  *)
(* model stops ("wild") where the code reads something else as a header.   *)
(* The loader's own code, data and stack are outside of this memory.       *)
(***************************************************************************)
EXTENDS Integers, Sequences, Functions, FiniteSetsExt

CONSTANTS
    Size,       \* cells of memory
    Calls,      \* the calls of boot in boot_init.c: <<image, device tree>>
    Images,     \* sequences of cells
    Trees,      \* device trees
    MaxBoots    \* bound: boots

Null == -1
Addr == 0 .. Size - 1

VxWorks == 14
Linux == 5

ASSUME LoaderAssumption ==
    /\ Size \in Nat /\ MaxBoots \in Nat
    /\ Calls \subseteq Addr \X (Addr \union {Null})
    /\ \A c \in Calls, image \in Images :
          image \in Seq(Range(image)) /\ c[1] + Len(image) <= Size

(***************************************************************************)
(* What the loaders believe of a header without a check: that what it      *)
(* names is in memory, wherever boot is called with it, and that no image  *)
(* has a part of itself in the place of a device tree.                     *)
(***************************************************************************)
\* Version 17 stands for the later ones too, which the first write makes it.
\* unmarked: how many properties of its CPUs the loader has still to set.
Tree == [t : {"tree"}, finished : BOOLEAN, version : Nat, ordered : BOOLEAN,
         bootargs : BOOLEAN, cpus : BOOLEAN, unmarked : Nat, pads : Nat, reserved : Nat]
TreePlaces == {d[2] : d \in Calls}
ImageCells == UNION {Range(image) : image \in Images}

\* n cells from one place to another.
Movable(from, to, n) ==
    /\ from + n <= Size /\ to + n <= Size
    /\ from .. from + n - 1 \cap TreePlaces = {}

EhdrFits(h) ==
    /\ h.entry \in Addr /\ h.phoff \in Nat /\ h.phnum \in Nat
    /\ \A c \in Calls, other \in ImageCells :
          other.t = "ehdr" => c[1] + h.phoff + other.phnum \in Addr

PhdrFits(p) ==
    /\ {p.off, p.paddr, p.filesz, p.memsz} \subseteq Nat
    /\ p.paddr + p.memsz <= Size
    /\ \A c \in Calls : Movable(c[1] + p.off, p.paddr, p.filesz)

UhdrFits(h) ==
    /\ h.entry \in Addr /\ h.load \in Nat /\ h.size \in Nat
    /\ \A c \in Calls : Movable(c[1] + 1, h.load, h.size)

ASSUME HeadersAssumption ==
    /\ \A cell \in ImageCells :
          /\ cell.t = "ehdr"              => EhdrFits(cell)
          /\ cell.t = "phdr" /\ cell.load => PhdrFits(cell)
          /\ cell.t = "uhdr"              => UhdrFits(cell)
          /\ cell.t # "tree"
    /\ \A fdt \in Trees : fdt \in Tree \/ fdt.t \notin {"tree", "ehdr", "phdr", "uhdr"}

VARIABLES
    mem,
    pc,         \* what boot is at; "shell", "kernel", "wild"
    img, tree,  \* boot's arguments
    buf,        \* boot's copy of the header
    entry, flags,
    phdr, i,    \* elf32Load's
    given,      \* ghost: memory when boot was called
    boots

call == <<img, tree, buf, given, boots>>
vars == <<mem, pc, call, entry, flags, phdr, i>>

Goto(label) == pc' = label /\ UNCHANGED <<mem, call, entry, flags, phdr, i>>
Refuse == Goto("shell")

(***************************************************************************)
(* A cleared cell, and one with what was in memory before.                 *)
(***************************************************************************)
Zero == [t |-> "zero"]
Old(a) == [t |-> "old", at |-> a]

Init ==
    /\ \E c \in Calls, image \in Images, fdt \in Trees :
          mem = [a \in Addr |->
                    IF a \in c[1] .. c[1] + Len(image) - 1 THEN image[a - c[1] + 1]
                    ELSE IF a \in TreePlaces THEN fdt ELSE Old(a)]
    /\ pc = "shell" /\ img = 0 /\ tree = Null /\ buf = Zero
    /\ entry = Null /\ flags = 0 /\ phdr = 0 /\ i = 0
    /\ given = mem /\ boots = 0

------------------------------------------------------------------------------
(***************************************************************************)
(* bcopy goes backwards if the destination is above the source.            *)
(***************************************************************************)
\* The cell that is the k-th to move.  Mutant: as memcpy does.
TurnUp(to, from, n, k) == k - 1

Turn(to, from, n, k) == IF from < to THEN n - k ELSE k - 1

Memmove(m, to, from, n) ==
    LET after[k \in 0 .. n] ==
            IF k = 0 THEN m
            ELSE LET at == Turn(to, from, n, k)
                 IN [after[k - 1] EXCEPT ![to + at] = after[k - 1][from + at]]
    IN after[n]

Bzero(m, at, n) == [a \in Addr |-> IF a \in at .. at + n - 1 THEN Zero ELSE m[a]]

------------------------------------------------------------------------------
(***************************************************************************)
(* getImageType: everything that is neither a U-Boot nor an ELF image is a *)
(* binary.                                                                 *)
(***************************************************************************)
ImageType(h) ==
    CASE h.t = "uhdr"                   -> "uimage"
      [] h.t = "ehdr" /\ h.class = 32   -> "elf32"
      [] h.t = "ehdr" /\ h.class # 32   -> "unknown"
      [] OTHER                          -> "binary"

\* boot copies the header and looks at the copy.
Boot(c) ==
    /\ pc = "shell" /\ boots < MaxBoots
    /\ pc' = "identify" /\ boots' = boots + 1
    /\ img' = c[1] /\ tree' = c[2]
    /\ buf' = mem[c[1]] /\ given' = mem
    /\ flags' = 0 /\ entry' = Null
    /\ UNCHANGED <<mem, phdr, i>>

\* Mutant: a binary is not given an entry point.
IdentifyNoEntry ==
    /\ pc = "identify"
    /\ IF ImageType(buf) = "unknown" THEN Refuse
       ELSE Goto(IF ImageType(buf) = "binary" THEN "fixup" ELSE ImageType(buf))

Identify ==
    /\ pc = "identify"
    /\ \/ ImageType(buf) = "unknown" /\ Refuse
       \/ /\ ImageType(buf) = "binary"
          /\ entry' = img /\ pc' = "fixup"
          /\ UNCHANGED <<mem, call, flags, phdr, i>>
       \/ /\ ImageType(buf) \in {"elf32", "uimage"}
          /\ Goto(ImageType(buf))

(***************************************************************************)
(* elf32Load.  An image is sane if none of the checks at its beginning     *)
(* refuses its header.                                                     *)
(***************************************************************************)
Elf32Load ==
    /\ pc = "elf32"
    /\ IF ~mem[img].sane THEN Refuse
       ELSE /\ entry' = mem[img].entry
            /\ phdr' = img + mem[img].phoff /\ i' = 0
            /\ pc' = "segment"
            /\ UNCHANGED <<mem, call, flags>>

\* The header and the program header that are in memory now.
Header == mem[img]
Segment == mem[phdr + i]

LoadSegment ==
    /\ pc = "segment"
    /\ \/ Header.t # "ehdr" /\ Goto("wild")
       \/ /\ Header.t = "ehdr" /\ i >= Header.phnum
          /\ flags' = VxWorks /\ pc' = "fixup"
          /\ UNCHANGED <<mem, call, entry, phdr, i>>
       \/ /\ Header.t = "ehdr" /\ i < Header.phnum
          /\ \/ Segment.t # "phdr" /\ Goto("wild")
             \/ /\ Segment.t = "phdr" /\ ~Segment.load
                /\ i' = i + 1
                /\ UNCHANGED <<mem, pc, call, entry, flags, phdr>>
             \/ /\ Segment.t = "phdr" /\ Segment.load
                /\ mem' = Memmove(mem, Segment.paddr, img + Segment.off, Segment.filesz)
                /\ pc' = "clear"
                /\ UNCHANGED <<call, entry, flags, phdr, i>>

\* The program header is read again after the move.
ClearRest ==
    /\ pc = "clear"
    /\ \/ Segment.t # "phdr" /\ Goto("wild")
       \/ /\ Segment.t = "phdr"
          /\ mem' = IF Segment.filesz < Segment.memsz
                    THEN Bzero(mem, Segment.paddr + Segment.filesz,
                               Segment.memsz - Segment.filesz)
                    ELSE mem
          /\ i' = i + 1 /\ pc' = "segment"
          /\ UNCHANGED <<call, entry, flags, phdr>>

(***************************************************************************)
(* uimageLoad, after which boot takes the OS out of its copy.              *)
(***************************************************************************)
\* Mutant: compression matters only to an image that stays where it is.
UimageSaneLate(h) == h.os \in {VxWorks, Linux} /\ (h.load # img + 1 \/ h.comp = "none")

UimageSane(h) == h.os \in {VxWorks, Linux} /\ h.comp = "none"

UimageMoved(h) == IF h.load = img + 1 THEN mem ELSE Memmove(mem, h.load, img + 1, h.size)

\* Mutant: the OS is taken out of memory after the move.
UimageLoadLate ==
    /\ pc = "uimage"
    /\ IF ~UimageSane(Header) THEN Refuse
       ELSE /\ entry' = Header.entry
            /\ mem' = UimageMoved(Header)
            /\ flags' = IF mem'[img].t = "uhdr" THEN mem'[img].os ELSE 0
            /\ pc' = "fixup"
            /\ UNCHANGED <<call, phdr, i>>

UimageLoad ==
    /\ pc = "uimage"
    /\ IF ~UimageSane(Header) THEN Refuse
       ELSE /\ entry' = Header.entry
            /\ mem' = UimageMoved(Header)
            /\ flags' = buf.os
            /\ pc' = "fixup"
            /\ UNCHANGED <<call, phdr, i>>

------------------------------------------------------------------------------
(***************************************************************************)
(* fixupDTB.  The tree is made longer, the boot line is set, the CPUs are  *)
(* marked and the spin table is reserved, up to the first failure, which   *)
(* boot does not look at.  Any write may fail, for want of room or because *)
(* the structure is broken where libfdt looks for something; one to a tree *)
(* of an early version, or with its blocks out of order, always does.      *)
(* What a failed write leaves of its own, a node /chosen without boot line *)
(* or a name without property, is not in the model.                        *)
(***************************************************************************)
\* fdt_check_header: a tree that is being written sequentially passes as well.
IsTree(cell) == cell.t = "tree" /\ (cell.finished => cell.version >= 16)

\* _fdt_rw_check_header, once the tree is longer.
Writable(fdt) == fdt.version >= 17 /\ fdt.ordered

Blob == mem[tree]
Fixed(fdt, label) ==
    /\ mem' = [mem EXCEPT ![tree] = fdt]
    /\ pc' = label
    /\ UNCHANGED <<call, entry, flags, phdr, i>>

FixupDTB ==
    /\ pc = "fixup"
    /\ IF tree # Null /\ IsTree(Blob)
       THEN Fixed([Blob EXCEPT !.pads = @ + 1], "bootargs") ELSE Goto("start")

\* Mutant: the failure is reported, and the CPUs follow all the same.
FixupBootargsGoesOn ==
    /\ pc = "bootargs"
    /\ \/ Goto("cpus")
       \/ Writable(Blob) /\ Fixed([Blob EXCEPT !.bootargs = TRUE], "cpus")

FixupBootargs ==
    /\ pc = "bootargs"
    /\ \/ Goto("start")
       \/ Writable(Blob) /\ Fixed([Blob EXCEPT !.bootargs = TRUE], "cpus")

\* One property after the other is set; what an earlier boot set stays so.
FixupCpu ==
    /\ pc = "cpus"
    /\ \/ Goto("start")
       \/ /\ Blob.cpus
          /\ \/ \E n \in 1 .. Blob.unmarked : Fixed([Blob EXCEPT !.unmarked = n], "start")
             \/ Fixed([Blob EXCEPT !.unmarked = 0], "reserve")

\* With no memory description fdt_fixup_memory then does nothing.
AddMemRsv ==
    /\ pc = "reserve"
    /\ \/ Goto("start")
       \/ Fixed([Blob EXCEPT !.reserved = @ + 1], "start")

Start ==
    /\ pc = "start"
    /\ IF flags \in {VxWorks, Linux} \/ ImageType(buf) = "binary"
       THEN Goto("kernel") ELSE Refuse

(***************************************************************************)
(* What was started may come back; it is taken to have left memory alone.  *)
(***************************************************************************)
KernelReturns == pc = "kernel" /\ Goto("shell")

Next ==
    \/ \E c \in Calls : Boot(c)
    \/ Identify
    \/ Elf32Load \/ LoadSegment \/ ClearRest
    \/ UimageLoad
    \/ FixupDTB \/ FixupBootargs \/ FixupCpu \/ AddMemRsv
    \/ Start
    \/ KernelReturns

Spec == Init /\ [][Next]_vars

------------------------------------------------------------------------------
TypeOK ==
    /\ DOMAIN mem = Addr /\ DOMAIN given = Addr
    /\ pc \in {"shell", "identify", "elf32", "segment", "clear", "uimage",
              "fixup", "bootargs", "cpus", "reserve", "start", "kernel", "wild"}
    /\ <<img, tree>> \in Calls \/ boots = 0
    /\ flags \in {0, VxWorks, Linux}
    /\ pc \in {"segment", "clear"} => phdr + i \in Addr
    /\ pc \in {"segment", "clear", "fixup", "bootargs", "cpus", "reserve", "start", "kernel"} =>
          entry \in Addr

(***************************************************************************)
(* The image as it was when boot was called: what a load moves where.      *)
(***************************************************************************)
GivenHeader == given[img]
IsElf == GivenHeader.t = "ehdr" /\ GivenHeader.class = 32 /\ GivenHeader.sane
IsUimage ==
    /\ GivenHeader.t = "uhdr"
    /\ GivenHeader.os \in {VxWorks, Linux} /\ GivenHeader.comp = "none"
IsBinary == GivenHeader.t \notin {"ehdr", "uhdr"}

Rounds == 0 .. GivenHeader.phnum - 1
PhdrAt(k) == img + GivenHeader.phoff + k
Dest(k) ==
    LET p == given[PhdrAt(k)]
    IN IF p.load THEN p.paddr .. p.paddr + Max({p.filesz, p.memsz}) - 1 ELSE {}
Source(k) ==
    LET p == given[PhdrAt(k)]
    IN IF p.load THEN img + p.off .. img + p.off + p.filesz - 1 ELSE {}

\* No segment goes where something still to be read is.
KeepsClear ==
    \A k \in Rounds :
        /\ given[PhdrAt(k)].t = "phdr"
        /\ img \notin Dest(k)
        /\ \A later \in k .. GivenHeader.phnum - 1 :
              /\ PhdrAt(later) \notin Dest(k)
              /\ later # k => Dest(k) \cap Source(later) = {}

ElfCell(a) ==
    LET covering == {k \in Rounds : a \in Dest(k)}
        p == given[PhdrAt(Max(covering))]
    IN IF covering = {} THEN given[a]
       ELSE IF a < p.paddr + p.filesz THEN given[img + p.off + a - p.paddr]
       ELSE Zero

UimageCell(a) ==
    IF a \in GivenHeader.load .. GivenHeader.load + GivenHeader.size - 1
    THEN given[img + 1 + a - GivenHeader.load] ELSE given[a]

(***************************************************************************)
(* A loaded image is in memory as its headers say it should be, with the   *)
(* rest of memory as it was: a U-Boot image even where it is moved over    *)
(* itself and its header, an ELF image if its segments keep clear of its   *)
(* headers and of what later segments are moved from.  Only an ELF image   *)
(* that does not can lead the loader astray.                               *)
(***************************************************************************)
LoadedRight ==
    /\ pc = "wild" => IsElf /\ ~KeepsClear
    /\ pc = "fixup" =>
          /\ IsElf /\ KeepsClear => \A a \in Addr : mem[a] = ElfCell(a)
          /\ IsUimage => \A a \in Addr : mem[a] = UimageCell(a)
          /\ IsBinary => mem = given

(***************************************************************************)
(* What is started is what the image said when boot was called: a sane ELF *)
(* image or an uncompressed VxWorks or Linux one at its entry point, even  *)
(* if the header is gone by then, or else a binary at its first byte.      *)
(***************************************************************************)
StartedAsGiven ==
    pc = "kernel" =>
        \/ IsElf /\ entry = GivenHeader.entry /\ flags = VxWorks
        \/ IsUimage /\ entry = GivenHeader.entry /\ flags = GivenHeader.os
        \/ IsBinary /\ entry = img

(***************************************************************************)
(* A boot that is refused has changed nothing, so another may follow it:   *)
(* whatever boot and the loaders find wrong they find before the first     *)
(* move.                                                                   *)
(***************************************************************************)
RefusedLeavesMemory ==
    [][pc \notin {"shell", "kernel"} /\ pc' = "shell" => mem' = given]_vars

(***************************************************************************)
(* The tree a kernel is given, unless the image was loaded over it: each   *)
(* fix-up is there only behind those before it, wherever libfdt failed.    *)
(* The spin table is reserved, once more with each boot, only if there is  *)
(* a boot line and no CPU lacks a property; a CPU gets one only with the   *)
(* boot line set; a tree that cannot be written is as it was.  Each boot   *)
(* claims one more stretch of memory, and takes nothing back.              *)
(***************************************************************************)
KernelTree ==
    pc = "kernel" /\ tree # Null /\ IsTree(mem[tree]) =>
        LET was == given[tree]
            now == mem[tree]
        IN /\ now.pads = was.pads + 1
           /\ was.bootargs => now.bootargs
           /\ now.unmarked <= was.unmarked
           /\ now.reserved \in {was.reserved, was.reserved + 1}
           /\ now.unmarked < was.unmarked => now.bootargs
           /\ now.reserved > was.reserved => now.bootargs /\ now.cpus /\ now.unmarked = 0
           /\ ~Writable(was) => now = [was EXCEPT !.pads = @ + 1]
==============================================================================
