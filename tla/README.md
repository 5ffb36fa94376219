# Verification of wr-boot

wr-boot is a boot loader for the Freescale P2020RDB board. It brings the board
up, offers a shell on the serial line, reads and writes NOR flash, and loads and
starts kernels. This directory holds TLA+ models of its parts, the TLC
configurations that check them on small instances, and theorems that TLAPS
checks for every value of the constants. Paths below are relative to the root of
the repository.

Contents: [the system](#the-system), [the modules](#the-modules),
[the runs](#the-runs-and-what-they-show), [disagreements found](#where-the-code-disagrees-with-its-text),
[what is proved](#what-is-proved), [what is only model-checked](#what-is-only-model-checked),
[what is not modelled](#what-is-not-modelled), [plan](#plan).

## The system

One processor runs one thread, polled and without interrupts. `mainboot`
(`boot/boot_init.c`) sets up the serial port, the heap and the symbol table,
probes the flash, and then loops for ever: clear a buffer, read a line into it,
act on its first character, hand it to `cmd_parse`. A command is the name of any
global symbol of the loader; the shell looks its address up and calls it with up
to two numbers. So the environment of every part is: whatever sequence of calls
a user can type, interrupted by nothing except a fault of the hardware or the
loss of power.

| component | source | state | operations | talks to |
|---|---|---|---|---|
| heap | `lib/libc/malloc.c`, `strdup.c` | the list of block headers in memory | `heap_init`, `kmalloc`, `xmalloc`, `calloc`, `kfree`, `strdup` | called by shell, symbol table, flash probe |
| lists | `src/common/sllLib.c` | head and tail of each list, a next pointer in each node | init, put at head or tail, get, remove, previous, count, each | inside the hash table |
| symbol table | `src/common/symLib.c`, `hashLib.c` | `standTbl` (generated array), buckets, `nsymbols`, `sysSymTbl` | `sym_table_init`, `usrStandaloneInit`, `symTblAdd`, `symFind` by name and by value | heap, lists; read by the shell |
| line editor | `loader/getcmd.c` | `cmd_buf`, `curpos` | one per key | serial port; `mainboot` |
| shell | `loader/interp.c`, `boot/boot_init.c` | pointers to the copies of the line's parts | `cmd_parse`, `statementSplit`, `tokenize`, `symbolGet` | heap, symbol table, every command |
| NOR flash | `src/drivers/mtd/mtdcore.c`, `cfi_cmdset_0001.c` | table of erase regions, list of steps, the chip | `load flash`, `erase`, `lock`, `unlock` | partition table, chip |
| partition table | `mtdpart.c`, `smdk.c` | array of partitions and its length | get, find, add, delete, reset | NOR flash, saved data |
| saved data | `rw.c`, `param.c` | parameters, command line, partitions: in memory and in a flash block | init, load, save, set, reset | NOR flash, partition table |
| flash probe | `gen_probe.c`, `cfi_probe.c` | chips found, CFI query | probe | heap |
| raw flash drivers | `cfi_flash*.c`, `flashMem.c` | device tables | read, erase, write | heap |
| image loader | `loader/image.c`, `elf.c`, `fdt_util.c` | memory, the image and the device tree in it | identify, load ELF, load U-Boot image, fix up the tree, start | shell, libfdt |
| others | serial port, board set-up, libc, vendored libfdt and FatFs | | | |

What is hard to get right here, and what therefore the properties are about
(`hazards` in PROJECT.json has each at its line):

- *Long sequences of legal calls.* Memory that is given back is never reused, so
  the shell runs out of it by use alone; a table can be filled twice; an array's
  entries carry the links of the table they were in before.
- *Something fails halfway.* Any of up to seven allocations of one line; any
  block of an erase; any word of a write; the power, between unlock, erase,
  write and lock.
- *Arithmetic at boundaries.* Request sizes that wrap around, a cursor of eight
  bits, a table that is written in front of its first entry and behind its last,
  erase regions with blocks of different sizes, two chips in a row, a
  length that is no multiple of a word.
- *Stale state.* Next pointers of nodes that were in an older table; characters
  of a line that was cancelled; pointers that a path never assigned; headers
  that are read again after a segment was moved over them; an area of an older
  save beside one of a newer.
- *Loops that must end.* A bucket that became a cycle; waits for a chip that is
  never ready.

What makes each component correct: blocks tile the heap and live grants are
disjoint (heap); each list behaves as a sequence (lists); a lookup finds the
newest symbol of its name, the nearest below an address (symbol table); the
line executed is the line edited (line editor); nothing is read after it was
given back or given back twice, it is known which words are read unassigned and
what a line costs (shell); an
operation touches the blocks it is for and no others, and one that ends well
has done its work (flash); what was saved is what is loaded, and a save that was
cut is not taken for a whole one (saved data); a table changes by the entry
named (partitions); memory holds the image as its headers say, and what is
started is what the image named (loader).

## The modules

| module | models | state as in the code |
|---|---|---|
| `Heap` | the allocator | `chain` is the list of headers in the order of the next pointers, each with its address, payload size and flag (0, 1, or -1 after `kfree`). `grants`, `refused` are history. Sizes are unsigned 32-bit: `Rounded` wraps. |
| `BumpAllocator` | abstract | a break that only moves up |
| `HeapProofs` | theorems about `Heap` | |
| `Sll` | `sllLib.c` | `head`, `tail`, `next`: pointers, including those of nodes that are in no list |
| `SeqLists` | abstract | a sequence per list |
| `SllProofs` | theorems about `Sll` | |
| `SymTab` | `symLib.c` over `hashLib.c` over `Sll` | a symbol is its index in `standTbl`; `ix` is the loop of `usrStandaloneInit`, one round per step |
| `SymTabProofs` | theorems about `SymTab`, on top of `SllProofs` | |
| `GetCmd` | `getcmd` | `cmd_buf`, `curpos`; one action per kind of key. `line` is the line as its user means it, `stale` where a cancelled line left characters |
| `GetCmdProofs` | theorems about `GetCmd` | |
| `CmdParse` | `mainboot`'s loop, `cmd_parse`, `statementSplit`, `tokenize`, `symbolGet` | over the actions of `Heap`; `pc` is the next statement that allocates, frees, looks up or calls; `ptr` the pointers. A line is its words and blanks, its length what counts. |
| `CmdParseProofs` | theorems about `CmdParse`, on top of `HeapProofs` | |
| `FlashGeometry` | the table of erase regions, `find_erase_size`, the arithmetic of `cfi_intelext_varsize_frob` | operators only, shared by the next two |
| `VarsizeFrob` | the walk over blocks on its own | `frobAt` is the position: address within the chip, chip, bytes left, region; `visited` is history. Its names differ from those of `NorWrite`, so that one module can prove about both |
| `NorWrite` | `write_to_flash`, `write_to_nor`, `make_steps`, the erase, lock and unlock commands, and the Intel command set | each byte of the chip is blank, the data of this operation, or junk; each block has its lock bit; `steps` is the list of `make_steps` |
| `FlashProofs` | theorems about `VarsizeFrob` and `NorWrite`, on lemmas about `FlashGeometry` | |
| `PrivData` | `mtdpart.c`, `param.c` and `rw.c`: the block of partition table, parameters and command line, in RAM and in the flash | `ram` and `rom` are the two blocks, by area: its magic number, its contents, and whether it is whole, torn or blank. `pc`, `at` say where a save is. `units`, `locked` are the chip's erase blocks and their locks. `saved`, `sound`, `of` are history: the last save, whether anything disturbed it, and which save each area is of |
| `PrivDataProofs` | theorems about `PrivData` | |
| `Loader` | `boot`, `getImageType`, `elf32Load`, `uimageLoad`, `fixupDTB` | `mem` is memory, one cell for each header, datum or device tree; `buf`, `entry`, `flags`, `phdr`, `i` are the variables of the code, `given` is memory as `boot` found it. Each fix-up of the tree is an action |
| `LoaderProofs` | theorems about `Loader` | |

An `MC` module gives values to the constants of the module it is named for.

How they compose: `CmdParse` runs on `Heap` (its actions are conjunctions with
those of `Heap`, over the same variables); `SymTab` has the actions of `Sll` for
its buckets; `NorWrite` takes its walk over blocks from `FlashGeometry`, of
which `VarsizeFrob` checks that walk for all ranges on more geometries than a
model of the whole write could afford. `PrivData` keeps of `write_to_flash` what
its caller depends on: units erased in order, the first locked one ending it,
then areas written in order, by words or by buffer, each of which may fail or be
cut; that one operation does so and leaves the rest of the chip alone is what
`NorWrite` is about. `Heap` implements `BumpAllocator` and `Sll` implements
`SeqLists`, by `INSTANCE ... WITH` a refinement mapping.

Choices that a reader should know of:

- **Order of evaluation.** `steps[temp--] = steps[temp]` (`mtdcore.c:266`) has
  undefined behaviour in C. `NorWrite` picks at the start whether the build
  moves the steps, or assigns each to itself and leaves one uninitialised. The
  properties are about a build that moves them, and say so (`shifted`).
- **Words or buffers.** The probe decides how a chip is programmed; `NorWrite`
  and `PrivData` have both. `do_write_buffer` writes wrong words and may hang;
  the properties that say data is stored, or that operations end, are for chips
  programmed by words.
- **`load flash` goes no further than the download.** `download_file` of this
  commit returns 0 whatever happens (`load_file.c:42-67`), so `command_load_flash`
  returns at line 172 and never comes to `write_to_flash`; before that it may end
  on an uninitialised `ret` (158, 160). `CommandLoadFlash` starts the write that
  follows a download that succeeds: it allows more than the program does, as if
  one of the receivers commented out were back. `write_to_flash` itself is
  reached by a save of the private data and by its name in the shell.
- **Words that are read uninitialised.** `cmd_parse` prints and parses
  `argument1` and `argument2` when no argument was typed (`interp.c:236-242`).
  In `CmdParse` a pointer is `Unset` until the line assigns it, and the step that
  reads an unset one (`ReadArguments`) goes on with any text or goes away, for a
  trap. `PointersLive` says that these two are what is read so, on every such
  line, and that nothing else is.
- **Calling address 0.** An unknown command is reported and called all the same.
  The model's state `gone` is control that went elsewhere and did not come
  back; it is also where a command, or a boot, that does not return ends.
- **The first character.** A line that begins with `@`, `g` or `r` boots or
  jumps before it is parsed, whatever follows.
- **The chip** is external: programming clears bits and sets none, a block is
  erased as a whole, a locked block refuses. It may fail at any operation
  (`MaxFaults` times in one command), and lose power at any moment; what it was
  working on is then undefined, and it comes back with the locks it had or with
  all of them set.
- **Commands' own use of the heap** is left out of `CmdParse`: a call leaves the
  heap alone or does not return.
- **Nobody calls `init_priv_data` at boot.** The saved data is set up, loaded,
  changed and saved by functions that the shell can call by name; `PrivData`
  has them in every order, power cuts in between.
- **Where the saved data is.** `rw.c:57` reads the block at `0x01FC0000`, which
  assumes a flash at address 0; this board has it at `0xff000000`
  (`s3c2440_flash.c:31`), so here a load reads RAM and a save is refused.
  `PrivData` models the code as on a board where the two agree.
- **`CONFIG_PARSE_PRIV_DATA`** is not defined in this repository; it is a
  constant of `PrivData`, whose theorems hold with and without it.
- **What a save reports.** `write_to_flash` returns 0 whatever `write_to_nor`
  returned (`mtdcore.c:359`), so a fault looks like success to the caller: the
  ghost `sound` knows.
- **A save does not unlock.** `save_priv_data_blk` passes no flags (`rw.c:148`),
  so its steps are erase, write and verify. A block that is locked is not erased,
  and that ends the save: after a power cut, on a chip that comes up locked, every
  save ends so. In `PrivData` any of the chip's blocks may be locked or unlocked
  between two saves (`LockBlocks`: the commands `lock` and `unlock`, writes of
  other images), and a cut may lock them all.
- **The table's ends.** `add_mtd_partition` and `del_mtd_partition` look neither
  at the room nor at the sign of the count. An add to a full table writes over the
  magic number and the count of the parameters, the next ones over the parameters
  and then over the command line and its magic number; deleting names that are not
  there takes the count below zero, and an add at -1 writes over the magic number
  and the count of the table. A table that was torn in the flash and loaded has a
  count nobody knows: an add or a delete may then write anywhere in the block
  (`Garble`). All of it is in `PrivData`; what lies outside the block is not. The
  default count of 255 for an array of four copies what lies behind the array
  (`Junk`).
- **Headers read again.** `elf32Load` reads the ELF header and each program
  header out of the image while it moves segments; where a segment has been
  moved over them the model stops in the state `wild`. `g` boots at `0x100000`,
  the address that the header dump in the comment of `elf.c` shows as a segment's
  destination, so such an image does cover its own headers.
- **The device tree grows.** Each boot with the same tree makes it longer by
  `0x3000` and, if all its fix-ups succeed, reserves the spin table once more;
  `Loader` counts both. What a
  kernel that returns has done to memory is left out.
- **libfdt fails.** Any write to the tree may fail, for want of room or because
  its structure is broken, and `fixupDTB` stops there, in the middle of the CPUs
  too; `boot` does not look. A tree of a version before 17, or with its blocks out
  of order, passes `fdt_check_header` and then refuses every write; so may one
  that is still being written sequentially (`fdt.c:69-72`). In `Loader` each of
  these steps may fail at any time and must where the header says so. What a
  failed write leaves of its own (a node `/chosen` without boot line, a name
  without property) is left out.
- **Restart of the heap.** `heap_init` over a live heap, which a user could type
  as a command, is left out.

## The runs and what they show

Every run finishes within about three minutes. Where deadlock is not checked the
system may really stop: the heap overran memory, the table is lost, a walk is
done, the power is off and the bound on commands reached, control is gone.

| run | bounds | why they are enough |
|---|---|---|
| `heap` | room for four headers, a word of 7 bits, sizes from 0 over the rounding and split boundaries to the ones that wrap | split, no split, exact fit, refusal, wrap in the rounding and in the product all occur, in every order |
| `sll` | two lists, four nodes, next pointers arbitrary at the start | removal at the head, middle and end of a list; nodes that move between lists |
| `symtab` | every array of four symbols from seven, over three names in two buckets; three values to look up; tables made again and again | collisions, same names with same and different types, made-up names, symbols between, at and below every value asked for |
| `getcmd` | a buffer of four bytes, seven keys, two characters | wrap, erase at the start, Control-X in front of shorter and longer lines |
| `cmd_parse` | 328 bytes of heap, five lines, words of 8 and of 16 bytes; lines with none, one and two arguments | TLC reaches a refusal at every one of the allocations, memory that would fit again if it were reused, and arguments read unassigned |
| `varsize_frob` | five geometries, every range of each | uniform, bottom boot, top boot, three regions, two chips; every start and length up to past the end |
| `norwrite` | a chip of 16 bytes in blocks of 8, 4, 4; three partition tables; files of 3, 8 and 12 bytes; two operations, a fault in each | the second operation starts from whatever the first left, a cut or a fault included; a partition spans two regions; a file is no multiple of a word, fills a block, or fills a partition |
| `privdata` | room for two partitions, of which the defaults fill one and count two; partitions whose names begin with one another; two chips, one with a single erase block and a write buffer, one with two blocks written word by word; any locks; four changes, two saves, two starts, a fault | the table is overrun at both ends and into the command line; every cut, fault and locked block of a save over an older one, with a load and further changes after it (1.9 million states) |
| `loader` | memory of 15 cells; images of one and two segments, U-Boot images, binaries and refused ones; six places to land; six trees (complete, without CPUs, of version 16, out of order, unfinished, none); any write to a tree may fail; two boots | a segment below the image, on its headers, on its data, on the next segment's source, above it, on the tree; a second boot over what the first left |

- `heap`: type invariant; blocks tile the heap (`HeapTiled`); live grants are
  apart from each other and from headers (`GrantsApart`); a grant has the bytes
  asked for, of `calloc` num elements of sz bytes, exactly if that many and the
  rounding fit in a word, and is too small otherwise (`GrantCoversRequest`); a
  refusal is final (`RefusalIsFinal`); the allocator is a bump allocator
  (`ImplementsBump`).
- `sll`: tails and ends are right although removed nodes keep their pointers
  (`ListsSound`); each list is a sequence (`ImplementsSeqLists`).
- `symtab`: a bucket holds the added symbols of its hash, latest first
  (`BucketsAreStacks`), so a lookup finds the newest (`LookupIsNewest`); a clash
  is refused where clashes are not allowed (`NoClash`); a lookup by value finds
  the nearest below, in whatever order the buckets come
  (`ValueLookupIsNearest`). This holds also when the table is made a second time
  over the same nodes.
- `getcmd`: until the cursor wraps, the line executed is the line edited exactly
  if the byte behind it is not left from a cancelled one (`LineKept`), and it ends
  inside the buffer (`Terminated`).
- `cmd_parse`: on every path, failed allocations included, live strings are what
  is given back, each once, and what is read, but for the null pointer of a copy
  that failed, which is printed, and the two arguments of a line that has none,
  which are always read unassigned (`PointersLive`); a line without arguments
  costs nothing, one with arguments two strings, one whose arguments cannot be
  split the other two (`LeakPerLine`); once out of memory for some length, no
  line as long is executed again (`OutOfMemoryIsFinal`).
- `varsize_frob`: a range is refused if and only if an end is not between two
  blocks (`RefusedIffUnaligned`); the walk visits the blocks of the range in
  order and all of them (`VisitsTheRange`); `find_erase_size` gives exactly the
  blocks of a well placed range (`EraseSizeCovers`). *Well placed* means: it
  starts between two blocks, and at the start of a region if it leaves that
  region. The default partitions are; for other ranges the code is wrong (see
  hazards).
- `norwrite`: an operation changes no byte and no lock outside its blocks,
  whatever fails and wherever it is cut (`OutsideUntouched`); one that ends well
  on a sound chip has stored its data (`CleanDoneStored`), and locked the
  partition again if it is kept locked (`RelockedOnDone`). Every operation on a
  chip programmed by words ends (`OpEnds`). Fairness: weak fairness of
  `Advance`, the steps of the operation itself. The code justifies it because
  `write_to_nor` is a loop on the only thread, whose waits for the chip are
  bounded; commands and power cuts are given no fairness.
- `privdata`: after a save that went word by word and met no locked block, no
  fault and no cut, a load brings back the block that was saved, whatever
  earlier saves, edits, locks and cuts left; an overrun table is noticed, though
  only after the other areas were copied (`SavedIsLoaded`). Of saves that are
  locked out or cut, and of chips with a write buffer, it says nothing: they do
  not keep what is saved. The table is written first and loaded last, so that a
  load that takes it takes all three areas, and those that are whole are of one
  save (`TableBringsTheRest`); a torn area whose magic number survived is loaded
  all the same, which is why it says *whole*. This one holds of every save,
  locked out, cut or garbled. While the count of the table is known, the magic
  number of an area in RAM is lost only once the count reaches it: at -1, at the
  end of the table, or at the last entry that fits before the command line
  (`HeadersKept`). Deleting a name that no earlier one begins with removes that
  partition and keeps the others in order (`DelRemovesNamed`).
- `loader`: memory holds a loaded image as its headers say, the rest as it was,
  for U-Boot images moved over themselves too, and for ELF images whose segments
  keep clear of the headers and of what later segments come from; only others
  lead the loader astray (`LoadedRight`). What is started is what the image said
  when `boot` was called (`StartedAsGiven`); a refused boot leaves memory as it
  was (`RefusedLeavesMemory`); in the tree a kernel gets each fix-up is there
  only behind those before it, wherever libfdt failed: no spin table without boot
  line and all CPUs, no CPU marked without boot line, nothing but the length
  changed in a tree that refuses writes, and nothing of an earlier boot undone
  (`KernelTree`).

### Where the code disagrees with its text

Three runs are expected to find a violation.

- `symtab_fifo`: the comment above `hashTblPut` (`hashLib.c:324`) says that
  identical nodes are kept in FIFO order; they are kept last in, first out.
- `symtab_again`: `hashTblFind` promises NULL for a node that is not found
  (`hashLib.c:355`). `usrStandaloneInit`, typed in the shell, fills the table a
  second time with the same nodes; a bucket becomes a cycle and the search for a
  name that is not there never ends.
- `norverify`: stage 4 of `write_to_flash` is to verify the write
  (`mtdcore.c:338`), but `nor_verify` reads `ofs + 0x10000000`, where this board
  has no flash; a write can end as verified with something else stored.

Two more need no run of their own. The comment above `xmalloc` (`malloc.c:116`)
says that it hangs the system if the allocation fails; it prints a line and
returns the null pointer. The comment above `calloc` (`malloc.c:144-147`) says
that it allocates space for num elements of sz bytes or returns NULL; it
multiplies without looking at the product, and where that wraps it returns a
block for what is left of it. `GrantCoversRequest` holds in both directions and
so says which calls those are: all whose bytes and rounding do not fit in a
word.

## What is proved

Eight modules hold the proofs, each beside what it is about. Every invariant
and every action property of the runs that pass is a theorem, as are both
refinements; TLC shows them on one instance, the theorems for every value of the
constants. `OpEnds` alone is only model-checked.

**Heap.** `HeapProofs` proves, for every base, size, word width and set of
request sizes (under `HeapAssumption`: the heap has room for more than a header,
and ends below the largest address, as 0x1 + 0x3fc00000 < 2^32 does):

- `SpecTypeOK`, `SpecHeapTiled`, `SpecGrantsApart`, `SpecGrantCoversRequest`,
  `SpecRefusalIsFinal`: all the invariants of the run `heap`;
- `SpecImplementsBump`: `Spec` implies `ImplementsBump`, the refinement;
- `SpecIInv`: the inductive invariant the others follow from.

Hardly any of them is inductive alone. That live grants are apart needs the fact
that a grant is the payload of an allocated block, and tiling; that a refusal is
final needs to know that free memory never comes back. `IInv` therefore adds:
only the last block can be free; what it holds is less than every request
refused so far; every live grant is the payload of an allocated block of at
least its size; addresses ascend. The first of these is the heart: `kfree` marks
a block -1 and the search takes only 0, so the only free block is the rest cut
off by the last split. TLC checked the conjuncts first. The proof has one lemma
per case of a step (a split, a block taken whole, a refusal, a call of `kfree`),
arithmetic about rounding apart from reasoning about sequences, and for the
refinement one step per action: a grant maps to `Grant`, a refusal to `Refuse`,
`kfree` to a stutter.

**Lists.** `SllProofs` proves all three properties of the run `sll`, the
refinement included, for any number of lists and any finite set of nodes (under
`SllAssumption`). Neither type nor soundness is inductive: what an operation does
depends on where in its list a node is. `IInv` says that there is a family of
sequences, one per list, that hangs from the heads: each next pointer of a node
in it leads to the following node, the tail is the last (`Linked`), and no node
is at two places (`Apart`). An operation changes one sequence and touches no
pointer of the others; `Rehang` says once what that takes, and each operation has
a lemma that shows it and reads off the action of `SeqLists`. Pointers of nodes
in no list are left arbitrary. `Walk` is a recursion over the number of steps:
that it meets the nodes of the sequence one by one is proved by the least step
at which it would not.

**Symbol table.** `SymTabProofs` proves type, `BucketsAreStacks`,
`LookupIsNewest`, `NoClash` and `ValueLookupIsNearest` for every array of
symbols, every hash function and any number of buckets (under
`SymTabAssumption`). The pointers are those of
`SllProofs`, taken by INSTANCE with buckets for lists. `IInv` adds that a
bucket holds exactly what was added under its hash value and is descending in the
array (`Filed`), and that the array is added in ascending order (`Ascending`): so
the next entry is in no bucket yet, which `sllPutAtHead` relies on, and the first
match in a bucket is the latest of all matches (`FindsLatest`). Another run of
`usrStandaloneInit` on the same table breaks just this, as `symtab_again` shows.
A search by value goes over all buckets, one after the other: `OrderIsAdded` says
that the sequence of symbols it meets holds exactly those added, and
`BestIsNearest` that after `k` of them the search holds a nearest of the first
`k`. Both are shown at the least number at which they would fail. Addresses above
0 are meant (`Addresses`): 0 is what the search starts from.

**Shell.** `CmdParseProofs` proves the four invariants of the run `cmd_parse`,
type, `PointersLive`, `LeakPerLine` and `OutOfMemoryIsFinal`, for every heap and
every set of lines (under `CmdParseAssumption`, which contains the heap's). The
inductive invariant is the heap's own, taken from `HeapProofs` by INSTANCE, with
three more parts:

- `Typed`: which text and which pointer may be there at which statement;
- `Books`: which pointers hold a string granted since the line began, which of
  them may be null, that they are distinct, and that nothing else was granted
  since. It is what makes a string live when it is read, a string not yet given
  back when it is freed, and the leak of a line countable;
- `Budget`: once the first string of the line was granted, what it takes is less
  than anything refused before the line.

`PointersLive` needs one more invariant beside it, `Unassigned`: as long as the
line has not come to split its arguments, nothing has assigned them.

The length of a text is a recursion over its words. That it is a natural number
is proved through the least counterexample among the word counts, not by an
induction theorem.

**Line editor.** `GetCmdProofs` proves the type invariant, `Terminated` and
`LineKept` for a buffer of any size (under `GetCmdAssumption`). `IInv` adds
`Editing`: as long as the position has not wrapped, what stands in the buffer up
to it is what the user has on the line, a byte behind it is NUL unless a
cancelled line left it there, and the last byte is NUL.

**Saved data.** `PrivDataProofs` proves all five properties of the run
`privdata` (under `PrivDataAssumption`: the table has room for its defaults, and
every way to cut the block into erase units covers all of it). `FlashInv` says
what the flash holds in the middle of a save: `Shape` (where the save is, and
that it writes the block as it is in RAM), `SoundInv` (as long as no fault, cut
or locked block has met the save, and only on a chip programmed by words, the
areas erased so far are blank and those written so far hold what is saved) and
`WholeInv` (disturbed or not, all areas that are not torn are from one save, and
none is left of an older one where the present one has been). From it follow
`LoadBringsBack`, `TableIsLast` and `TypesKept`; `HeadersAreKept` and
`DelRemovesOne` are action properties, proved step by step.

**Flash.** `FlashProofs` proves all four invariants of the run `varsize_frob`
and, of the run `norwrite`, type, `CleanDoneStored`, `RelockedOnDone` and
`OutsideUntouched`, whatever the chip, the partition tables, the commands, the
faults and the cuts. What it assumes of a chip is `WellFormed`, what
`cfi_intelext_setup` builds (`GeometriesAssumption` for the walk alone): regions
that follow one another from 0 to the end, each chip starting with one, each at
a multiple of its block size. `NorWriteAssumption` adds that blocks are
multiples of the write buffer, and that partitions and ranges start inside the
flash. The argument:

- *Geometry.* Blocks tile the flash (`SameBlock`); the alignment test of the walk
  accepts exactly the boundaries (`RefusesIff`); a walk that is at a boundary goes
  on to the next, over the border of a region and of a chip, and ends at the end
  of its range (`WalkStart`, `WalkHere`); `find_erase_size` ends with the block of
  the last byte (`ErasedIsCovered`). `VInv`, the inductive invariant of
  `VarsizeFrob`, adds that the blocks visited are those behind the walk.
- *A write.* None of the properties of `NorWrite` is inductive: whether a write
  that ends now has stored its data depends on which steps were taken, in which
  order, and how far each went. `NInv` says that what is left of `steps` is a
  tail of a list `make_steps` can make (`NSteps`); that a walk is at a boundary
  of one of the ranges of its step (`NWalk`); and, for an operation that no
  fault or cut has disturbed on a chip programmed by words, what each finished
  step has established and no later one undoes: unlocked and blank before the
  program, stored up to where it is, locked up to where the last walk is
  (`NStage`, `NErased`). TLC checked `NInv` on the instance of `norwrite` before
  it was proved.

**Image loader.** `LoaderProofs` proves all five properties of the run `loader`
for every image, address and memory size. `LoaderAssumption` says that an image
that is booted lies inside memory; `HeadersAssumption`, that what its headers
name (entry, program headers, source and destination of each segment) does too,
and that no segment comes from the place of a device tree. No check of the code
says so, and it does not hold of every header a file can have: `elf32Load` trusts
the headers, and the theorems are about files whose headers are true of the file.

- `LInv`, for `StartedAsGiven` and `RefusedLeavesMemory`, says that `buf` is the
  header as it was given, that memory is as it was given as long as a refusal is
  possible (every check comes before the first byte moved), and from which
  header `entry` is.
- `LTypes`, for the type, says what stands where in memory; every move preserves
  it, because a move copies cells (`MemmoveIs`, proved at the least turn of the
  loop at which it would be wrong, for both directions).
- `LRight`, for `LoadedRight`, goes round by round: after `i` segments a cell
  holds what the last of the first `i` segments to cover it puts there, or what
  it held when `boot` was called, as long as the headers still to be read and the
  sources still to be moved were not covered.
- `KernelTree` is part of what `LTypes` keeps: trees stand only where a boot may
  be told that one is (`TreesInPlace`), one that is there before `fixupDTB` is the
  one that was given (`TreesSame`), and at each step of `fixupDTB` it is what the
  steps before have made of that one (`FixedUpTo`); whichever step is the last to
  succeed, the property follows (`FixedSoFar`).

## What is only model-checked

- `OpEnds`, that every operation on the flash ends: liveness under fairness is
  beyond the prover, and so is ENABLED, on which fairness rests.
- The three violations: they are runs of the code, not theorems.
- That the values of the constants in the `MC` modules are the interesting ones:
  TLC evaluates the assumptions the proofs rest on for these values.

Induction over data is out of reach of the installed provers, since its theorems
take an operator as a parameter. Where a property rests on what a recursive
function computes (the steps through a bucket, the words of a text, the turns of
`memmove`, the segments of an image, the running totals of a table of regions)
the proof takes the least number at which the claim would fail, which the order
of the natural numbers gives, and shows that there is none.

No module here declares a RECURSIVE operator, so that each can be proved about.

## What is not modelled

PROJECT.json has the reasons per component. In short: the flash probe follows a
null pointer, since the step that fills its table is compiled out, and the raw
flash drivers have their entry points compiled out; `boot_kernel.c` is for an
ARM board and unused; serial port, board set-up and libc keep no state worth a
model; libfdt is vendored, and only the board's own `fdt_util.c` on top of it is
modelled, by what it leaves in the tree. FatFs is vendored too, and the boot
sequence calls only a stub of it, `fat()`. Of the modelled parts, printing and
the second interpreter of `interp.c` (`shell_exec`, which `mainboot` does not
use) are left out.

Of the 470 thousand lines of C in the repository 440 thousand are FatFs, most of
them code pages (tables of eleven thousand lines, repeated for each of its sample
boards) and the drivers and start-up code of those boards, which are not compiled.
The copy in `ff12a`, which is linked, is reached from `fat()` alone. The loader's
own code, with headers, libc and libfdt, is less than a tenth of the whole: a
model of every line of it would not come near a third of what is there.

## Plan

Done: 1 heap, 2 lists and symbol table, 3 flash geometry and writes, 4 line
editor and shell, 5 partition table and 6 saved data (one module, `PrivData`,
since the table lies in front of the parameters), 7 image loader, and 8 the
proofs of all of them. Next, in this order:

9. `SymTab` under `CmdParse`: lookup of the typed name in the table rather than
   in a set, and the allocation of the table from the same heap.
10. `RawFlash`, if its entry points come into use: the sector table that
    `flash_detect_size` builds, and `write_buff` and `cfi_erase` on it.
11. An abstract specification of one operation on the flash (its blocks go from
    what they held to what the operation leaves, nothing else changes, and it may
    be cut in between) that `NorWrite` implements and `PrivData` can use for its
    saves, in place of the units and areas it has now.
