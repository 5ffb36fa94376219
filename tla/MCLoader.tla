------------------------------ MODULE MCLoader ------------------------------
(***************************************************************************)
(* The two calls of boot_init.c, one with a device tree and one without,   *)
(* and images whose parts may land below the image, on its headers, on its *)
(* data, above it, or on the tree.                                         *)
(***************************************************************************)
EXTENDS Loader

MCCalls == {<<6, 12>>, <<1, Null>>}
Landings == {1, 2, 6, 8, 9, 12}

Data(k) == [t |-> "data", n |-> k]
Ehdr(class, sane, phnum) ==
    [t |-> "ehdr", class |-> class, sane |-> sane, entry |-> 2,
     phoff |-> 1, phnum |-> phnum]
Phdr(load, off, paddr, filesz, memsz) ==
    [t |-> "phdr", load |-> load, off |-> off, paddr |-> paddr,
     filesz |-> filesz, memsz |-> memsz]
Uhdr(os, comp, load) ==
    [t |-> "uhdr", os |-> os, comp |-> comp, entry |-> 3, load |-> load, size |-> 3]

\* One segment, which may begin with the headers.
OneSegment ==
    { <<Ehdr(32, TRUE, 1), Phdr(TRUE, off, paddr, filesz, memsz), Data(1), Data(2)>> :
         off \in {0, 2}, paddr \in Landings, filesz \in {1, 2}, memsz \in {2, 3} }

Segments ==
    { Phdr(TRUE, off, paddr, 1, memsz) :
         off \in {3, 4}, paddr \in Landings, memsz \in {1, 2} }
    \union { Phdr(FALSE, 3, 2, 1, 1) }

TwoSegments ==
    { <<Ehdr(32, TRUE, 2), p, q, Data(1), Data(2)>> : p, q \in Segments }

Uimages ==
    { <<Uhdr(os, comp, load), Data(1), Data(2), Data(3)>> :
         os \in {VxWorks, Linux, 0}, comp \in {"none", "gzip"},
         load \in Landings \union {7} }

Others ==
    { <<Ehdr(32, FALSE, 0)>>, <<Ehdr(64, TRUE, 0)>>, <<Data(1), Data(2)>> }

MCImages == OneSegment \union TwoSegments \union Uimages \union Others

FlatTree(finished, version, ordered, cpus) ==
    [t |-> "tree", finished |-> finished, version |-> version, ordered |-> ordered,
     bootargs |-> FALSE, cpus |-> cpus, unmarked |-> IF cpus THEN 2 ELSE 0,
     pads |-> 0, reserved |-> 0]

\* Complete, without CPUs, early, out of order, sequential, and no tree at all.
MCTrees ==
    { FlatTree(TRUE, 17, TRUE, TRUE), FlatTree(TRUE, 17, TRUE, FALSE),
      FlatTree(TRUE, 16, TRUE, TRUE), FlatTree(TRUE, 17, FALSE, TRUE),
      FlatTree(FALSE, 15, TRUE, TRUE), Zero }
==============================================================================
