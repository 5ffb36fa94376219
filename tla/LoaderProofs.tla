----------------------------- MODULE LoaderProofs -----------------------------
(***************************************************************************)
(* Whatever the images are and wherever they are moved, boot starts what   *)
(* the header said when it was called, refuses only before the first move, *)
(* and lays what it loads where the headers said.  The first two do not    *)
(* depend on what the moves do to memory: the entry point and the OS are   *)
(* read before them, or out of boot's copy of the header.                  *)
(***************************************************************************)
EXTENDS Loader, WellFoundedInduction, TLAPS

(***************************************************************************)
(* What boot knows when it is through with the image.                      *)
(***************************************************************************)
Ready ==
    \/ IsElf /\ entry = GivenHeader.entry /\ flags = VxWorks
    \/ IsUimage /\ entry = GivenHeader.entry /\ flags = GivenHeader.os
    \/ IsBinary /\ entry = img

\* Within fixupDTB, and its steps.
Fixing == {"bootargs", "cpus", "reserve"}
Fixup == FixupDTB \/ FixupBootargs \/ FixupCpu \/ AddMemRsv
USE DEF Fixing

Identified ==
    /\ buf = GivenHeader
    /\ pc \in {"identify", "elf32", "uimage"} => mem = given
    /\ pc = "elf32" => GivenHeader.t = "ehdr" /\ GivenHeader.class = 32
    /\ pc = "uimage" => GivenHeader.t = "uhdr"

LInv ==
    /\ pc # "shell" => Identified
    /\ pc \in {"segment", "clear"} => IsElf /\ entry = GivenHeader.entry
    /\ pc \in {"fixup", "start", "kernel"} \union Fixing => Ready

LEMMA InitLInv == Init => LInv
  BY DEF Init, LInv

(***************************************************************************)
(* One lemma for each action, with what it says of a refusal.              *)
(***************************************************************************)
LEMMA BootLInv ==
    ASSUME LInv, NEW c \in Calls, Boot(c)
    PROVE  LInv'
  BY DEF LInv, Boot, Identified, GivenHeader

LEMMA IdentifyLInv ==
    ASSUME LInv, Identify
    PROVE  LInv' /\ (pc' = "shell" => mem' = given)
<1>1. Identified /\ pc = "identify" /\ UNCHANGED <<mem, call, flags>>
  BY DEF LInv, Identify, Goto, Refuse
<1>2. buf = GivenHeader /\ mem = given
  BY <1>1 DEF Identified
<1>3. CASE ImageType(buf) = "unknown" /\ Refuse
  BY <1>1, <1>2, <1>3 DEF LInv, Refuse, Goto
<1>4. CASE ImageType(buf) = "binary" /\ entry' = img /\ pc' = "fixup"
  <2>1. IsBinary
    BY <1>2, <1>4 DEF ImageType, IsBinary
  <2>. QED
    BY <1>1, <1>2, <1>4, <2>1
       DEF LInv, Identified, Ready, call, GivenHeader, IsBinary
<1>5. CASE ImageType(buf) \in {"elf32", "uimage"} /\ Goto(ImageType(buf))
  <2>1. ImageType(buf) = "elf32" => GivenHeader.t = "ehdr" /\ GivenHeader.class = 32
    BY <1>2 DEF ImageType
  <2>2. ImageType(buf) = "uimage" => GivenHeader.t = "uhdr"
    BY <1>2 DEF ImageType
  <2>. QED
    BY <1>1, <1>2, <1>5, <2>1, <2>2 DEF LInv, Identified, Goto, call, GivenHeader
<1>. QED
  BY <1>3, <1>4, <1>5 DEF Identify

LEMMA Elf32LoadLInv ==
    ASSUME LInv, Elf32Load
    PROVE  LInv' /\ (pc' = "shell" => mem' = given)
<1>1. Identified /\ pc = "elf32" /\ mem = given
  BY DEF LInv, Elf32Load, Identified
<1>2. CASE ~mem[img].sane /\ Refuse
  BY <1>1, <1>2 DEF LInv, Refuse, Goto
<1>3. CASE mem[img].sane /\ entry' = mem[img].entry /\ pc' = "segment"
           /\ UNCHANGED <<mem, call, flags>>
  BY <1>1, <1>3 DEF LInv, Identified, IsElf, GivenHeader, call
<1>. QED
  BY <1>2, <1>3 DEF Elf32Load

LEMMA LoadSegmentLInv ==
    ASSUME LInv, LoadSegment
    PROVE  LInv' /\ pc' # "shell"
<1>1. Identified /\ IsElf /\ entry = GivenHeader.entry
  BY DEF LInv, LoadSegment
<1>2. UNCHANGED <<call, entry>>
  BY DEF LoadSegment, Goto
<1>3. \/ pc' \in {"wild", "segment", "clear"}
      \/ pc' = "fixup" /\ flags' = VxWorks
  BY DEF LoadSegment, Goto
<1>. QED
  BY <1>1, <1>2, <1>3 DEF LInv, Identified, Ready, IsElf, GivenHeader, call

LEMMA ClearRestLInv ==
    ASSUME LInv, ClearRest
    PROVE  LInv' /\ pc' # "shell"
<1>1. Identified /\ IsElf /\ entry = GivenHeader.entry
  BY DEF LInv, ClearRest
<1>2. UNCHANGED <<call, entry, flags>> /\ pc' \in {"wild", "segment"}
  BY DEF ClearRest, Goto
<1>. QED
  BY <1>1, <1>2 DEF LInv, Identified, IsElf, GivenHeader, call

LEMMA UimageLoadLInv ==
    ASSUME LInv, UimageLoad
    PROVE  LInv' /\ (pc' = "shell" => mem' = given)
<1>1. /\ Identified /\ mem = given /\ buf = GivenHeader
      /\ Header = GivenHeader /\ GivenHeader.t = "uhdr"
  BY DEF LInv, UimageLoad, Identified, Header, GivenHeader
<1>2. CASE ~UimageSane(Header) /\ Refuse
  BY <1>1, <1>2 DEF LInv, Refuse, Goto
<1>3. CASE /\ UimageSane(Header)
           /\ entry' = Header.entry /\ flags' = buf.os /\ pc' = "fixup"
           /\ UNCHANGED call
  <2>1. IsUimage
    BY <1>1, <1>3 DEF IsUimage, UimageSane
  <2>. QED
    BY <1>1, <1>3, <2>1 DEF LInv, Identified, Ready, IsUimage, GivenHeader, call
<1>. QED
  BY <1>2, <1>3 DEF UimageLoad

LEMMA FixupSteps ==
    ASSUME Fixup
    PROVE  /\ pc \in {"fixup"} \union Fixing /\ pc' \in {"start"} \union Fixing
           /\ UNCHANGED <<call, entry, flags, phdr, i>>
<1>1. CASE FixupDTB
  BY <1>1 DEF FixupDTB, Fixed, Goto
<1>2. CASE FixupBootargs
  BY <1>2 DEF FixupBootargs, Fixed, Goto
<1>3. CASE FixupCpu
  BY <1>3 DEF FixupCpu, Fixed, Goto
<1>4. CASE AddMemRsv
  BY <1>4 DEF AddMemRsv, Fixed, Goto
<1>. QED
  BY <1>1, <1>2, <1>3, <1>4 DEF Fixup

LEMMA FixupLInv ==
    ASSUME LInv, Fixup
    PROVE  LInv' /\ pc' # "shell"
  BY FixupSteps DEF LInv, Identified, Ready, IsElf, IsUimage, IsBinary, GivenHeader, call

(***************************************************************************)
(* The check of the OS after the load refuses nothing.                     *)
(***************************************************************************)
LEMMA StartLInv ==
    ASSUME LInv, Start
    PROVE  LInv' /\ pc' # "shell"
<1>1. Ready /\ buf = GivenHeader
  BY DEF LInv, Start, Identified
<1>2. IsBinary => ImageType(buf) = "binary"
  BY <1>1 DEF IsBinary, ImageType
<1>3. Goto("kernel")
  BY <1>1, <1>2 DEF Start, Ready, IsUimage
<1>. QED
  BY <1>1, <1>3
     DEF LInv, Goto, Identified, Ready, IsElf, IsUimage, IsBinary, GivenHeader, call

LEMMA NextLInv ==
    ASSUME LInv, [Next]_vars
    PROVE  LInv'
<1>1. CASE KernelReturns
  BY <1>1 DEF LInv, KernelReturns, Goto
<1>2. CASE UNCHANGED vars
  BY <1>2 DEF LInv, vars, call, Identified, Ready, IsElf, IsUimage, IsBinary, GivenHeader
<1>. QED
  BY <1>1, <1>2, BootLInv, IdentifyLInv, Elf32LoadLInv, LoadSegmentLInv, ClearRestLInv,
     UimageLoadLInv, FixupLInv, StartLInv DEF Next, Fixup

THEOREM LoaderInvariant == Spec => []LInv
  BY InitLInv, NextLInv, PTL DEF Spec

(***************************************************************************)
(* What is started is what the image said when boot was called, whatever   *)
(* the load has done to the header since.                                  *)
(***************************************************************************)
THEOREM StartedIsGiven == Spec => []StartedAsGiven
<1>1. LInv => StartedAsGiven
  BY DEF LInv, Ready, StartedAsGiven
<1>. QED
  BY <1>1, LoaderInvariant, PTL

(***************************************************************************)
(* A boot that is refused leaves memory as it was when boot was called.    *)
(***************************************************************************)
THEOREM RefusedIsHarmless == Spec => RefusedLeavesMemory
<1>1. LInv /\ [Next]_vars =>
         [pc \notin {"shell", "kernel"} /\ pc' = "shell" => mem' = given]_vars
  <2> SUFFICES ASSUME LInv, Next, pc \notin {"shell", "kernel"}, pc' = "shell"
               PROVE  mem' = given
    OBVIOUS
  <2>1. ASSUME NEW c \in Calls, Boot(c) PROVE FALSE
    BY <2>1 DEF Boot
  <2>2. CASE KernelReturns
    BY <2>2 DEF KernelReturns
  <2>. QED
    BY <2>1, <2>2, IdentifyLInv, Elf32LoadLInv, LoadSegmentLInv, ClearRestLInv,
       UimageLoadLInv, FixupLInv, StartLInv DEF Next, Fixup
<1>. QED
  BY <1>1, LoaderInvariant, PTL DEF Spec, RefusedLeavesMemory
------------------------------------------------------------------------------
(***************************************************************************)
(* What a move leaves: Memmove, which bcopy does cell by cell, takes every *)
(* cell from where it was, however the two places overlap.                 *)
(***************************************************************************)
LEMMA LeastCase ==
    ASSUME NEW S \in SUBSET Nat, S # {}
    PROVE  \E n \in S : \A m \in S : n <= m
<1> DEFINE R == {ss \in Nat \X Nat : ss[1] < ss[2]}
<1>0. IsWellFoundedOn(R, Nat)
  BY NatLessThanWellFounded DEF OpToRel
<1>1. PICK x \in S : \A y \in S : <<y, x>> \notin R
  <2> HIDE DEF R
  <2>. QED
    BY <1>0, WFMin
<1>2. \A y \in S : x <= y
  <2> SUFFICES ASSUME NEW y \in S, y < x PROVE FALSE
    OBVIOUS
  <2>1. <<y, x>> \in Nat \X Nat /\ <<y, x>>[1] = y /\ <<y, x>>[2] = x
    OBVIOUS
  <2>2. <<y, x>> \in R
    BY <2>1
  <2>. QED
    BY <1>1, <2>2
<1>. QED
  BY <1>2

\* The offsets of the cells that the first k turns move.
Turned(to, from, n, k) == IF from < to THEN n - k .. n - 1 ELSE 0 .. k - 1

MovedBy(m, to, from, n, k) ==
    [a \in Addr |-> IF a - to \in Turned(to, from, n, k) THEN m[from + (a - to)] ELSE m[a]]

\* The source of a turn is a cell that no turn before it has moved onto.
AfterTurn(before, to, from, n, k) ==
    [before EXCEPT ![to + Turn(to, from, n, k)] = before[from + Turn(to, from, n, k)]]

LEMMA OneTurn ==
    ASSUME NEW S, NEW m \in [Addr -> S], NEW to \in Nat, NEW from \in Nat, NEW n \in Nat,
           to + n <= Size, from + n <= Size, NEW k \in 1 .. n
    PROVE  MovedBy(m, to, from, n, k) = AfterTurn(MovedBy(m, to, from, n, k - 1), to, from, n, k)
<1> DEFINE at == Turn(to, from, n, k)
           new(a) == a - to \in Turned(to, from, n, k)
           old(a) == a - to \in Turned(to, from, n, k - 1)
<1>1. at \in 0 .. n - 1
  BY DEF Turn
<1>2. Size \in Nat
  BY LoaderAssumption
<1>3. from + at \in Addr /\ to + at \in Addr
  BY <1>1, <1>2 DEF Addr
<1>4. ~old(from + at)
  BY <1>1 DEF Turn, Turned
<1>5. \A a \in Addr : new(a) <=> old(a) \/ a = to + at
  BY <1>2 DEF Turn, Turned, Addr
<1>6. from + ((to + at) - to) = from + at
  BY <1>1
<1>7. MovedBy(m, to, from, n, k - 1)[from + at] = m[from + at]
  BY <1>3, <1>4 DEF MovedBy
<1> DEFINE before == MovedBy(m, to, from, n, k - 1)
<1>8. before = [a \in Addr |-> IF old(a) THEN m[from + (a - to)] ELSE m[a]]
  BY DEF MovedBy
<1>9. MovedBy(m, to, from, n, k) = [a \in Addr |-> IF new(a) THEN m[from + (a - to)] ELSE m[a]]
  BY DEF MovedBy
<1> HIDE DEF at, new, old, before
<1>10. [before EXCEPT ![to + at] = before[from + at]] =
          [a \in Addr |-> IF a = to + at THEN m[from + at]
                          ELSE IF old(a) THEN m[from + (a - to)] ELSE m[a]]
  BY <1>7, <1>8, <1>3 DEF before
<1>11. ASSUME NEW a \in Addr
       PROVE  (IF new(a) THEN m[from + (a - to)] ELSE m[a]) =
              (IF a = to + at THEN m[from + at]
               ELSE IF old(a) THEN m[from + (a - to)] ELSE m[a])
  BY <1>5, <1>6
<1>. QED
  BY <1>9, <1>10, <1>11 DEF at, before, AfterTurn

\* after of Memmove, with the operator it is applied to.
Turns(m, to, from, n) ==
    CHOOSE after :
        after = [k \in 0 .. n |->
                    IF k = 0 THEN m
                    ELSE [after[k - 1] EXCEPT
                             ![to + Turn(to, from, n, k)] =
                                 after[k - 1][from + Turn(to, from, n, k)]]]

LEMMA MemmoveTurns == ASSUME NEW m, NEW to, NEW from, NEW n
                      PROVE  Memmove(m, to, from, n) = Turns(m, to, from, n)[n]
BY DEF Memmove, Turns

MovedAll(m, to, from, n) ==
    [a \in Addr |-> IF a \in to .. to + n - 1 THEN m[from + (a - to)] ELSE m[a]]

LEMMA MemmoveIs ==
    ASSUME NEW S, NEW m \in [Addr -> S], NEW to \in Nat, NEW from \in Nat, NEW n \in Nat,
           to + n <= Size, from + n <= Size
    PROVE  Memmove(m, to, from, n) = MovedAll(m, to, from, n)
<1> DEFINE after(b, k) == AfterTurn(b, to, from, n, k)
           closed(k) == MovedBy(m, to, from, n, k)
           IsIt(f) == f = [k \in 0 .. n |->
                              IF k = 0 THEN m
                              ELSE after(f[k - 1], k)]
           f0 == [k \in 0 .. n |-> closed(k)]
<1>1. closed(0) = m
  <2>1. Turned(to, from, n, 0) = {}
    BY DEF Turned
  <2>2. closed(0) = [a \in Addr |-> m[a]]
    BY <2>1 DEF MovedBy
  <2>. QED
    BY <2>2
<1>2. \A k \in 1 .. n : closed(k) = after(closed(k - 1), k)
  BY OneTurn
<1> HIDE DEF closed, after
<1>3. IsIt(f0)
  <2>1. ASSUME NEW k \in 0 .. n
        PROVE  f0[k] = IF k = 0 THEN m
                       ELSE after(f0[k - 1], k)
    <3>1. CASE k = 0
      BY <1>1, <3>1
    <3>2. CASE k # 0
      <4>1. k \in 1 .. n /\ k - 1 \in 0 .. n
        BY <3>2
      <4>2. f0[k] = closed(k) /\ f0[k - 1] = closed(k - 1)
        BY <4>1
      <4>. QED
        BY <1>2, <3>2, <4>1, <4>2
    <3>. QED
      BY <3>1, <3>2
  <2>. QED
    BY <2>1
<1> DEFINE f == CHOOSE g : IsIt(g)
<1>4. IsIt(f)
  BY <1>3
<1>5. Turns(m, to, from, n) = f
  BY DEF Turns, after, AfterTurn
<1>6. /\ f[0] = m
      /\ \A k \in 1 .. n : f[k] = after(f[k - 1], k)
  <2> HIDE DEF f
  <2>1. 0 \in 0 .. n /\ \A k \in 1 .. n : k \in 0 .. n /\ k # 0
    OBVIOUS
  <2>2. \A k \in 0 .. n : f[k] = IF k = 0 THEN m
                                ELSE after(f[k - 1], k)
    BY <1>4, Zenon
  <2>. QED
    BY <2>1, <2>2
<1> HIDE DEF f, f0, IsIt
<1>7. \A k \in 0 .. n : f[k] = closed(k)
  <2> SUFFICES ASSUME NEW j \in 0 .. n, f[j] # closed(j) PROVE FALSE
    OBVIOUS
  <2> DEFINE Bad == {k \in 0 .. n : f[k] # closed(k)}
  <2>1. Bad \in SUBSET Nat /\ Bad # {}
    OBVIOUS
  <2>2. PICK k \in Bad : \A b \in Bad : k <= b
    <3> HIDE DEF Bad
    <3>. QED
      BY <2>1, LeastCase
  <2>3. k \in 1 .. n
    BY <1>1, <1>6
  <2>4. f[k - 1] = closed(k - 1)
    BY <2>2, <2>3
  <2>. QED
    BY <1>2, <1>6, <2>3, <2>4
<1>8. Memmove(m, to, from, n) = closed(n)
  BY <1>5, <1>7, MemmoveTurns
<1>9. \A a \in Addr : a - to \in Turned(to, from, n, n) <=> a \in to .. to + n - 1
  BY LoaderAssumption DEF Turned, Addr
<1>. QED
  BY <1>8, <1>9 DEF closed, MovedBy, MovedAll

MoveDone(S, m, to, from, n, r) ==
    /\ r \in [Addr -> S]
    /\ \A a \in to .. to + n - 1 :
          /\ a \in Addr
          /\ from + (a - to) \in from .. from + n - 1 /\ from + (a - to) \in Addr
          /\ r[a] = m[from + (a - to)]
    /\ \A a \in Addr : a \notin to .. to + n - 1 => r[a] = m[a]

LEMMA MoveInMemory ==
    ASSUME NEW S, NEW m \in [Addr -> S], NEW to \in Nat, NEW from \in Nat, NEW n \in Nat,
           to + n <= Size, from + n <= Size
    PROVE  MoveDone(S, m, to, from, n, Memmove(m, to, from, n))
<1>1. Size \in Nat
  BY LoaderAssumption
<1>2. Memmove(m, to, from, n) = MovedAll(m, to, from, n)
  BY MemmoveIs
<1>3. \A a \in to .. to + n - 1 :
         a \in Addr /\ from + (a - to) \in from .. from + n - 1 /\ from + (a - to) \in Addr
  BY <1>1 DEF Addr
<1> DEFINE moved == Memmove(m, to, from, n)
<1> HIDE DEF moved
<1>. QED
  BY <1>2, <1>3 DEF MovedAll, MoveDone

------------------------------------------------------------------------------
(***************************************************************************)
(* The cells memory can hold, and what the loaders may believe of them.    *)
(***************************************************************************)
OldCells == {Old(a) : a \in Addr}
Cells == ImageCells \union Trees \union Tree \union OldCells \union {Zero}

LEMMA CellFacts ==
    ASSUME NEW cell \in Cells
    PROVE  /\ cell.t = "ehdr"              => cell \in ImageCells /\ EhdrFits(cell)
           /\ cell.t = "phdr" /\ cell.load => PhdrFits(cell)
           /\ cell.t = "uhdr"              => UhdrFits(cell)
           /\ cell.t = "tree"              => cell \in Tree
<1>1. CASE cell \in ImageCells
  BY <1>1, HeadersAssumption
<1>2. CASE cell \in Trees /\ cell \notin Tree
  BY <1>2, HeadersAssumption
<1>3. CASE cell \in Tree
  BY <1>3 DEF Tree
<1>4. CASE cell \in OldCells
  BY <1>4 DEF OldCells, Old
<1>5. CASE cell = Zero
  BY <1>5 DEF Zero
<1>. QED
  BY <1>1, <1>2, <1>3, <1>4, <1>5 DEF Cells

Places == {c[1] : c \in Calls}

LEMMA PlaceFacts ==
    ASSUME NEW at \in Places
    PROVE  at \in Addr /\ at \in Nat /\ \E c \in Calls : c[1] = at
<1>1. PICK c \in Calls : c[1] = at
  BY DEF Places
<1>2. c \in Addr \X (Addr \union {Null})
  BY LoaderAssumption
<1>. QED
  BY <1>1, <1>2, LoaderAssumption DEF Addr

\* The source of a segment, and of a U-Boot image, from a header in a cell.
LEMMA SegmentMoves ==
    ASSUME NEW at \in Places, NEW p \in Cells, p.t = "phdr", p.load
    PROVE  /\ p.off \in Nat /\ p.paddr \in Nat /\ p.filesz \in Nat /\ p.memsz \in Nat
           /\ at + p.off \in Nat
           /\ p.paddr + p.memsz <= Size
           /\ Movable(at + p.off, p.paddr, p.filesz)
<1>1. PhdrFits(p) /\ at \in Nat
  BY CellFacts, PlaceFacts
<1>2. PICK c \in Calls : c[1] = at
  BY PlaceFacts
<1>. QED
  BY <1>1, <1>2 DEF PhdrFits

LEMMA UimageMoves ==
    ASSUME NEW at \in Places, NEW h \in Cells, h.t = "uhdr"
    PROVE  /\ h.entry \in Addr /\ h.load \in Nat /\ h.size \in Nat
           /\ Movable(at + 1, h.load, h.size)
<1>1. UhdrFits(h) /\ at \in Nat
  BY CellFacts, PlaceFacts
<1>2. PICK c \in Calls : c[1] = at
  BY PlaceFacts
<1>. QED
  BY <1>1, <1>2 DEF UhdrFits

LEMMA HeaderFits ==
    ASSUME NEW at \in Places, NEW h \in Cells, h.t = "ehdr"
    PROVE  /\ h.entry \in Addr /\ h.phoff \in Nat /\ h.phnum \in Nat
           /\ \A other \in Cells : other.t = "ehdr" => at + h.phoff + other.phnum \in Addr
<1>1. EhdrFits(h) /\ at \in Nat
  BY CellFacts, PlaceFacts
<1>2. PICK c \in Calls : c[1] = at
  BY PlaceFacts
<1>3. \A other \in Cells : other.t = "ehdr" => other \in ImageCells
  BY CellFacts
<1>. QED
  BY <1>1, <1>2, <1>3 DEF EhdrFits

\* Tree cells are nowhere but where device trees are.
TreesInPlace(m) == \A a \in Addr : m[a].t = "tree" => a \in TreePlaces

\* A tree that is there is the one that was there before.
TreesSame(m, g) == \A a \in Addr : m[a].t = "tree" => m[a] = g[a]

LEMMA MoveKeepsTrees ==
    ASSUME NEW m \in [Addr -> Cells], NEW g, TreesInPlace(m), TreesSame(m, g),
           NEW to \in Nat, NEW from \in Nat, NEW n \in Nat, Movable(from, to, n)
    PROVE  /\ Memmove(m, to, from, n) \in [Addr -> Cells]
           /\ TreesInPlace(Memmove(m, to, from, n))
           /\ TreesSame(Memmove(m, to, from, n), g)
<1> DEFINE r == Memmove(m, to, from, n)
<1>1. MoveDone(Cells, m, to, from, n, r)
  BY MoveInMemory DEF Movable
<1> HIDE DEF r
<1>2. \A a \in Addr : r[a].t = "tree" => r[a] = m[a]
  <2> SUFFICES ASSUME NEW a \in Addr, r[a].t = "tree" PROVE a \notin to .. to + n - 1
    BY <1>1 DEF MoveDone
  <2> SUFFICES ASSUME a \in to .. to + n - 1 PROVE FALSE
    OBVIOUS
  <2>1. /\ from + (a - to) \in from .. from + n - 1
        /\ from + (a - to) \in Addr
        /\ r[a] = m[from + (a - to)]
    BY <1>1 DEF MoveDone
  <2>2. from + (a - to) \notin TreePlaces
    BY <2>1 DEF Movable
  <2>. QED
    BY <2>1, <2>2 DEF TreesInPlace
<1>3. TreesInPlace(r) /\ TreesSame(r, g)
  BY <1>2 DEF TreesInPlace, TreesSame
<1>. QED
  BY <1>1, <1>3 DEF r, MoveDone

LEMMA ClearKeepsTrees ==
    ASSUME NEW m \in [Addr -> Cells], NEW g, TreesInPlace(m), TreesSame(m, g), NEW at, NEW n
    PROVE  /\ Bzero(m, at, n) \in [Addr -> Cells]
           /\ TreesInPlace(Bzero(m, at, n))
           /\ TreesSame(Bzero(m, at, n), g)
<1>1. Zero \in Cells /\ Zero.t # "tree"
  BY DEF Cells, Zero
<1>2. Bzero(m, at, n) \in [Addr -> Cells]
  BY <1>1 DEF Bzero
<1>3. \A a \in Addr : Bzero(m, at, n)[a].t = "tree" => Bzero(m, at, n)[a] = m[a]
  BY <1>1 DEF Bzero
<1>. QED
  BY <1>2, <1>3 DEF TreesInPlace, TreesSame

------------------------------------------------------------------------------
(***************************************************************************)
(* Memory and the device tree, by an invariant of the types.               *)
(***************************************************************************)
\* What the kernel's tree is to the one boot found.
TreeFixed(was, now) ==
    /\ now.pads = was.pads + 1
    /\ was.bootargs => now.bootargs
    /\ now.unmarked <= was.unmarked
    /\ now.reserved \in {was.reserved, was.reserved + 1}
    /\ now.unmarked < was.unmarked => now.bootargs
    /\ now.reserved > was.reserved => now.bootargs /\ now.cpus /\ now.unmarked = 0
    /\ ~Writable(was) => now = [was EXCEPT !.pads = @ + 1]

\* What it is at the step of fixupDTB that comes next.
FixedUpTo(step, was, now) ==
    /\ was \in Tree /\ now \in Tree
    /\ now.pads = was.pads + 1 /\ now.reserved = was.reserved
    /\ step = "bootargs" => now = [was EXCEPT !.pads = @ + 1]
    /\ step # "bootargs" => Writable(was) /\ now.bootargs
    /\ IF step = "reserve" THEN now.cpus /\ now.unmarked = 0 ELSE now.unmarked = was.unmarked

LEMMA FixedSoFar ==
    ASSUME NEW step, NEW was, NEW now, FixedUpTo(step, was, now)
    PROVE  TreeFixed(was, now)
<1>1. /\ was \in Tree /\ now \in Tree
      /\ now.pads = was.pads + 1 /\ now.reserved = was.reserved
      /\ was.unmarked \in Nat /\ now.unmarked \in Nat /\ was.reserved \in Nat
  BY DEF FixedUpTo, Tree
<1>2. CASE step = "bootargs"
  <2>1. now = [was EXCEPT !.pads = @ + 1]
    BY <1>2 DEF FixedUpTo
  <2>. QED
    BY <1>1, <2>1 DEF TreeFixed, Tree
<1>3. CASE step # "bootargs"
  <2>1. Writable(was) /\ now.bootargs /\ now.unmarked <= was.unmarked
    BY <1>1, <1>3 DEF FixedUpTo
  <2>. QED
    BY <1>1, <2>1 DEF TreeFixed
<1>. QED
  BY <1>2, <1>3

\* The rounds of elf32Load: it counts below what a header says.
Counted(n) == n = 0 \/ \E h \in Cells : h.t = "ehdr" /\ n <= h.phnum

Labels == {"shell", "identify", "elf32", "segment", "clear", "uimage",
           "fixup", "start", "kernel", "wild"} \union Fixing
Loads == {"identify", "elf32", "segment", "clear", "uimage", "fixup"}

Memories == mem \in [Addr -> Cells] /\ given \in [Addr -> Cells]
Called ==
    /\ pc \in Labels /\ boots \in Nat
    /\ boots = 0 => pc = "shell"
    /\ boots # 0 => <<img, tree>> \in Calls
Decided ==
    /\ flags \in {0, VxWorks, Linux}
    /\ pc \in {"segment", "clear", "fixup", "start", "kernel"} \union Fixing => entry \in Addr
AtSegment ==
    /\ pc \in {"segment", "clear"} =>
          phdr = img + GivenHeader.phoff /\ i \in Nat /\ Counted(i)
    /\ pc = "clear" => Counted(i + 1)
TreeKept ==
    /\ TreesInPlace(mem)
    /\ pc \in Loads => TreesSame(mem, given)
    /\ pc \in {"start", "kernel"} /\ tree # Null /\ IsTree(mem[tree]) =>
          TreeFixed(given[tree], mem[tree])
    /\ pc \in Fixing => tree # Null /\ FixedUpTo(pc, given[tree], mem[tree])

LTypes == Memories /\ Called /\ Decided /\ AtSegment /\ TreeKept

LEMMA CalledPlaces ==
    ASSUME Called, pc # "shell"
    PROVE  /\ <<img, tree>> \in Calls /\ img \in Places /\ img \in Addr
           /\ tree # Null => tree \in Addr /\ tree \in TreePlaces
<1>1. <<img, tree>> \in Calls
  BY DEF Called
<1>2. <<img, tree>>[1] = img /\ <<img, tree>>[2] = tree
  OBVIOUS
<1>3. <<img, tree>> \in Addr \X (Addr \union {Null})
  BY <1>1, LoaderAssumption
<1>. QED
  BY <1>1, <1>2, <1>3 DEF Places, TreePlaces

LEMMA InitLTypes == Init => LTypes
<1> SUFFICES ASSUME Init PROVE LTypes
  OBVIOUS
<1>1. PICK c \in Calls, image \in Images, fdt \in Trees :
         mem = [a \in Addr |->
                   IF a \in c[1] .. c[1] + Len(image) - 1 THEN image[a - c[1] + 1]
                   ELSE IF a \in TreePlaces THEN fdt ELSE Old(a)]
  BY DEF Init
<1>2. c[1] \in Nat /\ Len(image) \in Nat
  <2>1. image \in Seq(Range(image))
    BY LoaderAssumption
  <2>2. c \in Addr \X (Addr \union {Null})
    BY LoaderAssumption
  <2>. QED
    BY <2>1, <2>2, LoaderAssumption DEF Addr
<1>3. ASSUME NEW a \in c[1] .. c[1] + Len(image) - 1
      PROVE  image[a - c[1] + 1] \in ImageCells
  <2>1. a - c[1] + 1 \in 1 .. Len(image)
    BY <1>2
  <2>2. image \in Seq(Range(image))
    BY LoaderAssumption
  <2>3. image[a - c[1] + 1] \in Range(image)
    BY <2>1, <2>2
  <2>. QED
    BY <2>3 DEF ImageCells
<1>4. ASSUME NEW a \in Addr
      PROVE  mem[a] \in Cells /\ (mem[a].t = "tree" => a \in TreePlaces)
  <2>1. CASE a \in c[1] .. c[1] + Len(image) - 1
    <3>1. mem[a] = image[a - c[1] + 1]
      BY <1>1, <2>1, Zenon
    <3>2. mem[a] \in ImageCells
      BY <1>3, <2>1, <3>1
    <3>3. mem[a].t # "tree"
      BY <3>2, HeadersAssumption
    <3>. QED
      BY <3>2, <3>3 DEF Cells
  <2>2. CASE a \notin c[1] .. c[1] + Len(image) - 1 /\ a \in TreePlaces
    BY <1>1, <2>2 DEF Cells
  <2>3. CASE a \notin c[1] .. c[1] + Len(image) - 1 /\ a \notin TreePlaces
    <3>1. mem[a] = Old(a)
      BY <1>1, <2>3
    <3>. QED
      BY <3>1 DEF Cells, OldCells, Old
  <2>. QED
    BY <2>1, <2>2, <2>3
<1>5. mem \in [Addr -> Cells]
  BY <1>1, <1>4
<1>. QED
  BY <1>4, <1>5 DEF Init, LTypes, Memories, Called, Labels, Decided, AtSegment, TreeKept,
     TreesInPlace, Loads

LEMMA BootLTypes ==
    ASSUME LTypes, NEW c \in Calls, Boot(c)
    PROVE  LTypes'
<1>1. c \in Addr \X (Addr \union {Null})
  BY LoaderAssumption
<1>2. <<c[1], c[2]>> = c
  BY <1>1
<1>3. /\ mem' = mem /\ given' = mem /\ pc' = "identify" /\ boots' = boots + 1
      /\ img' = c[1] /\ tree' = c[2] /\ flags' = 0
  BY DEF Boot
<1>4. Memories'
  BY <1>3 DEF LTypes, Memories
<1>5. Called'
  BY <1>2, <1>3 DEF LTypes, Called, Labels
<1>6. TreeKept'
  BY <1>3 DEF LTypes, TreeKept, TreesInPlace, TreesSame
<1>. QED
  BY <1>3, <1>4, <1>5, <1>6 DEF LTypes, Decided, AtSegment

LEMMA IdentifyLTypes ==
    ASSUME LInv, LTypes, Identify
    PROVE  LTypes'
<1>1. /\ pc = "identify" /\ UNCHANGED <<mem, call, flags>>
      /\ pc' \in {"shell", "fixup", "elf32", "uimage"}
      /\ pc' = "fixup" => entry' = img
  BY DEF Identify, Goto, Refuse
<1>2. img \in Addr
  BY <1>1, CalledPlaces DEF LTypes
<1>3. Memories' /\ Called'
  BY <1>1 DEF LTypes, Memories, Called, Labels, call
<1>4. Decided' /\ AtSegment'
  BY <1>1, <1>2 DEF LTypes, Decided, AtSegment
<1>5. TreeKept'
  BY <1>1 DEF LTypes, TreeKept, TreesInPlace, TreesSame, Loads, call
<1>. QED
  BY <1>3, <1>4, <1>5 DEF LTypes

LEMMA Elf32LoadLTypes ==
    ASSUME LInv, LTypes, Elf32Load
    PROVE  LTypes'
<1>1. /\ pc = "elf32" /\ UNCHANGED <<mem, call, flags>>
      /\ mem[img] = GivenHeader /\ GivenHeader.t = "ehdr"
  BY DEF LInv, Identified, Elf32Load, Refuse, Goto, GivenHeader
<1>2. /\ pc' \in {"shell", "segment"}
      /\ pc' = "segment" =>
            entry' = GivenHeader.entry /\ phdr' = img + GivenHeader.phoff /\ i' = 0
  BY <1>1 DEF Elf32Load, Refuse, Goto
<1>3. img \in Places /\ img \in Addr /\ GivenHeader \in Cells
  BY <1>1, CalledPlaces DEF LTypes, Memories, GivenHeader
<1>4. GivenHeader.entry \in Addr
  BY <1>1, <1>3, HeaderFits
<1>5. Memories' /\ Called'
  BY <1>1, <1>2 DEF LTypes, Memories, Called, Labels, call
<1>6. Decided' /\ AtSegment'
  BY <1>1, <1>2, <1>4 DEF LTypes, Decided, AtSegment, Counted, GivenHeader, call
<1>7. TreeKept'
  BY <1>1, <1>2 DEF LTypes, TreeKept, TreesInPlace, TreesSame, Loads, call
<1>. QED
  BY <1>5, <1>6, <1>7 DEF LTypes

\* What both actions of a round find.
LEMMA AtRound ==
    ASSUME LInv, LTypes, pc \in {"segment", "clear"}
    PROVE  /\ img \in Places /\ img \in Addr /\ i \in Nat
           /\ GivenHeader \in Cells /\ GivenHeader.t = "ehdr" /\ IsElf
           /\ phdr = img + GivenHeader.phoff
           /\ phdr + i \in Addr
<1>1. pc \in {"segment", "clear"} /\ pc # "shell"
  OBVIOUS
<1>2. img \in Places /\ img \in Addr
  BY <1>1, CalledPlaces DEF LTypes
<1>3. IsElf /\ GivenHeader.t = "ehdr" /\ GivenHeader \in Cells
  BY <1>1, <1>2 DEF LInv, IsElf, LTypes, Memories, GivenHeader
<1>4. phdr = img + GivenHeader.phoff /\ i \in Nat /\ Counted(i)
  BY <1>1 DEF LTypes, AtSegment
<1>5. /\ GivenHeader.phoff \in Nat /\ GivenHeader.phnum \in Nat
      /\ \A other \in Cells :
            other.t = "ehdr" => img + GivenHeader.phoff + other.phnum \in Addr
  BY <1>2, <1>3, HeaderFits
<1>6. \E h \in Cells : h.t = "ehdr" /\ i <= h.phnum
  BY <1>3, <1>4, <1>5 DEF Counted
<1>7. PICK h \in Cells : h.t = "ehdr" /\ i <= h.phnum
  BY <1>6
<1>8. h.phnum \in Nat /\ img + GivenHeader.phoff + h.phnum \in Addr
  BY <1>2, <1>5, <1>7, HeaderFits
<1>9. phdr + i \in Addr
  <2>1. Size \in Nat /\ img \in Nat
    BY <1>2, LoaderAssumption DEF Addr
  <2>2. phdr + i \in 0 .. img + GivenHeader.phoff + h.phnum
    BY <1>4, <1>5, <1>7, <1>8, <2>1
  <2>3. img + GivenHeader.phoff + h.phnum \in 0 .. Size - 1
    BY <1>8 DEF Addr
  <2>. QED
    BY <2>1, <2>2, <2>3 DEF Addr
<1>. QED
  BY <1>2, <1>3, <1>4, <1>9

LEMMA LoadSegmentLTypes ==
    ASSUME LInv, LTypes, LoadSegment
    PROVE  LTypes'
<1>1. pc = "segment" /\ UNCHANGED <<call, entry, phdr>>
      /\ pc' \in {"wild", "fixup", "segment", "clear"}
      /\ flags' \in {flags, VxWorks}
  BY DEF LoadSegment, Goto
<1>2. /\ img \in Places /\ img \in Addr /\ i \in Nat
      /\ phdr = img + GivenHeader.phoff /\ phdr + i \in Addr
  BY <1>1, AtRound
<1>3. Called' /\ Decided'
  BY <1>1 DEF LTypes, Called, Decided, Labels, call
<1>4. mem \in [Addr -> Cells] /\ Header \in Cells /\ Segment \in Cells
  BY <1>2 DEF LTypes, Memories, Header, Segment
<1>5. GivenHeader' = GivenHeader
  BY <1>1 DEF GivenHeader, call
<1>6. CASE /\ pc' = "clear" /\ i' = i /\ Header.t = "ehdr" /\ i < Header.phnum
           /\ Segment.t = "phdr" /\ Segment.load
           /\ mem' = Memmove(mem, Segment.paddr, img + Segment.off, Segment.filesz)
  <2>1. /\ Segment.paddr \in Nat /\ img + Segment.off \in Nat /\ Segment.filesz \in Nat
        /\ Movable(img + Segment.off, Segment.paddr, Segment.filesz)
    BY <1>2, <1>4, <1>6, SegmentMoves
  <2>2. TreesInPlace(mem) /\ TreesSame(mem, given)
    BY <1>1 DEF LTypes, TreeKept, Loads
  <2>3. mem' \in [Addr -> Cells] /\ TreesInPlace(mem') /\ TreesSame(mem', given)
    BY <1>4, <1>6, <2>1, <2>2, MoveKeepsTrees
  <2>4. Header.phnum \in Nat
    BY <1>2, <1>4, <1>6, HeaderFits
  <2>5. Counted(i + 1)
    BY <1>2, <1>4, <1>6, <2>4 DEF Counted
  <2>6. Memories' /\ TreeKept'
    BY <1>1, <1>6, <2>3 DEF LTypes, Memories, TreeKept, call
  <2>7. AtSegment'
    BY <1>1, <1>5, <1>6, <2>5 DEF LTypes, AtSegment, call
  <2>. QED
    BY <1>3, <2>6, <2>7 DEF LTypes
<1>7. CASE /\ mem' = mem
           /\ \/ pc' \in {"wild", "fixup"}
              \/ pc' = "segment" /\ i' = i + 1 /\ Header.t = "ehdr" /\ i < Header.phnum
  <2>1. pc' = "segment" => Counted(i')
    <3> SUFFICES ASSUME pc' = "segment" PROVE Counted(i')
      OBVIOUS
    <3>1. i' = i + 1 /\ Header.t = "ehdr" /\ i < Header.phnum
      BY <1>7
    <3>2. Header.phnum \in Nat
      BY <1>2, <1>4, <3>1, HeaderFits
    <3>. QED
      BY <1>2, <1>4, <3>1, <3>2 DEF Counted
  <2>2. Memories' /\ TreeKept'
    BY <1>1, <1>7 DEF LTypes, Memories, TreeKept, Loads, TreesInPlace, TreesSame, call
  <2>3. AtSegment'
    BY <1>1, <1>2, <1>5, <1>7, <2>1 DEF LTypes, AtSegment, call
  <2>. QED
    BY <1>3, <2>2, <2>3 DEF LTypes
<1>. QED
  BY <1>6, <1>7 DEF LoadSegment, Goto

LEMMA ClearRestLTypes ==
    ASSUME LInv, LTypes, ClearRest
    PROVE  LTypes'
<1>1. pc = "clear" /\ pc' \in {"wild", "segment"} /\ UNCHANGED <<call, entry, flags, phdr>>
  BY DEF ClearRest, Goto
<1>2. mem' = mem \/ \E at, n : mem' = Bzero(mem, at, n)
  BY DEF ClearRest, Goto
<1>3. pc' = "segment" => i' = i + 1
  BY DEF ClearRest, Goto
<1>4. i \in Nat
  BY <1>1, AtRound
<1>5. /\ mem \in [Addr -> Cells] /\ TreesInPlace(mem) /\ TreesSame(mem, given)
  BY <1>1 DEF LTypes, Memories, TreeKept, Loads
<1>6. mem' \in [Addr -> Cells] /\ TreesInPlace(mem') /\ TreesSame(mem', given)
  BY <1>2, <1>5, ClearKeepsTrees
<1>7. Called' /\ Decided'
  BY <1>1 DEF LTypes, Called, Decided, Labels, call
<1>8. Memories' /\ TreeKept'
  BY <1>1, <1>6 DEF LTypes, Memories, TreeKept, call
<1>9. AtSegment'
  BY <1>1, <1>3, <1>4 DEF LTypes, AtSegment, GivenHeader, call
<1>. QED
  BY <1>7, <1>8, <1>9 DEF LTypes

\* What uimageLoad finds, and what it leaves.
LEMMA AtUimage ==
    ASSUME LInv, LTypes, pc = "uimage"
    PROVE  /\ mem = given /\ buf = Header /\ Header = GivenHeader /\ Header.t = "uhdr"
           /\ Header.entry \in Addr /\ Header.load \in Nat /\ Header.size \in Nat
           /\ img \in Nat
           /\ Movable(img + 1, Header.load, Header.size)
<1>1. /\ mem = given /\ buf = Header /\ Header = GivenHeader /\ Header.t = "uhdr"
  BY DEF LInv, Identified, Header, GivenHeader
<1>2. img \in Places /\ img \in Addr
  BY CalledPlaces DEF LTypes
<1>3. Header \in Cells
  BY <1>2 DEF Header, LTypes, Memories
<1>. QED
  BY <1>1, <1>2, <1>3, UimageMoves, PlaceFacts

LEMMA UimageLoadLTypes ==
    ASSUME LInv, LTypes, UimageLoad
    PROVE  LTypes'
<1>1. pc = "uimage" /\ UNCHANGED call /\ pc' \in {"shell", "fixup"}
  BY DEF UimageLoad, Refuse, Goto
<1>2. /\ buf = Header /\ Header.entry \in Addr /\ Header.load \in Nat /\ Header.size \in Nat
      /\ img + 1 \in Nat
      /\ Movable(img + 1, Header.load, Header.size)
  BY <1>1, AtUimage
<1>3. /\ mem \in [Addr -> Cells] /\ TreesInPlace(mem) /\ TreesSame(mem, given)
  BY <1>1 DEF LTypes, Memories, TreeKept, Loads
<1>4. mem' = mem \/ mem' = Memmove(mem, Header.load, img + 1, Header.size)
  BY DEF UimageLoad, UimageMoved, Refuse, Goto
<1>5. mem' \in [Addr -> Cells] /\ TreesInPlace(mem') /\ TreesSame(mem', given)
  <2>1. CASE mem' = mem
    BY <1>3, <2>1
  <2>2. CASE mem' = Memmove(mem, Header.load, img + 1, Header.size)
    BY <1>2, <1>3, <2>2, MoveKeepsTrees
  <2>. QED
    BY <1>4, <2>1, <2>2
<1>6. Called' /\ Memories' /\ TreeKept'
  BY <1>1, <1>5 DEF LTypes, Called, Memories, TreeKept, Labels, call
<1>7. Decided'
  <2>1. CASE Refuse
    BY <1>1, <2>1 DEF LTypes, Decided, Refuse, Goto
  <2>2. CASE UimageSane(Header) /\ entry' = Header.entry /\ flags' = buf.os
    BY <1>1, <1>2, <2>2 DEF Decided, UimageSane
  <2>. QED
    BY <2>1, <2>2 DEF UimageLoad
<1>8. AtSegment'
  BY <1>1 DEF AtSegment
<1>. QED
  BY <1>6, <1>7, <1>8 DEF LTypes

LEMMA FixupLTypes ==
    ASSUME LTypes, Fixup
    PROVE  LTypes'
<1>1. /\ pc \in {"fixup"} \union Fixing /\ pc' \in {"start"} \union Fixing
      /\ UNCHANGED <<call, entry, flags, phdr, i>>
  BY FixupSteps
<1>2. /\ mem \in [Addr -> Cells] /\ given \in [Addr -> Cells] /\ TreesInPlace(mem)
      /\ pc = "fixup" => TreesSame(mem, given)
      /\ pc \in Fixing => tree # Null /\ FixedUpTo(pc, given[tree], mem[tree])
  BY <1>1 DEF LTypes, Memories, TreeKept, Loads
<1>3. <<img, tree>> \in Calls /\ (tree # Null => tree \in Addr /\ tree \in TreePlaces)
  BY <1>1, CalledPlaces DEF LTypes
<1>4. Called' /\ Decided' /\ AtSegment'
  BY <1>1 DEF LTypes, Called, Decided, AtSegment, Labels, call
\* A failure, or a tree that is not looked at.
<1>5. ASSUME Goto("start") PROVE LTypes'
  <2>1. mem' = mem /\ pc' = "start" /\ UNCHANGED call
    BY <1>5 DEF Goto
  <2>2. ASSUME pc \in Fixing PROVE TreeFixed(given[tree], mem[tree])
    BY <1>2, <2>2, FixedSoFar
  <2>3. pc = "fixup" => ~(tree # Null /\ IsTree(mem[tree]))
    <3>1. ASSUME pc = "fixup", tree # Null, IsTree(mem[tree]) PROVE FALSE
      <4>1. FixupDTB
        BY <3>1 DEF Fixup, FixupBootargs, FixupCpu, AddMemRsv
      <4>. QED
        BY <2>1, <3>1, <4>1 DEF FixupDTB, Fixed, Blob
    <3>. QED
      BY <3>1
  <2>4. Memories' /\ TreeKept'
    BY <1>1, <1>2, <2>1, <2>2, <2>3 DEF Memories, TreeKept, Loads, call, TreesInPlace
  <2>. QED
    BY <1>4, <2>4 DEF LTypes
\* A write.
<1>6. ASSUME NEW fdt \in Tree, NEW label \in {"start"} \union Fixing, Fixed(fdt, label),
             tree # Null,
             IF label = "start" THEN TreeFixed(given[tree], fdt)
             ELSE FixedUpTo(label, given[tree], fdt)
      PROVE  LTypes'
  <2>1. mem' = [mem EXCEPT ![tree] = fdt] /\ pc' = label /\ UNCHANGED call
    BY <1>6 DEF Fixed
  <2>2. /\ mem' \in [Addr -> Cells] /\ TreesInPlace(mem') /\ mem'[tree] = fdt
    BY <1>2, <1>3, <1>6, <2>1 DEF Cells, TreesInPlace
  <2>3. given' = given /\ tree' = tree
    BY <2>1 DEF call
  <2>4. TreeKept'
    <3>1. CASE label = "start"
      BY <1>6, <2>1, <2>2, <2>3, <3>1 DEF TreeKept, Loads
    <3>2. CASE label \in Fixing
      BY <1>6, <2>1, <2>2, <2>3, <3>2 DEF TreeKept, Loads
    <3>. QED
      BY <3>1, <3>2
  <2>. QED
    BY <1>2, <1>4, <2>2, <2>3, <2>4 DEF LTypes, Memories
<1>7. CASE FixupDTB
  <2>1. CASE tree # Null /\ IsTree(mem[tree])
    <3> DEFINE fdt == [mem[tree] EXCEPT !.pads = @ + 1]
    <3>1. pc = "fixup" /\ Fixed(fdt, "bootargs")
      BY <1>7, <2>1 DEF FixupDTB, Blob
    <3>2. mem[tree] \in Tree /\ mem[tree] = given[tree]
      BY <1>2, <1>3, <2>1, <3>1, CellFacts DEF IsTree, TreesSame
    <3>3. fdt \in Tree /\ fdt.pads = mem[tree].pads + 1 /\ fdt.reserved = mem[tree].reserved
          /\ fdt.unmarked = mem[tree].unmarked
      BY <3>2 DEF Tree
    <3>4. FixedUpTo("bootargs", given[tree], fdt)
      BY <3>2, <3>3 DEF FixedUpTo
    <3>. QED
      BY <1>6, <2>1, <3>1, <3>3, <3>4
  <2>2. CASE ~(tree # Null /\ IsTree(mem[tree]))
    BY <1>5, <1>7, <2>2 DEF FixupDTB, Blob
  <2>. QED
    BY <2>1, <2>2
<1>8. CASE FixupBootargs
  <2>1. CASE Writable(mem[tree]) /\ Fixed([mem[tree] EXCEPT !.bootargs = TRUE], "cpus")
    <3> DEFINE fdt == [mem[tree] EXCEPT !.bootargs = TRUE]
    <3>1. tree # Null /\ FixedUpTo("bootargs", given[tree], mem[tree])
      BY <1>2, <1>8 DEF FixupBootargs
    <3>2. /\ mem[tree] \in Tree /\ given[tree] \in Tree
          /\ mem[tree] = [given[tree] EXCEPT !.pads = @ + 1]
      BY <3>1 DEF FixedUpTo
    <3>3. /\ fdt \in Tree /\ fdt.bootargs
          /\ fdt.pads = given[tree].pads + 1 /\ fdt.reserved = given[tree].reserved
          /\ fdt.unmarked = given[tree].unmarked
      BY <3>2 DEF Tree
    <3>4. Writable(given[tree])
      BY <2>1, <3>2 DEF Writable, Tree
    <3>5. FixedUpTo("cpus", given[tree], fdt)
      BY <3>2, <3>3, <3>4 DEF FixedUpTo
    <3>. QED
      BY <1>6, <2>1, <3>1, <3>3, <3>5
  <2>2. CASE Goto("start")
    BY <1>5, <2>2
  <2>. QED
    BY <1>8, <2>1, <2>2 DEF FixupBootargs, Blob
<1>9. CASE FixupCpu
  <2>1. /\ tree # Null /\ mem[tree] \in Tree /\ given[tree] \in Tree
        /\ mem[tree].pads = given[tree].pads + 1 /\ mem[tree].reserved = given[tree].reserved
        /\ Writable(given[tree]) /\ mem[tree].bootargs
        /\ mem[tree].unmarked = given[tree].unmarked
    BY <1>2, <1>9 DEF FixupCpu, FixedUpTo
  <2>2. ASSUME NEW n \in 0 .. mem[tree].unmarked
        PROVE  LET fdt == [mem[tree] EXCEPT !.unmarked = n]
               IN /\ fdt \in Tree /\ fdt.pads = given[tree].pads + 1
                  /\ fdt.reserved = given[tree].reserved /\ fdt.bootargs
                  /\ fdt.unmarked = n /\ fdt.cpus = mem[tree].cpus
                  /\ n <= given[tree].unmarked /\ given[tree].reserved \in Nat
    BY <2>1 DEF Tree
  <2>3. ASSUME NEW n \in 1 .. mem[tree].unmarked,
               Fixed([mem[tree] EXCEPT !.unmarked = n], "start")
        PROVE  LTypes'
    <3> DEFINE fdt == [mem[tree] EXCEPT !.unmarked = n]
    <3>1. /\ fdt \in Tree /\ fdt.pads = given[tree].pads + 1
          /\ fdt.reserved = given[tree].reserved /\ fdt.bootargs
          /\ fdt.unmarked <= given[tree].unmarked /\ given[tree].reserved \in Nat
      BY <2>1, <2>2 DEF Tree
    <3> HIDE DEF fdt
    <3>2. TreeFixed(given[tree], fdt)
      BY <2>1, <3>1 DEF TreeFixed
    <3>. QED
      BY <1>6, <2>1, <2>3, <3>1, <3>2 DEF fdt
  <2>4. ASSUME mem[tree].cpus, Fixed([mem[tree] EXCEPT !.unmarked = 0], "reserve")
        PROVE  LTypes'
    <3> DEFINE fdt == [mem[tree] EXCEPT !.unmarked = 0]
    <3>1. /\ fdt \in Tree /\ fdt.pads = given[tree].pads + 1
          /\ fdt.reserved = given[tree].reserved /\ fdt.bootargs
          /\ fdt.unmarked = 0 /\ fdt.cpus
      BY <2>1, <2>4 DEF Tree
    <3> HIDE DEF fdt
    <3>2. FixedUpTo("reserve", given[tree], fdt)
      BY <2>1, <3>1 DEF FixedUpTo
    <3>. QED
      BY <1>6, <2>1, <2>4, <3>1, <3>2 DEF fdt
  <2>5. CASE Goto("start")
    BY <1>5, <2>5
  <2>. QED
    BY <1>9, <2>3, <2>4, <2>5 DEF FixupCpu, Blob
<1>10. CASE AddMemRsv
  <2>1. /\ tree # Null /\ mem[tree] \in Tree /\ given[tree] \in Tree
        /\ mem[tree].pads = given[tree].pads + 1 /\ mem[tree].reserved = given[tree].reserved
        /\ Writable(given[tree]) /\ mem[tree].bootargs
        /\ mem[tree].cpus /\ mem[tree].unmarked = 0
    BY <1>2, <1>10 DEF AddMemRsv, FixedUpTo
  <2>2. CASE Fixed([mem[tree] EXCEPT !.reserved = @ + 1], "start")
    <3> DEFINE fdt == [mem[tree] EXCEPT !.reserved = @ + 1]
    <3>1. /\ fdt \in Tree /\ fdt.pads = given[tree].pads + 1
          /\ fdt.reserved = given[tree].reserved + 1 /\ fdt.bootargs
          /\ fdt.cpus /\ fdt.unmarked = 0 /\ 0 <= given[tree].unmarked
      BY <2>1 DEF Tree
    <3> HIDE DEF fdt
    <3>2. TreeFixed(given[tree], fdt)
      BY <2>1, <3>1 DEF TreeFixed
    <3>. QED
      BY <1>6, <2>1, <2>2, <3>1, <3>2 DEF fdt
  <2>3. CASE Goto("start")
    BY <1>5, <2>3
  <2>. QED
    BY <1>10, <2>2, <2>3 DEF AddMemRsv, Blob
<1>. QED
  BY <1>7, <1>8, <1>9, <1>10 DEF Fixup

LEMMA GotoLTypes ==
    ASSUME LTypes,
           \/ Goto("kernel") /\ pc = "start"
           \/ Goto("shell")
           \/ UNCHANGED vars
    PROVE  LTypes'
<1>1. /\ UNCHANGED <<mem, call, entry, flags, phdr, i>>
      /\ pc' \in {"shell", pc} \/ (pc = "start" /\ pc' = "kernel")
  <2>1. CASE UNCHANGED vars
    BY <2>1 DEF vars
  <2>2. CASE Goto("shell") \/ (Goto("kernel") /\ pc = "start")
    BY <2>2 DEF Goto
  <2>. QED
    BY <2>1, <2>2
<1>2. Memories' /\ Called' /\ Decided'
  BY <1>1 DEF LTypes, Memories, Called, Decided, Labels, call
<1>3. AtSegment'
  BY <1>1 DEF LTypes, AtSegment, GivenHeader, call
<1>4. TreeKept'
  BY <1>1 DEF LTypes, TreeKept, TreesInPlace, TreesSame, Loads, call
<1>. QED
  BY <1>2, <1>3, <1>4 DEF LTypes

LEMMA NextLTypes ==
    ASSUME LInv, LTypes, [Next]_vars
    PROVE  LTypes'
<1>1. CASE KernelReturns \/ UNCHANGED vars
  BY <1>1, GotoLTypes DEF KernelReturns
<1>2. CASE Start
  BY <1>2, GotoLTypes DEF Start, Refuse
<1>. QED
  BY <1>1, <1>2, BootLTypes, IdentifyLTypes, Elf32LoadLTypes, LoadSegmentLTypes,
     ClearRestLTypes, UimageLoadLTypes, FixupLTypes DEF Next, Fixup

(***************************************************************************)
(* The inductive invariant of memory: it holds cells of images and trees,  *)
(* trees only in their places, and during a load each as boot found it.    *)
(***************************************************************************)
THEOREM LoaderMemory == Spec => []LTypes
  BY InitLTypes, NextLTypes, LoaderInvariant, PTL DEF Spec

(***************************************************************************)
(* Whatever headers the loaders come upon, they read and write memory, and *)
(* what they start begins in it.                                           *)
(***************************************************************************)
THEOREM LoaderTypes == Spec => []TypeOK
<1>1. LInv /\ LTypes => TypeOK
  <2> SUFFICES ASSUME LInv, LTypes PROVE TypeOK
    OBVIOUS
  <2>1. pc \in {"segment", "clear"} => phdr + i \in Addr
    BY AtRound
  <2>. QED
    BY <2>1 DEF LTypes, Memories, Called, Decided, Labels, TypeOK
<1>. QED
  BY <1>1, LoaderInvariant, LoaderMemory, PTL

(***************************************************************************)
(* Wherever libfdt fails, the tree a kernel is given has been fixed up in  *)
(* order since boot was called, none of the fix-ups without those before   *)
(* it, for any images that have no part in the place of a tree.            *)
(***************************************************************************)
THEOREM KernelTreeIsFixed == Spec => []KernelTree
<1>1. LTypes => KernelTree
  BY DEF LTypes, TreeKept, KernelTree, TreeFixed
<1>. QED
  BY <1>1, LoaderMemory, PTL

------------------------------------------------------------------------------
(***************************************************************************)
(* An ELF image, segment by segment.  g is memory when boot was called and *)
(* at the image: SegmentOf is a segment's program header, DestOf and       *)
(* SourceOf are Dest and Source, and LaidCell is what a cell holds when    *)
(* the first n segments are loaded.                                        *)
(***************************************************************************)
SegmentOf(g, at, k) == g[at + g[at].phoff + k]
DestOf(g, at, k) ==
    LET p == SegmentOf(g, at, k)
    IN IF p.load THEN p.paddr .. p.paddr + Max({p.filesz, p.memsz}) - 1 ELSE {}
SourceOf(g, at, k) ==
    LET p == SegmentOf(g, at, k)
    IN IF p.load THEN at + p.off .. at + p.off + p.filesz - 1 ELSE {}

\* What segment k has for the cell a.
CellOf(g, at, k, a) ==
    LET p == SegmentOf(g, at, k)
    IN IF a < p.paddr + p.filesz THEN g[at + p.off + a - p.paddr] ELSE Zero

Covering(g, at, n, a) == {k \in 0 .. n - 1 : a \in DestOf(g, at, k)}

LaidCell(g, at, n, a) ==
    IF Covering(g, at, n, a) = {} THEN g[a]
    ELSE CellOf(g, at, Max(Covering(g, at, n, a)), a)

\* The first n segments are loaded; so is the file part of segment n.
Laid(g, at, m, n) == \A a \in Addr : m[a] = LaidCell(g, at, n, a)
FileLaid(g, at, m, n) ==
    LET p == SegmentOf(g, at, n)
    IN \A a \in Addr :
          m[a] = IF a \in p.paddr .. p.paddr + p.filesz - 1
                 THEN CellOf(g, at, n, a) ELSE LaidCell(g, at, n, a)

Clear(g, at) ==
    \A k \in 0 .. g[at].phnum - 1 :
        /\ SegmentOf(g, at, k).t = "phdr"
        /\ at \notin DestOf(g, at, k)
        /\ \A later \in k .. g[at].phnum - 1 :
              /\ at + g[at].phoff + later \notin DestOf(g, at, k)
              /\ later # k => DestOf(g, at, k) \cap SourceOf(g, at, later) = {}

LEMMA MaxIs ==
    ASSUME NEW S \in SUBSET Int, NEW x \in S, \A y \in S : y <= x
    PROVE  Max(S) = x
<1>1. Max(S) \in S /\ \A y \in S : Max(S) >= y
  <2>1. \E z \in S : \A y \in S : z >= y
    OBVIOUS
  <2>. QED
    BY <2>1, Zenon DEF Max
<1>2. Max(S) \in Int /\ x \in Int /\ Max(S) <= x /\ Max(S) >= x
  BY <1>1
<1>. QED
  BY <1>2

LEMMA MaxOfTwo ==
    ASSUME NEW x \in Int, NEW y \in Int
    PROVE  Max({x, y}) = IF x < y THEN y ELSE x
<1>1. CASE x < y
  BY <1>1, MaxIs
<1>2. CASE ~(x < y)
  BY <1>2, MaxIs
<1>. QED
  BY <1>1, <1>2

\* The next segment covers what it covers, and nothing else changes.
LEMMA LaidNext ==
    ASSUME NEW g, NEW at, NEW n \in Nat, NEW a
    PROVE  LaidCell(g, at, n + 1, a) =
              IF a \in DestOf(g, at, n) THEN CellOf(g, at, n, a) ELSE LaidCell(g, at, n, a)
<1> DEFINE now == Covering(g, at, n + 1, a)
           was == Covering(g, at, n, a)
<1>1. CASE a \in DestOf(g, at, n)
  <2>1. now \in SUBSET Int /\ n \in now /\ \A k \in now : k <= n
    BY <1>1 DEF Covering
  <2> HIDE DEF now
  <2>2. Max(now) = n
    BY <2>1, MaxIs
  <2>3. now # {}
    BY <2>1
  <2>. QED
    BY <1>1, <2>2, <2>3 DEF LaidCell, now
<1>2. CASE a \notin DestOf(g, at, n)
  <2>1. now = was
    BY <1>2 DEF Covering
  <2>. QED
    BY <1>2, <2>1 DEF LaidCell
<1>. QED
  BY <1>1, <1>2

LEMMA LaidNone == ASSUME NEW g, NEW at, NEW a PROVE LaidCell(g, at, 0, a) = g[a]
<1>1. Covering(g, at, 0, a) = {}
  BY DEF Covering
<1>. QED
  BY <1>1 DEF LaidCell

\* A cell that none of the first n segments covers is as it was.
LEMMA LaidOutside ==
    ASSUME NEW g, NEW at, NEW n \in Nat, NEW a, \A k \in 0 .. n - 1 : a \notin DestOf(g, at, k)
    PROVE  LaidCell(g, at, n, a) = g[a]
<1>1. Covering(g, at, n, a) = {}
  BY DEF Covering
<1>. QED
  BY <1>1 DEF LaidCell

\* The headers and the source that round n goes by are as they were.
LEMMA RoundFindsGiven ==
    ASSUME NEW g, NEW at \in Addr, g[at].phoff \in Nat, g[at].phnum \in Nat, Clear(g, at),
           NEW n \in Nat, n < g[at].phnum
    PROVE  /\ SegmentOf(g, at, n).t = "phdr"
           /\ LaidCell(g, at, n, at) = g[at]
           /\ LaidCell(g, at, n, at + g[at].phoff + n) = SegmentOf(g, at, n)
           /\ \A a \in SourceOf(g, at, n) : LaidCell(g, at, n, a) = g[a]
<1>1. ASSUME NEW k \in 0 .. n - 1
      PROVE  /\ at \notin DestOf(g, at, k)
             /\ at + g[at].phoff + n \notin DestOf(g, at, k)
             /\ DestOf(g, at, k) \cap SourceOf(g, at, n) = {}
  <2>1. k \in 0 .. g[at].phnum - 1 /\ n \in k .. g[at].phnum - 1 /\ n # k
    OBVIOUS
  <2>. QED
    BY <2>1 DEF Clear
<1>2. SegmentOf(g, at, n).t = "phdr"
  BY DEF Clear
<1>3. LaidCell(g, at, n, at) = g[at]
  BY <1>1, LaidOutside
<1>4. LaidCell(g, at, n, at + g[at].phoff + n) = SegmentOf(g, at, n)
  BY <1>1, LaidOutside DEF SegmentOf
<1>5. ASSUME NEW a \in SourceOf(g, at, n) PROVE LaidCell(g, at, n, a) = g[a]
  BY <1>1, LaidOutside
<1>. QED
  BY <1>2, <1>3, <1>4, <1>5

------------------------------------------------------------------------------
(***************************************************************************)
(* A round: LoadSegment leaves the file part laid, ClearRest the segment.  *)
(***************************************************************************)
LEMMA FilePartLaid ==
    ASSUME NEW g \in [Addr -> Cells], NEW m \in [Addr -> Cells],
           NEW at \in Places, g[at].t = "ehdr", Clear(g, at),
           NEW n \in Nat, n < g[at].phnum, Laid(g, at, m, n),
           SegmentOf(g, at, n) \in Cells, SegmentOf(g, at, n).load
    PROVE  FileLaid(g, at, Memmove(m, SegmentOf(g, at, n).paddr,
                                   at + SegmentOf(g, at, n).off,
                                   SegmentOf(g, at, n).filesz), n)
<1> DEFINE p == SegmentOf(g, at, n)
           r == Memmove(m, p.paddr, at + p.off, p.filesz)
<1>1. at \in Addr /\ at \in Nat /\ g[at] \in Cells
  BY PlaceFacts
<1>2. g[at].phoff \in Nat /\ g[at].phnum \in Nat
  BY <1>1, HeaderFits
<1>3. p.t = "phdr" /\ \A a \in SourceOf(g, at, n) : LaidCell(g, at, n, a) = g[a]
  BY <1>1, <1>2, RoundFindsGiven
<1>4. /\ p.off \in Nat /\ p.paddr \in Nat /\ p.filesz \in Nat /\ at + p.off \in Nat
      /\ Movable(at + p.off, p.paddr, p.filesz)
  BY <1>3, SegmentMoves
<1>5. SourceOf(g, at, n) = at + p.off .. at + p.off + p.filesz - 1
  BY DEF SourceOf
<1> HIDE DEF p
<1>6. MoveDone(Cells, m, p.paddr, at + p.off, p.filesz, r)
  BY <1>4, MoveInMemory DEF Movable
<1> HIDE DEF r
<1>7. ASSUME NEW a \in p.paddr .. p.paddr + p.filesz - 1
      PROVE  r[a] = CellOf(g, at, n, a)
  <2>1. /\ (at + p.off) + (a - p.paddr) \in (at + p.off) .. (at + p.off) + p.filesz - 1
        /\ (at + p.off) + (a - p.paddr) \in Addr
        /\ r[a] = m[(at + p.off) + (a - p.paddr)]
    BY <1>6 DEF MoveDone
  <2>2. /\ (at + p.off) + (a - p.paddr) = at + p.off + a - p.paddr
        /\ (at + p.off) .. (at + p.off) + p.filesz - 1 = at + p.off .. at + p.off + p.filesz - 1
        /\ a < p.paddr + p.filesz
    BY <1>1, <1>4
  <2>3. m[(at + p.off) + (a - p.paddr)] = g[(at + p.off) + (a - p.paddr)]
    BY <1>3, <1>5, <2>1, <2>2 DEF Laid
  <2>4. CellOf(g, at, n, a) = g[at + p.off + a - p.paddr]
    BY <2>2 DEF CellOf, p
  <2>. QED
    BY <2>1, <2>2, <2>3, <2>4
<1>8. ASSUME NEW a \in Addr, a \notin p.paddr .. p.paddr + p.filesz - 1
      PROVE  r[a] = LaidCell(g, at, n, a)
  BY <1>6, <1>8 DEF MoveDone, Laid
<1>. QED
  BY <1>7, <1>8 DEF FileLaid, r, p

\* The program header and the header outlast the file part too.
LEMMA FilePartFindsGiven ==
    ASSUME NEW g \in [Addr -> Cells], NEW m,
           NEW at \in Places, g[at].t = "ehdr", Clear(g, at),
           NEW n \in Nat, n < g[at].phnum, FileLaid(g, at, m, n),
           SegmentOf(g, at, n) \in Cells, SegmentOf(g, at, n).load,
           at + g[at].phoff + n \in Addr
    PROVE  m[at + g[at].phoff + n] = SegmentOf(g, at, n)
<1> DEFINE p == SegmentOf(g, at, n)
           a == at + g[at].phoff + n
<1>1. at \in Addr /\ at \in Nat /\ g[at] \in Cells
  BY PlaceFacts
<1>2. g[at].phoff \in Nat /\ g[at].phnum \in Nat
  BY <1>1, HeaderFits
<1>3. p.t = "phdr" /\ LaidCell(g, at, n, a) = p
  BY <1>1, <1>2, RoundFindsGiven
<1>4. p.paddr \in Nat /\ p.filesz \in Nat /\ p.memsz \in Nat
  BY <1>3, SegmentMoves
<1>5. a \notin DestOf(g, at, n)
  BY <1>2 DEF Clear
<1>6. DestOf(g, at, n) = p.paddr .. p.paddr + Max({p.filesz, p.memsz}) - 1
  BY DEF DestOf
<1> HIDE DEF p
<1>7. a \notin p.paddr .. p.paddr + p.filesz - 1
  <2>1. Max({p.filesz, p.memsz}) = IF p.filesz < p.memsz THEN p.memsz ELSE p.filesz
    BY <1>4, MaxOfTwo
  <2> HIDE DEF a
  <2>. QED
    BY <1>4, <1>5, <1>6, <2>1
<1> HIDE DEF a
<1>8. a \in Addr
  BY DEF a
<1>. QED
  BY <1>3, <1>7, <1>8 DEF FileLaid, p, a

LEMMA SegmentLaid ==
    ASSUME NEW g, NEW m \in [Addr -> Cells], NEW at, NEW n \in Nat, FileLaid(g, at, m, n),
           SegmentOf(g, at, n).load,
           SegmentOf(g, at, n).paddr \in Nat, SegmentOf(g, at, n).filesz \in Nat,
           SegmentOf(g, at, n).memsz \in Nat
    PROVE  Laid(g, at, IF SegmentOf(g, at, n).filesz < SegmentOf(g, at, n).memsz
                       THEN Bzero(m, SegmentOf(g, at, n).paddr + SegmentOf(g, at, n).filesz,
                                  SegmentOf(g, at, n).memsz - SegmentOf(g, at, n).filesz)
                       ELSE m, n + 1)
<1> DEFINE p == SegmentOf(g, at, n)
           r == IF p.filesz < p.memsz THEN Bzero(m, p.paddr + p.filesz, p.memsz - p.filesz) ELSE m
<1>1. DestOf(g, at, n) = p.paddr .. p.paddr + Max({p.filesz, p.memsz}) - 1
  BY DEF DestOf
<1>2. \A a : CellOf(g, at, n, a) = IF a < p.paddr + p.filesz
                                   THEN g[at + p.off + a - p.paddr] ELSE Zero
  BY DEF CellOf
<1>3. \A a \in Addr : m[a] = IF a \in p.paddr .. p.paddr + p.filesz - 1
                             THEN CellOf(g, at, n, a) ELSE LaidCell(g, at, n, a)
  BY DEF FileLaid
<1>4. p.paddr \in Nat /\ p.filesz \in Nat /\ p.memsz \in Nat
  OBVIOUS
<1> HIDE DEF p
<1>5. Max({p.filesz, p.memsz}) = IF p.filesz < p.memsz THEN p.memsz ELSE p.filesz
  BY <1>4, MaxOfTwo
<1>6. ASSUME NEW a \in Addr PROVE r[a] = LaidCell(g, at, n + 1, a)
  <2>1. a \in Nat
    BY LoaderAssumption DEF Addr
  <2>2. LaidCell(g, at, n + 1, a) =
           IF a \in DestOf(g, at, n) THEN CellOf(g, at, n, a) ELSE LaidCell(g, at, n, a)
    BY LaidNext
  <2>3. CASE a \in p.paddr .. p.paddr + p.filesz - 1
    <3>1. a \in DestOf(g, at, n)
      BY <1>1, <1>4, <1>5, <2>3
    <3>2. r[a] = m[a]
      BY <1>4, <2>1, <2>3 DEF Bzero
    <3>. QED
      BY <1>3, <2>2, <2>3, <3>1, <3>2
  <2>4. CASE a \notin p.paddr .. p.paddr + p.filesz - 1 /\ a \in DestOf(g, at, n)
    <3>0. a >= p.paddr + p.filesz /\ p.filesz < p.memsz /\ a < p.paddr + p.memsz
      <4> DEFINE size == Max({p.filesz, p.memsz})
      <4>1. a \in p.paddr .. p.paddr + size - 1
        BY <1>1, <2>4
      <4>2. size \in Nat /\ size = IF p.filesz < p.memsz THEN p.memsz ELSE p.filesz
        BY <1>4, <1>5
      <4> HIDE DEF size
      <4>. QED
        BY <1>4, <2>1, <2>4, <4>1, <4>2
    <3>1. /\ p.filesz < p.memsz /\ ~(a < p.paddr + p.filesz)
          /\ a \in p.paddr + p.filesz .. p.paddr + p.filesz + (p.memsz - p.filesz) - 1
      BY <1>4, <2>1, <3>0
    <3>2. r[a] = Bzero(m, p.paddr + p.filesz, p.memsz - p.filesz)[a]
      BY <3>1
    <3>3. r[a] = Zero
      BY <3>1, <3>2 DEF Bzero
    <3>. QED
      BY <1>2, <2>2, <2>4, <3>1, <3>3
  <2>5. CASE a \notin p.paddr .. p.paddr + p.filesz - 1 /\ a \notin DestOf(g, at, n)
    <3>1. r[a] = m[a]
      BY <1>1, <1>4, <1>5, <2>1, <2>5 DEF Bzero
    <3>. QED
      BY <1>3, <2>2, <2>5, <3>1
  <2>. QED
    BY <2>3, <2>4, <2>5
<1> HIDE DEF r
<1>7. Laid(g, at, r, n + 1)
  BY <1>6 DEF Laid
<1>. QED
  BY <1>7 DEF r, p

------------------------------------------------------------------------------
(***************************************************************************)
(* What is loaded, by an invariant of the rounds.                          *)
(***************************************************************************)
LEMMA ClearIs == KeepsClear <=> Clear(given, img)
BY DEF KeepsClear, Clear, Rounds, PhdrAt, Dest, Source, DestOf, SourceOf, SegmentOf, GivenHeader

LEMMA ElfCellIs == \A a : ElfCell(a) = LaidCell(given, img, GivenHeader.phnum, a)
BY DEF ElfCell, LaidCell, CellOf, Covering, Rounds, PhdrAt, Dest, DestOf, SegmentOf, GivenHeader

UimageLaid(g, at, m) ==
    \A a \in Addr :
        m[a] = IF a \in g[at].load .. g[at].load + g[at].size - 1
               THEN g[at + 1 + a - g[at].load] ELSE g[a]

Loaded ==
    /\ IsElf /\ Clear(given, img) => Laid(given, img, mem, GivenHeader.phnum)
    /\ IsUimage => UimageLaid(given, img, mem)
    /\ IsBinary => mem = given

LRight ==
    /\ pc = "segment" /\ Clear(given, img) =>
          i <= GivenHeader.phnum /\ Laid(given, img, mem, i)
    /\ pc = "clear" /\ Clear(given, img) =>
          /\ i < GivenHeader.phnum /\ SegmentOf(given, img, i).load
          /\ FileLaid(given, img, mem, i)
    /\ pc = "wild" => IsElf /\ ~Clear(given, img)
    /\ pc = "fixup" => Loaded

LEMMA IdentifyLRight ==
    ASSUME LInv, Identify
    PROVE  LRight'
<1>1. Identified /\ mem = given /\ buf = GivenHeader /\ UNCHANGED <<mem, call>>
  BY DEF LInv, Identify, Identified, Goto, Refuse
<1>2. CASE ImageType(buf) = "binary" /\ pc' = "fixup"
  <2>1. IsBinary /\ ~IsElf /\ ~IsUimage
    BY <1>1, <1>2 DEF ImageType, IsBinary, IsElf, IsUimage
  <2>. QED
    BY <1>1, <1>2, <2>1 DEF LRight, Loaded, IsBinary, IsElf, IsUimage, GivenHeader, call
<1>3. CASE pc' \in {"shell", "elf32", "uimage"}
  BY <1>3 DEF LRight
<1>. QED
  BY <1>2, <1>3 DEF Identify, Refuse, Goto

LEMMA Elf32LoadLRight ==
    ASSUME LInv, LTypes, Elf32Load
    PROVE  LRight'
<1>1. pc = "elf32" /\ mem = given /\ UNCHANGED <<mem, call>> /\ GivenHeader.t = "ehdr"
  BY DEF LInv, Elf32Load, Identified, Refuse, Goto
<1>2. img \in Places /\ img \in Addr
  BY <1>1, CalledPlaces DEF LTypes
<1>3. GivenHeader \in Cells
  BY <1>2 DEF LTypes, Memories, GivenHeader
<1>4. GivenHeader.phnum \in Nat
  BY <1>1, <1>2, <1>3, HeaderFits
<1>5. Laid(given, img, mem, 0)
  BY <1>1, LaidNone DEF Laid
<1>6. pc' = "shell" \/ (pc' = "segment" /\ i' = 0)
  BY DEF Elf32Load, Refuse, Goto
<1>. QED
  BY <1>1, <1>4, <1>5, <1>6 DEF LRight, GivenHeader, call

LEMMA LoadSegmentLRight ==
    ASSUME LInv, LTypes, LRight, LoadSegment
    PROVE  LRight'
<1>1. pc = "segment" /\ UNCHANGED call /\ pc' \in {"wild", "fixup", "segment", "clear"}
  BY DEF LoadSegment, Goto
<1>2. /\ img \in Places /\ img \in Addr /\ i \in Nat /\ IsElf
      /\ GivenHeader \in Cells /\ GivenHeader.t = "ehdr"
      /\ phdr = img + GivenHeader.phoff /\ phdr + i \in Addr
  BY <1>1, AtRound
<1>3. mem \in [Addr -> Cells] /\ given \in [Addr -> Cells] /\ GivenHeader = given[img]
  BY DEF LTypes, Memories, GivenHeader
<1>4. given[img].phoff \in Nat /\ given[img].phnum \in Nat /\ given[img].t = "ehdr"
  BY <1>2, <1>3, HeaderFits
<1>5. ~IsUimage /\ ~IsBinary
  BY <1>2 DEF IsUimage, IsBinary
<1>6. CASE ~Clear(given, img)
  <2>1. LRight' <=> (pc' = "fixup" => Loaded')
    BY <1>1, <1>2, <1>6 DEF LRight, call, IsElf, GivenHeader
  <2>2. Loaded'
    BY <1>1, <1>5, <1>6 DEF Loaded, IsUimage, IsBinary, GivenHeader, call
  <2>. QED
    BY <2>1, <2>2
<1>7. CASE Clear(given, img)
  <2>1. i <= given[img].phnum /\ Laid(given, img, mem, i)
    BY <1>1, <1>3, <1>7 DEF LRight
  <2>2. Header = given[img]
    <3>1. CASE i = 0
      <4>1. LaidCell(given, img, i, img) = given[img]
        BY <3>1, LaidNone
      <4>. QED
        BY <1>2, <2>1, <4>1 DEF Laid, Header
    <3>2. CASE i # 0
      <4>1. ASSUME NEW k \in 0 .. i - 1 PROVE img \notin DestOf(given, img, k)
        <5>1. k \in 0 .. given[img].phnum - 1
          BY <1>2, <1>4, <2>1
        <5>. QED
          BY <1>7, <5>1 DEF Clear
      <4>2. LaidCell(given, img, i, img) = given[img]
        BY <1>2, <4>1, LaidOutside
      <4>. QED
        BY <1>2, <2>1, <4>2 DEF Laid, Header
    <3>. QED
      BY <3>1, <3>2
  <2>3. CASE i >= given[img].phnum
    <3>1. i = given[img].phnum
      BY <1>2, <1>4, <2>1, <2>3
    <3>2. pc' = "fixup" /\ mem' = mem
      BY <1>4, <1>2, <2>2, <2>3 DEF LoadSegment, Goto
    <3>3. Loaded'
      BY <1>1, <1>5, <2>1, <3>1, <3>2 DEF Loaded, IsUimage, IsBinary, GivenHeader, call
    <3>. QED
      BY <3>2, <3>3 DEF LRight
  <2>4. CASE i < given[img].phnum
    <3>1. /\ SegmentOf(given, img, i).t = "phdr"
          /\ LaidCell(given, img, i, img + given[img].phoff + i) = SegmentOf(given, img, i)
      BY <1>2, <1>4, <1>7, <2>4, RoundFindsGiven
    <3>2. phdr + i = img + given[img].phoff + i
      BY <1>2, <1>3
    <3>3. Segment = SegmentOf(given, img, i) /\ SegmentOf(given, img, i) \in Cells
      BY <1>2, <1>3, <2>1, <3>1, <3>2 DEF Laid, Segment
    <3>4. CASE Segment.load
      <4>1. /\ pc' = "clear" /\ i' = i
            /\ mem' = Memmove(mem, Segment.paddr, img + Segment.off, Segment.filesz)
        BY <1>2, <1>4, <2>2, <2>4, <3>1, <3>3, <3>4 DEF LoadSegment, Goto
      <4>2. FileLaid(given, img, mem', i)
        BY <1>2, <1>3, <1>4, <1>7, <2>1, <2>4, <3>3, <3>4, <4>1, FilePartLaid
      <4>. QED
        BY <1>1, <1>3, <2>4, <3>3, <3>4, <4>1, <4>2 DEF LRight, GivenHeader, call
    <3>5. CASE ~Segment.load
      <4>1. pc' = "segment" /\ i' = i + 1 /\ mem' = mem
        BY <1>1, <1>2, <1>4, <2>2, <2>4, <3>1, <3>3, <3>5 DEF LoadSegment, Goto
      <4>2. DestOf(given, img, i) = {}
        BY <3>3, <3>5 DEF DestOf
      <4>3. Laid(given, img, mem, i + 1)
        <5>1. ASSUME NEW a \in Addr PROVE mem[a] = LaidCell(given, img, i + 1, a)
          <6>1. LaidCell(given, img, i + 1, a) = LaidCell(given, img, i, a)
            BY <1>2, <4>2, LaidNext
          <6>. QED
            BY <2>1, <6>1 DEF Laid
        <5>. QED
          BY <5>1 DEF Laid
      <4>4. i + 1 <= given[img].phnum
        BY <1>2, <1>4, <2>4
      <4>. QED
        BY <1>1, <1>3, <4>1, <4>3, <4>4 DEF LRight, GivenHeader, call
    <3>. QED
      BY <3>4, <3>5
  <2>. QED
    BY <1>2, <1>4, <2>3, <2>4
<1>. QED
  BY <1>6, <1>7

LEMMA ClearRestLRight ==
    ASSUME LInv, LTypes, LRight, ClearRest
    PROVE  LRight'
<1>1. pc = "clear" /\ UNCHANGED call /\ pc' \in {"wild", "segment"}
  BY DEF ClearRest, Goto
<1>2. /\ img \in Places /\ img \in Addr /\ i \in Nat /\ IsElf
      /\ GivenHeader \in Cells /\ GivenHeader.t = "ehdr"
      /\ phdr = img + GivenHeader.phoff /\ phdr + i \in Addr
  BY <1>1, AtRound
<1>3. mem \in [Addr -> Cells] /\ given \in [Addr -> Cells] /\ GivenHeader = given[img]
  BY DEF LTypes, Memories, GivenHeader
<1>4. given[img].phoff \in Nat /\ given[img].phnum \in Nat /\ given[img].t = "ehdr"
  BY <1>2, <1>3, HeaderFits
<1>5. CASE ~Clear(given, img)
  BY <1>1, <1>2, <1>5 DEF LRight, call, IsElf, GivenHeader
<1>6. CASE Clear(given, img)
  <2>1. i < given[img].phnum /\ SegmentOf(given, img, i).load /\ FileLaid(given, img, mem, i)
    BY <1>1, <1>3, <1>6 DEF LRight
  <2>2. phdr + i = img + given[img].phoff + i /\ img + given[img].phoff + i \in Addr
    BY <1>2, <1>3
  <2>3. SegmentOf(given, img, i) \in Cells
    BY <1>3, <2>2 DEF SegmentOf
  <2>4. Segment = SegmentOf(given, img, i)
    BY <1>2, <1>3, <1>4, <1>6, <2>1, <2>2, <2>3, FilePartFindsGiven DEF Segment
  <2>5. Segment.t = "phdr"
    BY <1>2, <1>4, <1>6, <2>1, <2>4, RoundFindsGiven
  <2>6. Segment.paddr \in Nat /\ Segment.filesz \in Nat /\ Segment.memsz \in Nat
    BY <1>2, <2>1, <2>3, <2>4, <2>5, SegmentMoves
  <2>7. /\ pc' = "segment" /\ i' = i + 1
        /\ mem' = IF Segment.filesz < Segment.memsz
                  THEN Bzero(mem, Segment.paddr + Segment.filesz,
                             Segment.memsz - Segment.filesz)
                  ELSE mem
    BY <2>5 DEF ClearRest, Goto
  <2>8. Laid(given, img, mem', i + 1)
    BY <1>2, <1>3, <2>1, <2>4, <2>6, <2>7, SegmentLaid
  <2>9. i + 1 <= given[img].phnum
    BY <1>2, <1>4, <2>1
  <2>. QED
    BY <1>1, <1>3, <2>7, <2>8, <2>9 DEF LRight, GivenHeader, call
<1>. QED
  BY <1>5, <1>6

LEMMA UimageLoadLRight ==
    ASSUME LInv, LTypes, UimageLoad
    PROVE  LRight'
<1>1. /\ pc = "uimage" /\ mem = given /\ Header = GivenHeader /\ GivenHeader.t = "uhdr"
      /\ UNCHANGED call /\ pc' \in {"shell", "fixup"}
  BY AtUimage DEF UimageLoad, Refuse, Goto
<1>2. /\ GivenHeader.load \in Nat /\ GivenHeader.size \in Nat /\ img \in Nat
      /\ Movable(img + 1, GivenHeader.load, GivenHeader.size)
  BY <1>1, AtUimage
<1>3. given \in [Addr -> Cells]
  BY DEF LTypes, Memories
<1>4. ASSUME pc' = "fixup" PROVE UimageLaid(given, img, mem')
  <2> DEFINE to == GivenHeader.load
             n == GivenHeader.size
  <2>1. mem' = IF to = img + 1 THEN given ELSE Memmove(given, to, img + 1, n)
    BY <1>1, <1>4 DEF UimageLoad, UimageMoved, Refuse, Goto
  <2>2. \A a \in to .. to + n - 1 : (img + 1) + (a - to) = img + 1 + a - to
    BY <1>2
  <2>3. UimageLaid(given, img, mem') <=>
           \A a \in Addr : mem'[a] = IF a \in to .. to + n - 1 THEN given[img + 1 + a - to] ELSE given[a]
    BY DEF UimageLaid, GivenHeader
  <2> HIDE DEF to, n
  <2>4. CASE to = img + 1
    <3>1. mem' = given
      BY <2>1, <2>4
    <3>2. \A a \in to .. to + n - 1 : img + 1 + a - to = a
      BY <1>2, <2>4 DEF to, n
    <3>. QED
      BY <2>3, <3>1, <3>2
  <2>5. CASE to # img + 1
    <3>1. MoveDone(Cells, given, to, img + 1, n, mem')
      BY <1>2, <1>3, <2>1, <2>5, MoveInMemory DEF Movable, to, n
    <3>2. ASSUME NEW a \in Addr
          PROVE  mem'[a] = IF a \in to .. to + n - 1 THEN given[img + 1 + a - to] ELSE given[a]
      BY <2>2, <3>1 DEF MoveDone
    <3>. QED
      BY <2>3, <3>2
  <2>. QED
    BY <2>4, <2>5
<1>5. ~IsElf /\ ~IsBinary
  BY <1>1 DEF IsElf, IsBinary
<1>6. pc' = "fixup" => Loaded'
  BY <1>1, <1>4, <1>5 DEF Loaded, IsElf, IsBinary, GivenHeader, call
<1>. QED
  BY <1>1, <1>6 DEF LRight

LEMMA NextLRight ==
    ASSUME LInv, LTypes, LRight, [Next]_vars
    PROVE  LRight'
<1>1. ASSUME NEW c \in Calls, Boot(c) PROVE LRight'
  BY <1>1 DEF Boot, LRight
<1>2. CASE Fixup
  BY <1>2, FixupSteps DEF LRight
<1>3. CASE Start \/ KernelReturns
  BY <1>3 DEF Start, KernelReturns, Refuse, Goto, LRight
<1>4. CASE UNCHANGED vars
  BY <1>4 DEF vars, call, LRight, Loaded, IsElf, IsUimage, IsBinary, GivenHeader
<1>. QED
  BY <1>1, <1>2, <1>3, <1>4, IdentifyLRight, Elf32LoadLRight, LoadSegmentLRight, ClearRestLRight,
     UimageLoadLRight DEF Next, Fixup

(***************************************************************************)
(* A loaded image is in memory as its headers say it should be, wherever   *)
(* it lies and is moved, and the rest of memory is as it was: an ELF image *)
(* whose segments keep clear of what is still to be read, and a U-Boot     *)
(* image even if it is moved over itself.  Only an ELF image that does not *)
(* keep clear makes the loader read something else as a header.            *)
(***************************************************************************)
THEOREM LoadedIsRight == Spec => []LoadedRight
<1>1. Init => LRight
  BY DEF Init, LRight
<1>2. LRight => LoadedRight
  <2> SUFFICES ASSUME LRight PROVE LoadedRight
    OBVIOUS
  <2>1. pc = "wild" => IsElf /\ ~KeepsClear
    BY ClearIs DEF LRight
  <2>2. ASSUME pc = "fixup", IsElf, KeepsClear, NEW a \in Addr PROVE mem[a] = ElfCell(a)
    BY <2>2, ClearIs, ElfCellIs DEF LRight, Loaded, Laid
  <2>3. ASSUME pc = "fixup", IsUimage, NEW a \in Addr PROVE mem[a] = UimageCell(a)
    BY <2>3 DEF LRight, Loaded, UimageLaid, UimageCell, GivenHeader
  <2>4. pc = "fixup" /\ IsBinary => mem = given
    BY DEF LRight, Loaded
  <2>. QED
    BY <2>1, <2>2, <2>3, <2>4 DEF LoadedRight
<1>. QED
  BY <1>1, <1>2, NextLRight, LoaderInvariant, LoaderMemory, PTL DEF Spec
===============================================================================
