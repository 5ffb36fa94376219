--------------------------- MODULE CmdParseProofs ---------------------------
(***************************************************************************)
(* The shell keeps its books on the heap for every heap, every set of      *)
(* words and every sequence of lines.  The inductive invariant says at     *)
(* each statement of cmd_parse which strings the line holds; what is read  *)
(* and given back, and what is left when the line is done, are             *)
(* consequences.  What the heap does is taken from HeapProofs.   *)
(***************************************************************************)
EXTENDS CmdParse, FiniteSetTheorems, SequenceTheorems, TLAPS

HP == INSTANCE HeapProofs WITH Sizes <- {}

------------------------------------------------------------------------------
(***************************************************************************)
(* A set of natural numbers that is not empty has a least element: what    *)
(* induction over the words of a line comes down to.                       *)
(***************************************************************************)
LEMMA LeastCase ==
    ASSUME NEW S \in SUBSET Nat, S # {}
    PROVE  \E x \in S : \A y \in S : x <= y
<1> DEFINE R == {ss \in Nat \X Nat : ss[1] < ss[2]}
<1>0. IsWellFoundedOn(R, Nat)
  BY NatLessThanWellFounded DEF OpToRel
<1>1. PICK x \in S : \A y \in S : <<y, x>> \notin R
  <2> HIDE DEF R
  <2>. QED
    BY <1>0, WFMin
<1>2. \A y \in S : x <= y
  <2> SUFFICES ASSUME NEW y \in S, y < x PROVE FALSE
    OBVIOUS
  <2>1. <<y, x>> \in Nat \X Nat /\ <<y, x>>[1] = y /\ <<y, x>>[2] = x
    OBVIOUS
  <2>2. <<y, x>> \in R
    BY <2>1
  <2>. QED
    BY <1>1, <2>2
<1>. QED
  BY <1>2

(***************************************************************************)
(* The recursion of TextLength has a solution, whatever the words: a       *)
(* shortest prefix without one would be one word longer than one with one. *)
(***************************************************************************)
Cost(ws, k) == Length[ws[k]] + (IF k = 1 THEN 0 ELSE 1)

Sums(ws, n, f) ==
    /\ f \in [0 .. n -> Nat]
    /\ f[0] = 0
    /\ \A k \in 1 .. n : f[k] = f[k - 1] + Cost(ws, k)

LEMMA CostNat ==
    ASSUME NEW ws \in Seq(Words), NEW k \in 1 .. Len(ws)
    PROVE  Cost(ws, k) \in Nat
<1>1. Length[ws[k]] \in Nat
  BY CmdParseAssumption
<1>. QED
  BY <1>1 DEF Cost

LEMMA SumsExist ==
    ASSUME NEW ws \in Seq(Words)
    PROVE  \E f : Sums(ws, Len(ws), f)
<1> DEFINE S == {n \in 0 .. Len(ws) : ~ \E f : Sums(ws, n, f)}
<1>1. Len(ws) \in Nat
  OBVIOUS
<1>2. SUFFICES ASSUME S # {} PROVE FALSE
  BY <1>1
<1>3. PICK n \in S : \A m \in S : n <= m
  <2>1. S \in SUBSET Nat
    BY <1>1
  <2> HIDE DEF S
  <2>. QED
    BY <1>2, <2>1, LeastCase
<1>4. n # 0
  <2>1. Sums(ws, 0, [k \in 0 .. 0 |-> 0])
    BY DEF Sums
  <2>. QED
    BY <2>1
<1>5. PICK f : Sums(ws, n - 1, f)
  BY <1>1, <1>3, <1>4
<1> DEFINE g == [k \in 0 .. n |-> IF k = n THEN f[n - 1] + Cost(ws, n) ELSE f[k]]
<1>6. Cost(ws, n) \in Nat
  BY <1>1, <1>4, CostNat
<1>7. Sums(ws, n, g)
  <2>1. n \in Nat /\ n > 0
    BY <1>1, <1>4
  <2>2. f \in [0 .. n - 1 -> Nat] /\ f[0] = 0
    BY <1>5 DEF Sums
  <2>3. g \in [0 .. n -> Nat] /\ g[0] = 0
    BY <1>6, <2>1, <2>2
  <2>4. ASSUME NEW k \in 1 .. n PROVE g[k] = g[k - 1] + Cost(ws, k)
    <3>1. CASE k = n
      BY <2>1, <3>1
    <3>2. CASE k \in 1 .. n - 1
      <4>1. f[k] = f[k - 1] + Cost(ws, k)
        BY <1>5, <3>2 DEF Sums
      <4>. QED
        BY <2>1, <3>2, <4>1
    <3>. QED
      BY <2>1, <3>1, <3>2
  <2> HIDE DEF g
  <2>. QED
    BY <2>3, <2>4 DEF Sums
<1>. QED
  BY <1>7

LEMMA TextLengthNat ==
    ASSUME NEW t \in Texts
    PROVE  TextLength(t) \in Nat
<1> DEFINE ws == t.words
           Eq(f) == f = [k \in 0 .. Len(ws) |->
                            IF k = 0 THEN 0
                            ELSE f[k - 1] + Length[ws[k]] + (IF k = 1 THEN 0 ELSE 1)]
           upTo == CHOOSE f : Eq(f)
<1>1. /\ ws \in Seq(Words) /\ Len(ws) \in Nat
      /\ t.lead \in Nat /\ t.blanks \in Nat
  BY DEF Texts
<1>2. \A k \in 1 .. Len(ws) : Length[ws[k]] \in Nat
  BY <1>1, CmdParseAssumption
<1>3. \E f : Eq(f)
  <2>1. PICK f : Sums(ws, Len(ws), f)
    BY <1>1, SumsExist
  <2>2. \A k \in 0 .. Len(ws) :
           f[k] = IF k = 0 THEN 0 ELSE f[k - 1] + Length[ws[k]] + (IF k = 1 THEN 0 ELSE 1)
    <3>1. TAKE k \in 0 .. Len(ws)
    <3>2. CASE k = 0
      BY <2>1, <3>2 DEF Sums
    <3>3. CASE k \in 1 .. Len(ws)
      <4>1. f[k] = f[k - 1] + Cost(ws, k)
        BY <1>1, <2>1, <3>3 DEF Sums
      <4>2. f[k - 1] \in Nat
        <5>1. k - 1 \in 0 .. Len(ws)
          BY <1>1, <3>3
        <5>. QED
          BY <2>1, <5>1 DEF Sums
      <4>. QED
        BY <1>2, <3>3, <4>1, <4>2 DEF Cost
    <3>. QED
      BY <1>1, <3>2, <3>3
  <2>3. Eq(f)
    BY <2>1, <2>2 DEF Sums
  <2>. QED
    BY <2>3
<1>4. Eq(upTo)
  <2> HIDE DEF Eq
  <2>. QED
    BY <1>3
<1>5. TextLength(t) = t.lead + upTo[Len(ws)] + t.blanks
  BY DEF TextLength
<1> HIDE DEF upTo
<1>6. upTo[0] = 0
  BY <1>1, <1>4
<1>7. \A k \in 1 .. Len(ws) :
         upTo[k] = upTo[k - 1] + Length[ws[k]] + (IF k = 1 THEN 0 ELSE 1)
  <2>1. TAKE k \in 1 .. Len(ws)
  <2>2. k \in 0 .. Len(ws) /\ k # 0
    BY <1>1
  <2>. QED
    BY <1>4, <2>2
<1> DEFINE S == {k \in 0 .. Len(ws) : upTo[k] \notin Nat}
<1>8. S = {}
  <2> SUFFICES ASSUME S # {} PROVE FALSE
    OBVIOUS
  <2>1. PICK k \in S : \A m \in S : k <= m
    <3>1. S \in SUBSET Nat
      BY <1>1
    <3> HIDE DEF S
    <3>. QED
      BY <3>1, LeastCase
  <2>2. k \in 1 .. Len(ws)
    BY <1>1, <1>6, <2>1
  <2>3. upTo[k - 1] \in Nat
    BY <1>1, <2>1, <2>2
  <2>4. /\ Length[ws[k]] \in Nat
        /\ upTo[k] = upTo[k - 1] + Length[ws[k]] + (IF k = 1 THEN 0 ELSE 1)
    BY <1>2, <1>7, <2>2
  <2>5. upTo[k] \in Nat
    BY <2>3, <2>4
  <2>. QED
    BY <2>1, <2>5
<1>. QED
  BY <1>1, <1>5, <1>8

LEMMA RestTyped ==
    ASSUME NEW t \in Texts
    PROVE  Rest(t) \in Texts
<1>1. t.words \in Seq(Words) /\ t.blanks \in Nat
  BY DEF Texts
<1>2. Len(t.words) > 1 => Tail(t.words) \in Seq(Words)
  BY <1>1
<1>. QED
  BY <1>1, <1>2 DEF Rest, Texts

------------------------------------------------------------------------------
(***************************************************************************)
(* The pointers named in P are the holder of what was granted in G beyond  *)
(* B: each grant by one of them, and no grant by two.                      *)
(***************************************************************************)
Grant == [ptr : Nat, size : Nat]

Distinct(G) == \A g, h \in G : g.ptr = h.ptr => g = h

Owns(P, t, G, B) ==
    /\ B \subseteq G
    /\ \A g \in G \ B : \E p \in P : t[p] = g.ptr
    /\ \A p \in P : t[p] # NULL => \E g \in G \ B : t[p] = g.ptr
    /\ \A p, q \in P : t[p] = t[q] => p = q \/ t[p] = NULL

LEMMA OwnsNothing == ASSUME NEW G, NEW t PROVE Owns({}, t, G, G)
BY DEF Owns

LEMMA OwnsGranted ==
    ASSUME NEW P \in SUBSET Pointers, NEW p \in Pointers \ P,
           NEW t \in [Pointers -> Address], NEW G \in SUBSET Grant, NEW B, NEW g \in Grant,
           Owns(P, t, G, B), \A h \in G : h.ptr # g.ptr
    PROVE  Owns(P \union {p}, [t EXCEPT ![p] = g.ptr], G \union {g}, B)
<1> DEFINE u == [t EXCEPT ![p] = g.ptr]
<1>1. u[p] = g.ptr /\ \A q \in P : u[q] = t[q]
  OBVIOUS
<1>2. g \notin B /\ g \notin G
  BY DEF Owns
<1>3. \A q \in P : t[q] # NULL => t[q] # g.ptr
  BY DEF Owns
<1> HIDE DEF u
<1>4. B \subseteq G \union {g}
  BY DEF Owns
<1>5. \A h \in (G \union {g}) \ B : \E q \in P \union {p} : u[q] = h.ptr
  BY <1>1 DEF Owns
<1>6. \A q \in P \union {p} : u[q] # NULL => \E h \in (G \union {g}) \ B : u[q] = h.ptr
  BY <1>1, <1>2 DEF Owns
<1>7. \A q, r \in P \union {p} : u[q] = u[r] => q = r \/ u[q] = NULL
  BY <1>1, <1>3 DEF Owns
<1>. QED
  BY <1>4, <1>5, <1>6, <1>7 DEF Owns, u

LEMMA OwnsRefused ==
    ASSUME NEW P \in SUBSET Pointers, NEW p \in Pointers \ P,
           NEW t \in [Pointers -> Address], NEW G \in SUBSET Grant, NEW B,
           Owns(P, t, G, B)
    PROVE  /\ Owns(P, [t EXCEPT ![p] = NULL], G, B)
           /\ Owns(P \union {p}, [t EXCEPT ![p] = NULL], G, B)
<1> DEFINE u == [t EXCEPT ![p] = NULL]
<1>1. u[p] = NULL /\ \A q \in P : u[q] = t[q]
  OBVIOUS
<1> HIDE DEF u
<1>2. Owns(P, u, G, B) /\ Owns(P \union {p}, u, G, B)
  BY <1>1 DEF Owns
<1>. QED
  BY <1>2 DEF u

LEMMA OwnsGivenBack ==
    ASSUME NEW P \in SUBSET Pointers, NEW p \in P,
           NEW t \in [Pointers -> Address], NEW G \in SUBSET Grant, NEW B,
           Owns(P, t, G, B), Distinct(G), \A g \in G : g.ptr # NULL
    PROVE  Owns(P \ {p}, t, {g \in G : g.ptr # t[p]}, B)
<1> DEFINE F == {g \in G : g.ptr # t[p]}
<1>1. ASSUME NEW g \in B PROVE g \in F
  <2>1. CASE t[p] = NULL
    BY <2>1 DEF Owns
  <2>2. CASE t[p] # NULL
    <3>1. PICK h \in G \ B : t[p] = h.ptr
      BY <2>2 DEF Owns
    <3>2. g \in G /\ g # h
      BY <3>1 DEF Owns
    <3>. QED
      BY <3>1, <3>2 DEF Distinct
  <2>. QED
    BY <2>1, <2>2
<1>2. \A g \in F \ B : \E q \in P \ {p} : t[q] = g.ptr
  BY DEF Owns
<1>3. ASSUME NEW q \in P \ {p}, t[q] # NULL
      PROVE  \E g \in F \ B : t[q] = g.ptr
  <2>1. PICK g \in G \ B : t[q] = g.ptr
    BY <1>3 DEF Owns
  <2>2. t[q] # t[p]
    BY <1>3 DEF Owns
  <2>. QED
    BY <2>1, <2>2
<1>4. \A q, r \in P \ {p} : t[q] = t[r] => q = r \/ t[q] = NULL
  BY DEF Owns
<1> HIDE DEF F
<1>5. Owns(P \ {p}, t, F, B)
  BY <1>1, <1>2, <1>3, <1>4 DEF Owns
<1>. QED
  BY <1>5 DEF F

------------------------------------------------------------------------------
(***************************************************************************)
(* The heap's steps, seen through the pointers.                            *)
(***************************************************************************)
LEMMA SameMalloc ==
    ASSUME NEW op, NEW n
    PROVE  /\ H!Malloc(op, n) <=> HP!Malloc(op, n)
           /\ H!Rounded(n) = HP!Rounded(n)
<1> DEFINE size == H!Rounded(n)
<1>1. size = HP!Rounded(n)
  BY DEF H!Rounded, HP!Rounded
<1> HIDE DEF size
<1>2. H!Usable(size) = HP!Usable(size)
  BY DEF H!Usable, HP!Usable
<1>3. H!FirstFit(size) = HP!FirstFit(size)
  BY DEF H!FirstFit, HP!FirstFit, H!Usable, HP!Usable
<1>4. /\ \A b : H!Payload(b) = HP!Payload(b)
      /\ H!NULL = HP!NULL
  BY DEF H!Payload, HP!Payload, H!HeaderSize, HP!HeaderSize, H!NULL, HP!NULL
<1>5. \A i : H!ChainAfter(i, size) = HP!ChainAfter(i, size)
  <2>1. TAKE i
  <2>2. \A b : /\ H!Splits(b, size) <=> HP!Splits(b, size)
               /\ H!Rest(b, size) = HP!Rest(b, size)
               /\ H!Taken(b, size) = HP!Taken(b, size)
    BY DEF H!Splits, HP!Splits, H!Taken, HP!Taken, H!Rest, HP!Rest,
       H!HeaderSize, HP!HeaderSize
  <2>. QED
    BY <2>2 DEF H!ChainAfter, HP!ChainAfter
<1>6. H!Granted(op, n) <=> HP!Granted(op, n)
  BY <1>1, <1>2, <1>3, <1>4, <1>5 DEF size, H!Granted, HP!Granted
<1>7. H!Refused(op, n) <=> HP!Refused(op, n)
  BY <1>1, <1>2, <1>4 DEF size, H!Refused, HP!Refused
<1>. QED
  BY <1>1, <1>6, <1>7 DEF H!Malloc, HP!Malloc, size

LEMMA HeapFacts ==
    ASSUME HP!IInv
    PROVE  /\ H!TypeOK
           /\ grants \in SUBSET Grant /\ Distinct(grants)
           /\ \A g \in grants : g.ptr # NULL
           /\ refused \in Nat
<1>1. HP!TypeOK /\ HP!GrantsHeld
  BY DEF HP!IInv
<1>2. H!TypeOK
  BY <1>1 DEF H!TypeOK, HP!TypeOK, H!Block, HP!Block, H!Allocations, HP!Allocations
<1>3. grants \in SUBSET Grant /\ Distinct(grants) /\ refused \in Nat
  BY <1>1 DEF HP!TypeOK, HP!GrantsHeld, Grant, Distinct
<1>4. ASSUME NEW g \in grants PROVE g.ptr # NULL
  <2>1. PICK i \in 1 .. Len(chain) : HP!Holds(i, g)
    BY <1>1 DEF HP!GrantsHeld
  <2>2. chain[i] \in HP!Block
    BY <1>1 DEF HP!TypeOK
  <2>. QED
    BY <2>1, <2>2 DEF HP!Holds, HP!Block, HP!Payload, HP!HeaderSize, NULL
<1>. QED
  BY <1>2, <1>3, <1>4

LEMMA HeapFactsNext == HP!IInv' => H!TypeOK' /\ refused' \in Nat
<1>1. HP!IInv' => HP!TypeOK'
  BY DEF HP!IInv
<1>. QED
  BY <1>1 DEF H!TypeOK, HP!TypeOK, H!Block, HP!Block, H!Allocations, HP!Allocations

LEMMA HeapUnchanged == HP!IInv /\ UNCHANGED heap => HP!IInv'
BY DEF heap, HP!IInv, HP!TypeOK, HP!HeapTiled, HP!Ordered, HP!OnlyLastFree,
   HP!GrantsHeld, HP!Holds, HP!RefusedNeverFits, HP!RefusalIsFinal

LEMMA AllocGives ==
    ASSUME HP!IInv, ptr \in [Pointers -> Address], NEW P \in SUBSET Pointers,
           NEW p \in Pointers \ P, NEW B, Owns(P, ptr, grants, B),
           NEW op \in {"kmalloc", "strdup"}, NEW n \in Nat, H!Malloc(op, n),
           UNCHANGED overrun, ptr' = [ptr EXCEPT ![p] = last'.ptr]
    PROVE  /\ HP!IInv'
           /\ ptr' \in [Pointers -> Address]
           /\ Owns(P \union {p}, ptr', grants', B)
           /\ refused' <= refused
           /\ IF last'.ptr = NULL THEN Owns(P, ptr', grants', B)
              ELSE H!Rounded(n) < refused
<1>1. HP!Malloc(op, n) /\ op \in HP!Allocations /\ overrun' \in BOOLEAN
  BY SameMalloc DEF HP!Allocations, HP!IInv, HP!TypeOK
<1>2. HP!IInv'
  BY <1>1, HP!MallocKeeps, CmdParseAssumption
<1>3. \/ last'.ptr = NULL /\ grants' = grants /\ refused' <= refused
      \/ /\ last'.ptr \in Nat \ {NULL}
         /\ \A g \in grants : g.ptr # last'.ptr
         /\ grants' = grants \union {[ptr |-> last'.ptr, size |-> HP!Rounded(n)]}
         /\ refused' = refused /\ HP!Rounded(n) < refused
  BY <1>1, HP!MallocReply, CmdParseAssumption DEF HP!NULL, NULL
<1>4. grants \in SUBSET Grant /\ refused \in Nat
  BY HeapFacts
<1>5. CASE last'.ptr = NULL
  <2>1. ptr' = [ptr EXCEPT ![p] = NULL] /\ grants' = grants /\ refused' <= refused
    BY <1>3, <1>5
  <2>2. ptr' \in [Pointers -> Address]
    BY <2>1 DEF NULL, Address
  <2>3. Owns(P, ptr', grants', B) /\ Owns(P \union {p}, ptr', grants', B)
    <3>1. /\ Owns(P, [ptr EXCEPT ![p] = NULL], grants, B)
          /\ Owns(P \union {p}, [ptr EXCEPT ![p] = NULL], grants, B)
      BY <1>4, OwnsRefused
    <3>. QED
      BY <2>1, <3>1
  <2>. QED
    BY <1>2, <1>5, <2>1, <2>2, <2>3
<1>6. CASE last'.ptr # NULL
  <2> DEFINE g == [ptr |-> last'.ptr, size |-> HP!Rounded(n)]
  <2>1. HP!Rounded(n) \in Nat
    BY HP!RoundedNat, CmdParseAssumption
  <2>2. /\ last'.ptr \in Nat /\ g \in Grant /\ g.ptr = last'.ptr
        /\ \A h \in grants : h.ptr # g.ptr
        /\ grants' = grants \union {g}
        /\ refused' = refused /\ H!Rounded(n) < refused
    BY <1>3, <1>6, <2>1, SameMalloc DEF Grant
  <2> HIDE DEF g
  <2>3. ptr' \in [Pointers -> Address] /\ ptr' = [ptr EXCEPT ![p] = g.ptr]
    BY <2>2 DEF Address
  <2>4. Owns(P \union {p}, ptr', grants', B)
    <3>1. Owns(P \union {p}, [ptr EXCEPT ![p] = g.ptr], grants \union {g}, B)
      BY <1>4, <2>2, OwnsGranted
    <3>. QED
      BY <2>2, <2>3, <3>1
  <2>. QED
    BY <1>2, <1>4, <1>6, <2>2, <2>3, <2>4
<1>. QED
  BY <1>5, <1>6

LEMMA FreeGives ==
    ASSUME HP!IInv, ptr \in [Pointers -> Address], NEW P \in SUBSET Pointers,
           NEW p \in P, NEW B, Owns(P, ptr, grants, B), Kfree(p)
    PROVE  /\ HP!IInv'
           /\ Owns(P \ {p}, ptr, grants', B)
           /\ ptr' = ptr /\ refused' = refused
<1>1. HP!Kfree(ptr[p])
  BY DEF Kfree, H!Kfree, HP!Kfree, H!Payload, HP!Payload, H!HeaderSize, HP!HeaderSize
<1>2. HP!IInv'
  BY <1>1, HP!KfreeKeeps, CmdParseAssumption
<1>3. grants' = {g \in grants : g.ptr # ptr[p]} /\ ptr' = ptr /\ refused' = refused
  BY DEF Kfree, H!Kfree
<1>. QED
  BY <1>2, <1>3, HeapFacts, OwnsGivenBack

------------------------------------------------------------------------------
(***************************************************************************)
(* The pointers that hold a string at each statement, while statementSplit *)
(* is called or was called once, and twice: its copy, the two that it      *)
(* returns, which may be null until it has looked at them (Unsure), and    *)
(* what the second call finds.                                             *)
(* A line that is done may leave pointers behind, which nobody reads.      *)
(***************************************************************************)
HeldFirst ==
    CASE pc \in {"no token", "first"} -> {"statementCpy"}
      [] pc = "second" -> {"statementCpy", "command"}
      [] pc = "free copy" -> {"statementCpy", "command", "argument"}
      [] pc = "undo first" -> {"command"}
      [] pc \in {"undo second", "argument", "arguments", "lookup", "call", "free command"} ->
            {"command", "argument"}
      [] pc = "free name" -> {"command", "argument", "tmpSymbolName"}
      [] pc = "free argument" -> {"argument"}
      [] OTHER -> {}

HeldSecond ==
    CASE pc = "prompt" -> IF status = "OK" THEN {"argument1", "argument2"}
                          ELSE {"command", "argument"}
      [] pc = "copy" -> {"command", "argument"}
      [] pc \in {"no token", "first"} -> {"command", "argument", "statementCpy"}
      [] pc = "second" -> {"command", "argument", "statementCpy", "argument1"}
      [] pc = "free copy" ->
            {"command", "argument", "statementCpy", "argument1", "argument2"}
      [] pc = "undo first" -> {"command", "argument", "argument1"}
      [] pc \in {"undo second", "argument", "arguments", "lookup", "call", "free command"} ->
            {"command", "argument", "argument1", "argument2"}
      [] pc = "free name" ->
            {"command", "argument", "argument1", "argument2", "tmpSymbolName"}
      [] pc = "free argument" -> {"argument", "argument1", "argument2"}
      [] OTHER -> {}

Held == IF level = 1 THEN HeldFirst ELSE HeldSecond

Unsure ==
    IF pc \in {"second", "free copy", "undo second", "undo first"} THEN {First, Second}
    ELSE {}

Books ==
    pc # "gone" => /\ Owns(Held, ptr, grants, before.live)
                   /\ \A p \in Held \ Unsure : ptr[p] # NULL

Typed ==
    /\ TypeOK
    /\ pc \notin {"prompt", "gone"} => line.words # <<>>
    /\ pc = "argument" => level = 1

\* Only the second call assigns the two arguments.
Unassigned == level = 1 => ptr["argument1"] = Unset /\ ptr["argument2"] = Unset

(***************************************************************************)
(* What the first string of a line takes, and that it was granted: it is   *)
(* less than anything refused before the line.                             *)
(***************************************************************************)
Demand == H!Rounded(TextLength([line EXCEPT !.lead = 0]) + 1)

Budget ==
    /\ before.refused \in Nat /\ refused <= before.refused
    /\ IF pc = "copy" /\ level = 1 THEN text = [line EXCEPT !.lead = 0]
       ELSE pc \in {"prompt", "gone"} \/ Demand < before.refused

IInv == HP!IInv /\ Typed /\ Books /\ Budget

LEMMA HeldIn == ASSUME level \in {1, 2} PROVE Held \in SUBSET Pointers
BY DEF Held, HeldFirst, HeldSecond, First, Second, Pointers

LEMMA InitIInv == Init => IInv
<1> SUFFICES ASSUME Init PROVE IInv
  OBVIOUS
<1>1. HP!IInv
  <2>1. HP!Init
    BY DEF Init, H!Init, HP!Init, H!HeaderSize, HP!HeaderSize, H!NULL, HP!NULL
  <2>. QED
    BY <2>1, HP!InitIInv, CmdParseAssumption
<1>2. Typed
  BY <1>1, HeapFacts DEF Init, Typed, TypeOK, Texts, Pointers, Address
<1>3. Books
  BY OwnsNothing DEF Init, Books, Held, HeldFirst, HeldSecond, H!Init
<1>4. Budget
  BY <1>1, HeapFacts DEF Init, Budget
<1>. QED
  BY <1>1, <1>2, <1>3, <1>4 DEF IInv

(***************************************************************************)
(* A step that asks for a string for pointer p, and one that gives back    *)
(* the string of p, as each of the actions below needs them.               *)
(***************************************************************************)
LEMMA AllocStep ==
    ASSUME IInv, pc # "gone", NEW p \in Pointers \ Held,
           NEW op \in {"kmalloc", "strdup"}, NEW n \in Nat, H!Malloc(op, n),
           UNCHANGED <<overrun, before>>, ptr' = [ptr EXCEPT ![p] = last'.ptr]
    PROVE  /\ HP!IInv' /\ H!TypeOK' /\ ptr' \in [Pointers -> Address]
           /\ Owns(Held \union {p}, ptr', grants', before'.live)
           /\ ptr'[p] = last'.ptr
           /\ \A q \in Held \ Unsure : ptr'[q] # NULL
           /\ refused' <= before'.refused /\ before'.refused \in Nat
           /\ IF last'.ptr = NULL THEN Owns(Held, ptr', grants', before'.live)
              ELSE H!Rounded(n) < before'.refused
<1>1. /\ HP!IInv /\ ptr \in [Pointers -> Address] /\ Held \in SUBSET Pointers
      /\ Owns(Held, ptr, grants, before.live)
      /\ \A q \in Held \ Unsure : ptr[q] # NULL
      /\ before.refused \in Nat /\ refused <= before.refused
  BY HeldIn DEF IInv, Typed, TypeOK, Books, Budget
<1>2. /\ HP!IInv' /\ ptr' \in [Pointers -> Address]
      /\ Owns(Held \union {p}, ptr', grants', before.live)
      /\ refused' <= refused
      /\ IF last'.ptr = NULL THEN Owns(Held, ptr', grants', before.live)
         ELSE H!Rounded(n) < refused
  BY <1>1, AllocGives
<1>3. refused \in Nat /\ refused' \in Nat /\ H!TypeOK'
  BY <1>1, <1>2, HeapFacts, HeapFactsNext
<1>4. H!Rounded(n) \in Nat
  BY SameMalloc, HP!RoundedNat, CmdParseAssumption
<1>. QED
  BY <1>1, <1>2, <1>3, <1>4

LEMMA FreeStep ==
    ASSUME IInv, pc # "gone", NEW p \in Held, Kfree(p), UNCHANGED before
    PROVE  /\ HP!IInv' /\ H!TypeOK' /\ ptr' = ptr /\ ptr' \in [Pointers -> Address]
           /\ Owns(Held \ {p}, ptr', grants', before'.live)
           /\ \A q \in Held \ Unsure : ptr'[q] # NULL
           /\ refused' <= before'.refused /\ before'.refused \in Nat
<1>1. /\ HP!IInv /\ ptr \in [Pointers -> Address] /\ Held \in SUBSET Pointers
      /\ Owns(Held, ptr, grants, before.live)
      /\ \A q \in Held \ Unsure : ptr[q] # NULL
      /\ before.refused \in Nat /\ refused <= before.refused
  BY HeldIn DEF IInv, Typed, TypeOK, Books, Budget
<1>2. /\ HP!IInv' /\ ptr' = ptr /\ refused' = refused
      /\ Owns(Held \ {p}, ptr, grants', before.live)
  BY <1>1, FreeGives
<1>. QED
  BY <1>1, <1>2, HeapFactsNext

------------------------------------------------------------------------------
(***************************************************************************)
(* One lemma per action.                                                   *)
(***************************************************************************)
LEMMA PromptKeeps ==
    ASSUME IInv, NEW t \in Lines, Prompt(t)
    PROVE  IInv'
<1>1. /\ t \in Texts /\ text' \in Texts
      /\ text' = [line' EXCEPT !.lead = 0]
  BY CmdParseAssumption DEF Prompt, Texts
<1>2. /\ HP!IInv /\ H!TypeOK /\ refused \in Nat
      /\ ptr \in [Pointers -> Address] /\ status \in {"OK", "ERROR"}
  BY HeapFacts DEF IInv, Typed, TypeOK
<1>3. /\ UNCHANGED <<chain, grants, last, refused, overrun>>
      /\ ptr' \in [Pointers -> Address]
      /\ before' = [live |-> grants, refused |-> refused]
      /\ line' = t /\ level' = 1
      /\ \/ pc' = "prompt" /\ status' = "OK"
         \/ pc' \in {"copy", "gone"} /\ status' = status /\ t.words # <<>>
  BY DEF Prompt, Return, Goto, heap, Address
<1>4. HP!IInv'
  BY <1>2, <1>3, HeapUnchanged DEF heap
<1>5. Typed'
  BY <1>1, <1>2, <1>3 DEF Typed, TypeOK, H!TypeOK
<1>6. Books'
  <2>1. level' = 1 /\ pc' \in {"prompt", "copy", "gone"}
    BY <1>3
  <2>2. Held' = {}
    BY ONLY <2>1 DEF Held, HeldFirst
  <2>. QED
    BY <1>3, <2>1, <2>2, OwnsNothing DEF Books
<1>7. Budget'
  BY <1>1, <1>2, <1>3 DEF Budget
<1>. QED
  BY <1>4, <1>5, <1>6, <1>7 DEF IInv

LEMMA CopyStatementKeeps ==
    ASSUME IInv, CopyStatement
    PROVE  IInv'
<1> DEFINE n == TextLength(text) + 1
<1>1. /\ pc = "copy" /\ level \in {1, 2} /\ text \in Texts /\ line \in Texts
      /\ line.words # <<>> /\ status \in {"OK", "ERROR"}
      /\ Held = (IF level = 1 THEN {} ELSE {"command", "argument"}) /\ Unsure = {}
  BY DEF IInv, Typed, TypeOK, CopyStatement, Held, HeldFirst, HeldSecond, Unsure
<1>2. n \in Nat
  BY <1>1, TextLengthNat
<1>3. /\ H!Malloc("strdup", n)
      /\ ptr' = [ptr EXCEPT !["statementCpy"] = last'.ptr]
      /\ UNCHANGED <<overrun, line, text, level, before, lines>>
      /\ IF last'.ptr = NULL THEN pc' = "prompt" /\ status' = "ERROR"
         ELSE /\ pc' = IF text.words = <<>> THEN "no token" ELSE "first"
              /\ status' = status
  BY DEF CopyStatement, Strdup, H!Strdup, Return, Goto
<1>4. "statementCpy" \in Pointers \ Held
  BY <1>1 DEF Pointers
<1> HIDE DEF n
<1>5. /\ HP!IInv' /\ H!TypeOK' /\ ptr' \in [Pointers -> Address]
      /\ Owns(Held \union {"statementCpy"}, ptr', grants', before'.live)
      /\ ptr'["statementCpy"] = last'.ptr
      /\ \A q \in Held : ptr'[q] # NULL
      /\ refused' <= before'.refused /\ before'.refused \in Nat
      /\ IF last'.ptr = NULL THEN Owns(Held, ptr', grants', before'.live)
         ELSE H!Rounded(n) < before'.refused
  BY <1>1, <1>2, <1>3, <1>4, AllocStep
<1>6. Typed'
  BY <1>1, <1>3, <1>5 DEF Typed, TypeOK
<1>7. CASE last'.ptr = NULL
  <2>1. Held' = Held
    BY <1>1, <1>3, <1>7 DEF Held, HeldFirst, HeldSecond
  <2>2. Books'
    BY <1>5, <1>7, <2>1 DEF Books
  <2>3. Budget'
    BY <1>3, <1>5, <1>7 DEF Budget
  <2>. QED
    BY <1>5, <1>6, <2>2, <2>3 DEF IInv
<1>8. CASE last'.ptr # NULL
  <2>1. Held' = Held \union {"statementCpy"}
    BY <1>1, <1>3, <1>8 DEF Held, HeldFirst, HeldSecond
  <2>2. Books'
    BY <1>5, <1>8, <2>1 DEF Books
  <2>3. Demand' < before'.refused
    <3>1. CASE level = 1
      <4>1. Demand' = H!Rounded(n)
        BY <1>1, <1>3, <3>1 DEF Demand, n, IInv, Budget
      <4>. QED
        BY <1>5, <1>8, <4>1
    <3>2. CASE level = 2
      <4>1. Demand' = Demand
        BY <1>3 DEF Demand
      <4>2. Demand < before.refused
        BY <1>1, <3>2 DEF IInv, Budget
      <4>. QED
        BY <1>3, <4>1, <4>2
    <3>. QED
      BY <1>1, <3>1, <3>2
  <2>4. Budget'
    BY <1>3, <1>5, <1>8, <2>3 DEF Budget
  <2>. QED
    BY <1>5, <1>6, <2>2, <2>4 DEF IInv
<1>. QED
  BY <1>7, <1>8

LEMMA CopyFirstKeeps ==
    ASSUME IInv, CopyFirst
    PROVE  IInv'
<1> DEFINE n == Length[text.words[1]] + 1
<1>1. /\ pc = "first" /\ level \in {1, 2} /\ text \in Texts /\ line \in Texts
      /\ line.words # <<>> /\ text.words # <<>> /\ status \in {"OK", "ERROR"}
      /\ Demand < before.refused
  BY DEF IInv, Typed, TypeOK, Budget, CopyFirst
<1>2. n \in Nat
  <2>1. text.words[1] \in Words
    BY <1>1 DEF Texts
  <2>. QED
    BY <2>1, CmdParseAssumption
<1>3. /\ H!Malloc("strdup", n)
      /\ ptr' = [ptr EXCEPT ![First] = last'.ptr]
      /\ UNCHANGED <<overrun, line, text, level, before, lines, status>>
      /\ pc' = "second"
  BY DEF CopyFirst, Strdup, H!Strdup, Goto
<1>4. /\ First \in Pointers \ Held
      /\ Held' = Held \union {First}
      /\ Held' \ Unsure' \subseteq Held \ Unsure
  <2>1. CASE level = 1
    BY <1>1, <1>3, <2>1 DEF Pointers, Held, HeldFirst, HeldSecond, Unsure, First, Second
  <2>2. CASE level = 2
    BY <1>1, <1>3, <2>2 DEF Pointers, Held, HeldFirst, HeldSecond, Unsure, First, Second
  <2>. QED
    BY <1>1, <2>1, <2>2
<1> HIDE DEF n
<1>5. /\ HP!IInv' /\ H!TypeOK' /\ ptr' \in [Pointers -> Address]
      /\ Owns(Held \union {First}, ptr', grants', before'.live)
      /\ \A q \in Held \ Unsure : ptr'[q] # NULL
      /\ refused' <= before'.refused /\ before'.refused \in Nat
  BY <1>1, <1>2, <1>3, <1>4, AllocStep
<1>6. Typed'
  BY <1>1, <1>3, <1>5 DEF Typed, TypeOK
<1>7. Books'
  BY <1>4, <1>5 DEF Books
<1>8. Budget'
  <2>1. Demand' = Demand
    BY <1>3 DEF Demand
  <2>. QED
    BY <1>1, <1>3, <1>5, <2>1 DEF Budget
<1>. QED
  BY <1>5, <1>6, <1>7, <1>8 DEF IInv

LEMMA CopySecondKeeps ==
    ASSUME IInv, CopySecond
    PROVE  IInv'
<1> DEFINE n == TextLength(Rest(text)) + 1
<1>1. /\ pc = "second" /\ level \in {1, 2} /\ text \in Texts /\ line \in Texts
      /\ line.words # <<>> /\ text.words # <<>> /\ status \in {"OK", "ERROR"}
      /\ Demand < before.refused
  BY DEF IInv, Typed, TypeOK, Budget, CopySecond
<1>2. n \in Nat
  BY <1>1, RestTyped, TextLengthNat
<1>3. /\ H!Malloc("strdup", n)
      /\ ptr' = [ptr EXCEPT ![Second] = last'.ptr]
      /\ UNCHANGED <<overrun, line, text, level, before, lines, status>>
      /\ pc' = "free copy"
  BY DEF CopySecond, Strdup, H!Strdup, Goto
<1>4. /\ Second \in Pointers \ Held
      /\ Held' = Held \union {Second}
      /\ Held' \ Unsure' \subseteq Held \ Unsure
  <2>1. CASE level = 1
    BY <1>1, <1>3, <2>1 DEF Pointers, Held, HeldFirst, HeldSecond, Unsure, First, Second
  <2>2. CASE level = 2
    BY <1>1, <1>3, <2>2 DEF Pointers, Held, HeldFirst, HeldSecond, Unsure, First, Second
  <2>. QED
    BY <1>1, <2>1, <2>2
<1> HIDE DEF n
<1>5. /\ HP!IInv' /\ H!TypeOK' /\ ptr' \in [Pointers -> Address]
      /\ Owns(Held \union {Second}, ptr', grants', before'.live)
      /\ \A q \in Held \ Unsure : ptr'[q] # NULL
      /\ refused' <= before'.refused /\ before'.refused \in Nat
  BY <1>1, <1>2, <1>3, <1>4, AllocStep
<1>6. Typed'
  BY <1>1, <1>3, <1>5 DEF Typed, TypeOK
<1>7. Books'
  BY <1>4, <1>5 DEF Books
<1>8. Budget'
  <2>1. Demand' = Demand
    BY <1>3 DEF Demand
  <2>. QED
    BY <1>1, <1>3, <1>5, <2>1 DEF Budget
<1>. QED
  BY <1>5, <1>6, <1>7, <1>8 DEF IInv

LEMMA NoTokenKeeps ==
    ASSUME IInv, NoToken
    PROVE  IInv'
<1>1. /\ pc = "no token" /\ level \in {1, 2} /\ text \in Texts /\ line \in Texts
      /\ line.words # <<>> /\ status \in {"OK", "ERROR"}
      /\ Demand < before.refused
  BY DEF IInv, Typed, TypeOK, Budget, NoToken
<1>2. /\ Kfree("statementCpy") /\ UNCHANGED <<line, text, level, before, lines>>
      /\ pc' = "prompt" /\ status' = "ERROR"
  BY DEF NoToken, Return, Goto
<1>3. /\ "statementCpy" \in Held
      /\ pc' # "gone" => /\ Held' = Held \ {"statementCpy"}
                         /\ Held' \ Unsure' \subseteq Held \ Unsure
  <2>1. CASE level = 1
    BY <1>1, <1>2, <2>1 DEF Held, HeldFirst, HeldSecond, Unsure, First, Second
  <2>2. CASE level = 2
    BY <1>1, <1>2, <2>2 DEF Held, HeldFirst, HeldSecond, Unsure, First, Second
  <2>. QED
    BY <1>1, <2>1, <2>2
<1>4. /\ HP!IInv' /\ H!TypeOK' /\ ptr' \in [Pointers -> Address]
      /\ Owns(Held \ {"statementCpy"}, ptr', grants', before'.live)
      /\ \A q \in Held \ Unsure : ptr'[q] # NULL
      /\ refused' <= before'.refused /\ before'.refused \in Nat
  BY <1>1, <1>2, <1>3, FreeStep
<1>5. Typed'
  BY <1>1, <1>2, <1>4 DEF Typed, TypeOK
<1>6. Books'
  BY <1>3, <1>4 DEF Books
<1>7. Budget'
  <2>1. Demand' = Demand
    BY <1>2 DEF Demand
  <2>. QED
    BY <1>1, <1>2, <1>4, <2>1 DEF Budget
<1>. QED
  BY <1>4, <1>5, <1>6, <1>7 DEF IInv

LEMMA UndoSecondKeeps ==
    ASSUME IInv, UndoSecond
    PROVE  IInv'
<1>1. /\ pc = "undo second" /\ level \in {1, 2} /\ text \in Texts /\ line \in Texts
      /\ line.words # <<>> /\ status \in {"OK", "ERROR"}
      /\ Demand < before.refused
  BY DEF IInv, Typed, TypeOK, Budget, UndoSecond
<1>2. /\ Kfree(Second) /\ UNCHANGED <<line, text, level, before, lines>>
      /\ pc' = "undo first" /\ status' = status
  BY DEF UndoSecond, Return, Goto
<1>3. /\ Second \in Held
      /\ pc' # "gone" => /\ Held' = Held \ {Second}
                         /\ Held' \ Unsure' \subseteq Held \ Unsure
  <2>1. CASE level = 1
    BY <1>1, <1>2, <2>1 DEF Held, HeldFirst, HeldSecond, Unsure, First, Second
  <2>2. CASE level = 2
    BY <1>1, <1>2, <2>2 DEF Held, HeldFirst, HeldSecond, Unsure, First, Second
  <2>. QED
    BY <1>1, <2>1, <2>2
<1>4. /\ HP!IInv' /\ H!TypeOK' /\ ptr' \in [Pointers -> Address]
      /\ Owns(Held \ {Second}, ptr', grants', before'.live)
      /\ \A q \in Held \ Unsure : ptr'[q] # NULL
      /\ refused' <= before'.refused /\ before'.refused \in Nat
  BY <1>1, <1>2, <1>3, FreeStep
<1>5. Typed'
  BY <1>1, <1>2, <1>4 DEF Typed, TypeOK
<1>6. Books'
  BY <1>3, <1>4 DEF Books
<1>7. Budget'
  <2>1. Demand' = Demand
    BY <1>2 DEF Demand
  <2>. QED
    BY <1>1, <1>2, <1>4, <2>1 DEF Budget
<1>. QED
  BY <1>4, <1>5, <1>6, <1>7 DEF IInv

LEMMA UndoFirstKeeps ==
    ASSUME IInv, UndoFirst
    PROVE  IInv'
<1>1. /\ pc = "undo first" /\ level \in {1, 2} /\ text \in Texts /\ line \in Texts
      /\ line.words # <<>> /\ status \in {"OK", "ERROR"}
      /\ Demand < before.refused
  BY DEF IInv, Typed, TypeOK, Budget, UndoFirst
<1>2. /\ Kfree(First) /\ UNCHANGED <<line, text, level, before, lines>>
      /\ pc' = "prompt" /\ status' = "ERROR"
  BY DEF UndoFirst, Return, Goto
<1>3. /\ First \in Held
      /\ pc' # "gone" => /\ Held' = Held \ {First}
                         /\ Held' \ Unsure' \subseteq Held \ Unsure
  <2>1. CASE level = 1
    BY <1>1, <1>2, <2>1 DEF Held, HeldFirst, HeldSecond, Unsure, First, Second
  <2>2. CASE level = 2
    BY <1>1, <1>2, <2>2 DEF Held, HeldFirst, HeldSecond, Unsure, First, Second
  <2>. QED
    BY <1>1, <2>1, <2>2
<1>4. /\ HP!IInv' /\ H!TypeOK' /\ ptr' \in [Pointers -> Address]
      /\ Owns(Held \ {First}, ptr', grants', before'.live)
      /\ \A q \in Held \ Unsure : ptr'[q] # NULL
      /\ refused' <= before'.refused /\ before'.refused \in Nat
  BY <1>1, <1>2, <1>3, FreeStep
<1>5. Typed'
  BY <1>1, <1>2, <1>4 DEF Typed, TypeOK
<1>6. Books'
  BY <1>3, <1>4 DEF Books
<1>7. Budget'
  <2>1. Demand' = Demand
    BY <1>2 DEF Demand
  <2>. QED
    BY <1>1, <1>2, <1>4, <2>1 DEF Budget
<1>. QED
  BY <1>4, <1>5, <1>6, <1>7 DEF IInv

LEMMA FreeNameKeeps ==
    ASSUME IInv, FreeName
    PROVE  IInv'
<1>1. /\ pc = "free name" /\ level \in {1, 2} /\ text \in Texts /\ line \in Texts
      /\ line.words # <<>> /\ status \in {"OK", "ERROR"}
      /\ Demand < before.refused
  BY DEF IInv, Typed, TypeOK, Budget, FreeName
<1>2. /\ Kfree("tmpSymbolName") /\ UNCHANGED <<line, text, level, before, lines>>
      /\ pc' \in {"call", "gone"} /\ status' = status
  BY DEF FreeName, Return, Goto
<1>3. /\ "tmpSymbolName" \in Held
      /\ pc' # "gone" => /\ Held' = Held \ {"tmpSymbolName"}
                         /\ Held' \ Unsure' \subseteq Held \ Unsure
  <2>1. CASE level = 1
    BY <1>1, <1>2, <2>1 DEF Held, HeldFirst, HeldSecond, Unsure, First, Second
  <2>2. CASE level = 2
    BY <1>1, <1>2, <2>2 DEF Held, HeldFirst, HeldSecond, Unsure, First, Second
  <2>. QED
    BY <1>1, <2>1, <2>2
<1>4. /\ HP!IInv' /\ H!TypeOK' /\ ptr' \in [Pointers -> Address]
      /\ Owns(Held \ {"tmpSymbolName"}, ptr', grants', before'.live)
      /\ \A q \in Held \ Unsure : ptr'[q] # NULL
      /\ refused' <= before'.refused /\ before'.refused \in Nat
  BY <1>1, <1>2, <1>3, FreeStep
<1>5. Typed'
  BY <1>1, <1>2, <1>4 DEF Typed, TypeOK
<1>6. Books'
  BY <1>3, <1>4 DEF Books
<1>7. Budget'
  <2>1. Demand' = Demand
    BY <1>2 DEF Demand
  <2>. QED
    BY <1>1, <1>2, <1>4, <2>1 DEF Budget
<1>. QED
  BY <1>4, <1>5, <1>6, <1>7 DEF IInv

LEMMA FreeCommandKeeps ==
    ASSUME IInv, FreeCommand
    PROVE  IInv'
<1>1. /\ pc = "free command" /\ level \in {1, 2} /\ text \in Texts /\ line \in Texts
      /\ line.words # <<>> /\ status \in {"OK", "ERROR"}
      /\ Demand < before.refused
  BY DEF IInv, Typed, TypeOK, Budget, FreeCommand
<1>2. /\ Kfree("command") /\ UNCHANGED <<line, text, level, before, lines>>
      /\ pc' = "free argument" /\ status' = status
  BY DEF FreeCommand, Return, Goto
<1>3. /\ "command" \in Held
      /\ pc' # "gone" => /\ Held' = Held \ {"command"}
                         /\ Held' \ Unsure' \subseteq Held \ Unsure
  <2>1. CASE level = 1
    BY <1>1, <1>2, <2>1 DEF Held, HeldFirst, HeldSecond, Unsure, First, Second
  <2>2. CASE level = 2
    BY <1>1, <1>2, <2>2 DEF Held, HeldFirst, HeldSecond, Unsure, First, Second
  <2>. QED
    BY <1>1, <2>1, <2>2
<1>4. /\ HP!IInv' /\ H!TypeOK' /\ ptr' \in [Pointers -> Address]
      /\ Owns(Held \ {"command"}, ptr', grants', before'.live)
      /\ \A q \in Held \ Unsure : ptr'[q] # NULL
      /\ refused' <= before'.refused /\ before'.refused \in Nat
  BY <1>1, <1>2, <1>3, FreeStep
<1>5. Typed'
  BY <1>1, <1>2, <1>4 DEF Typed, TypeOK
<1>6. Books'
  BY <1>3, <1>4 DEF Books
<1>7. Budget'
  <2>1. Demand' = Demand
    BY <1>2 DEF Demand
  <2>. QED
    BY <1>1, <1>2, <1>4, <2>1 DEF Budget
<1>. QED
  BY <1>4, <1>5, <1>6, <1>7 DEF IInv

LEMMA FreeArgumentKeeps ==
    ASSUME IInv, FreeArgument
    PROVE  IInv'
<1>1. /\ pc = "free argument" /\ level \in {1, 2} /\ text \in Texts /\ line \in Texts
      /\ line.words # <<>> /\ status \in {"OK", "ERROR"}
      /\ Demand < before.refused
  BY DEF IInv, Typed, TypeOK, Budget, FreeArgument
<1>2. /\ Kfree("argument") /\ UNCHANGED <<line, text, level, before, lines>>
      /\ pc' = "prompt" /\ status' = "OK"
  BY DEF FreeArgument, Return, Goto
<1>3. /\ "argument" \in Held
      /\ pc' # "gone" => /\ Held' = Held \ {"argument"}
                         /\ Held' \ Unsure' \subseteq Held \ Unsure
  <2>1. CASE level = 1
    BY <1>1, <1>2, <2>1 DEF Held, HeldFirst, HeldSecond, Unsure, First, Second
  <2>2. CASE level = 2
    BY <1>1, <1>2, <2>2 DEF Held, HeldFirst, HeldSecond, Unsure, First, Second
  <2>. QED
    BY <1>1, <2>1, <2>2
<1>4. /\ HP!IInv' /\ H!TypeOK' /\ ptr' \in [Pointers -> Address]
      /\ Owns(Held \ {"argument"}, ptr', grants', before'.live)
      /\ \A q \in Held \ Unsure : ptr'[q] # NULL
      /\ refused' <= before'.refused /\ before'.refused \in Nat
  BY <1>1, <1>2, <1>3, FreeStep
<1>5. Typed'
  BY <1>1, <1>2, <1>4 DEF Typed, TypeOK
<1>6. Books'
  BY <1>3, <1>4 DEF Books
<1>7. Budget'
  <2>1. Demand' = Demand
    BY <1>2 DEF Demand
  <2>. QED
    BY <1>1, <1>2, <1>4, <2>1 DEF Budget
<1>. QED
  BY <1>4, <1>5, <1>6, <1>7 DEF IInv

LEMMA FreeCopyKeeps ==
    ASSUME IInv, FreeCopy
    PROVE  IInv'
<1>1. /\ pc = "free copy" /\ level \in {1, 2} /\ text \in Texts /\ line \in Texts
      /\ line.words # <<>> /\ status \in {"OK", "ERROR"}
      /\ Demand < before.refused
  BY DEF IInv, Typed, TypeOK, Budget, FreeCopy
<1>2. /\ Kfree("statementCpy") /\ UNCHANGED <<line, text, level, before, lines, status>>
      /\ \/ pc' = "undo second"
         \/ /\ NULL \notin {ptr[First], ptr[Second]}
            /\ pc' = IF level = 1 THEN "argument" ELSE "arguments"
  BY DEF FreeCopy, Goto
<1>3. /\ "statementCpy" \in Held
      /\ Held' = Held \ {"statementCpy"}
      /\ Unsure = {First, Second}
      /\ Unsure' = IF pc' = "undo second" THEN Unsure ELSE {}
  <2>1. CASE level = 1
    BY <1>1, <1>2, <2>1 DEF Held, HeldFirst, HeldSecond, Unsure, First, Second
  <2>2. CASE level = 2
    BY <1>1, <1>2, <2>2 DEF Held, HeldFirst, HeldSecond, Unsure, First, Second
  <2>. QED
    BY <1>1, <2>1, <2>2
<1>4. /\ HP!IInv' /\ H!TypeOK' /\ ptr' = ptr /\ ptr' \in [Pointers -> Address]
      /\ Owns(Held \ {"statementCpy"}, ptr', grants', before'.live)
      /\ \A q \in Held \ Unsure : ptr'[q] # NULL
      /\ refused' <= before'.refused /\ before'.refused \in Nat
  BY <1>1, <1>2, <1>3, FreeStep
<1>5. Typed'
  BY <1>1, <1>2, <1>4 DEF Typed, TypeOK
<1>6. Books'
  <2>1. \A q \in Held' \ Unsure' : ptr'[q] # NULL
    BY <1>2, <1>3, <1>4
  <2>. QED
    BY <1>3, <1>4, <2>1 DEF Books
<1>7. Budget'
  <2>1. Demand' = Demand
    BY <1>2 DEF Demand
  <2>. QED
    BY <1>1, <1>2, <1>4, <2>1 DEF Budget
<1>. QED
  BY <1>4, <1>5, <1>6, <1>7 DEF IInv

LEMMA ReadKeeps ==
    ASSUME IInv, ReadArgument \/ ReadArguments
    PROVE  IInv'
<1>1. /\ pc \in {"argument", "arguments"} /\ level \in {1, 2} /\ text \in Texts
      /\ pc = "argument" => level = 1
      /\ line.words # <<>> /\ status \in {"OK", "ERROR"} /\ Demand < before.refused
  BY DEF IInv, Typed, TypeOK, Budget, ReadArgument, ReadArguments
<1>2. /\ UNCHANGED <<heap, ptr, line, before, lines, status>>
      /\ \/ level = 1 /\ pc' = "copy" /\ level' = 2 /\ text' = Rest(text)
         \/ pc' \in {"arguments", "lookup", "gone"} /\ UNCHANGED <<level, text>>
  <2>1. CASE ReadArgument
    BY <1>1, <2>1 DEF ReadArgument, Goto
  <2>2. CASE ReadArguments
    BY <2>2 DEF ReadArguments, Goto
  <2>. QED
    BY <2>1, <2>2
<1>3. HP!IInv' /\ H!TypeOK'
  BY <1>2, HeapUnchanged, HeapFactsNext DEF IInv
<1>4. text' \in Texts
  BY <1>1, <1>2, RestTyped
<1>5. Typed'
  <2>1. ptr' \in [Pointers -> Address] /\ line' \in Texts /\ level' \in {1, 2}
    BY <1>1, <1>2 DEF IInv, Typed, TypeOK
  <2>2. /\ pc' \in {"copy", "arguments", "lookup", "gone"}
        /\ status' \in {"OK", "ERROR"} /\ line'.words # <<>>
    BY <1>1, <1>2
  <2>. QED
    BY <1>3, <1>4, <2>1, <2>2 DEF Typed, TypeOK
<1>6. pc' # "gone" => Held' = Held /\ Unsure' = {} /\ Unsure = {}
  <2>1. Unsure = {} /\ Unsure' = {}
    BY <1>1, <1>2 DEF Unsure
  <2>2. ASSUME pc' # "gone" PROVE Held' = Held
    <3>1. /\ pc \in {"argument", "arguments"} => HeldFirst = {"command", "argument"}
          /\ pc \in {"argument", "arguments"} =>
               HeldSecond = {"command", "argument", "argument1", "argument2"}
      BY ONLY DEF HeldFirst, HeldSecond
    <3>2. /\ pc' \in {"arguments", "lookup"} => HeldFirst' = {"command", "argument"}
          /\ pc' \in {"arguments", "lookup"} =>
               HeldSecond' = {"command", "argument", "argument1", "argument2"}
          /\ pc' = "copy" => HeldSecond' = {"command", "argument"}
      BY ONLY DEF HeldFirst, HeldSecond
    <3>3. CASE level = 1 /\ pc' = "copy" /\ level' = 2
      <4>1. Held = HeldFirst /\ Held' = HeldSecond'
        BY <3>3 DEF Held
      <4>. QED
        BY <1>1, <3>1, <3>2, <3>3, <4>1
    <3>4. CASE pc' \in {"arguments", "lookup"} /\ level' = level
      BY <1>1, <3>1, <3>2, <3>4 DEF Held
    <3>. QED
      BY <1>2, <2>2, <3>3, <3>4
  <2>. QED
    BY <2>1, <2>2
<1>7. Books'
  BY <1>1, <1>2, <1>6 DEF IInv, Books, heap
<1>8. Budget'
  <2>1. Demand' = Demand
    BY <1>2 DEF Demand
  <2>. QED
    BY <1>1, <1>2, <2>1 DEF IInv, Budget, heap
<1>. QED
  BY <1>3, <1>5, <1>7, <1>8 DEF IInv

LEMMA LookupKeeps ==
    ASSUME IInv, Lookup
    PROVE  IInv'
<1> DEFINE n == Length[line.words[1]] + 2
<1>1. /\ pc = "lookup" /\ level \in {1, 2} /\ text \in Texts /\ line \in Texts
      /\ line.words # <<>> /\ status \in {"OK", "ERROR"} /\ H!TypeOK
      /\ ptr \in [Pointers -> Address] /\ Demand < before.refused
      /\ Owns(Held, ptr, grants, before.live)
      /\ \A p \in Held \ Unsure : ptr[p] # NULL
      /\ before.refused \in Nat /\ refused <= before.refused
  BY DEF IInv, Typed, TypeOK, Budget, Books, Lookup
<1>2. n \in Nat
  <2>1. line.words[1] \in Words
    BY <1>1 DEF Texts
  <2>. QED
    BY <2>1, CmdParseAssumption
<1>3. /\ UNCHANGED <<line, text, level, before, lines, status>>
      /\ \/ pc' = "call" /\ UNCHANGED <<heap, ptr>>
         \/ /\ H!Malloc("kmalloc", n) /\ UNCHANGED overrun
            /\ ptr' = [ptr EXCEPT !["tmpSymbolName"] = last'.ptr]
            /\ pc' = IF last'.ptr = NULL THEN "gone" ELSE "free name"
  BY DEF Lookup, H!Kmalloc, Goto
<1> HIDE DEF n
<1>4. Demand' = Demand
  BY <1>3 DEF Demand
<1>5. CASE pc' = "call" /\ UNCHANGED <<heap, ptr>>
  <2>1. HP!IInv' /\ H!TypeOK'
    BY <1>5, HeapUnchanged, HeapFactsNext DEF IInv
  <2>2. Typed'
    BY <1>1, <1>3, <1>5, <2>1 DEF Typed, TypeOK
  <2>3. Held' = Held /\ Unsure' = Unsure
    BY <1>1, <1>3, <1>5 DEF Held, HeldFirst, HeldSecond, Unsure
  <2>4. Books'
    BY <1>1, <1>3, <1>5, <2>3 DEF Books, heap
  <2>5. Budget'
    BY <1>1, <1>3, <1>4, <1>5 DEF Budget, heap
  <2>. QED
    BY <2>1, <2>2, <2>4, <2>5 DEF IInv
<1>6. CASE /\ H!Malloc("kmalloc", n) /\ UNCHANGED overrun
           /\ ptr' = [ptr EXCEPT !["tmpSymbolName"] = last'.ptr]
           /\ pc' = IF last'.ptr = NULL THEN "gone" ELSE "free name"
  <2>1. "tmpSymbolName" \in Pointers \ Held
    BY <1>1 DEF Pointers, Held, HeldFirst, HeldSecond
  <2>2. /\ HP!IInv' /\ H!TypeOK' /\ ptr' \in [Pointers -> Address]
        /\ Owns(Held \union {"tmpSymbolName"}, ptr', grants', before'.live)
        /\ ptr'["tmpSymbolName"] = last'.ptr
        /\ \A q \in Held \ Unsure : ptr'[q] # NULL
        /\ refused' <= before'.refused /\ before'.refused \in Nat
    BY <1>1, <1>2, <1>3, <1>6, <2>1, AllocStep
  <2>3. Typed'
    BY <1>1, <1>3, <1>6, <2>2 DEF Typed, TypeOK
  <2>4. pc' # "gone" => /\ Held' = Held \union {"tmpSymbolName"} /\ Unsure' = Unsure
                        /\ ptr'["tmpSymbolName"] # NULL
    BY <1>1, <1>3, <1>6, <2>2 DEF Held, HeldFirst, HeldSecond, Unsure
  <2>5. Books'
    BY <2>2, <2>4 DEF Books
  <2>6. Budget'
    BY <1>1, <1>3, <1>4, <1>6, <2>2 DEF Budget
  <2>. QED
    BY <2>2, <2>3, <2>5, <2>6 DEF IInv
<1>. QED
  BY <1>3, <1>5, <1>6

LEMMA CallKeeps ==
    ASSUME IInv, Call
    PROVE  IInv'
<1>1. /\ pc = "call" /\ pc' \in {"free command", "gone"}
      /\ UNCHANGED <<heap, ptr, line, text, level, before, lines, status>>
  BY DEF Call, Goto
<1>2. HP!IInv' /\ H!TypeOK'
  BY <1>1, HeapUnchanged, HeapFactsNext DEF IInv
<1>3. Typed'
  BY <1>1, <1>2 DEF IInv, Typed, TypeOK
<1>4. pc' # "gone" => Held' = Held /\ Unsure' = Unsure
  BY <1>1 DEF Held, HeldFirst, HeldSecond, Unsure
<1>5. Books'
  BY <1>1, <1>4 DEF IInv, Books, heap
<1>6. Budget'
  <2>1. Demand' = Demand
    BY <1>1 DEF Demand
  <2>. QED
    BY <1>1, <2>1 DEF IInv, Budget, heap
<1>. QED
  BY <1>2, <1>3, <1>5, <1>6 DEF IInv

LEMMA NextIInv == IInv /\ [Next]_vars => IInv'
<1> SUFFICES ASSUME IInv, [Next]_vars PROVE IInv'
  OBVIOUS
<1>1. CASE UNCHANGED vars
  <2>1. HP!IInv'
    BY <1>1, HeapUnchanged DEF IInv, vars, heap
  <2>2. Typed'
    BY <1>1, <2>1, HeapFactsNext DEF IInv, vars, Typed, TypeOK
  <2>3. Held' = Held
    BY <1>1 DEF vars, Held, HeldFirst, HeldSecond
  <2>4. Unsure' = Unsure
    BY <1>1 DEF vars, Unsure, First, Second
  <2>5. Books'
    BY <1>1, <2>3, <2>4 DEF IInv, vars, Books
  <2>6. Demand' = Demand
    BY <1>1 DEF vars, Demand
  <2>7. Budget'
    BY <1>1, <2>6 DEF IInv, vars, Budget
  <2>. QED
    BY <2>1, <2>2, <2>5, <2>7 DEF IInv
<1>2. CASE Next
  BY <1>2, PromptKeeps, CopyStatementKeeps, NoTokenKeeps, CopyFirstKeeps, CopySecondKeeps,
     FreeCopyKeeps, UndoSecondKeeps, UndoFirstKeeps, ReadKeeps, LookupKeeps, FreeNameKeeps,
     CallKeeps, FreeCommandKeeps, FreeArgumentKeeps DEF Next
<1>. QED
  BY <1>1, <1>2

(***************************************************************************)
(* The strings of a first call are other than the two arguments.           *)
(***************************************************************************)
LEMMA UnassignedStays == IInv /\ Unassigned /\ [Next]_vars => Unassigned'
<1> SUFFICES ASSUME IInv, Unassigned, [Next]_vars, level' = 1
             PROVE  ptr'["argument1"] = Unset /\ ptr'["argument2"] = Unset
  BY DEF Unassigned
<1>1. ptr \in [Pointers -> Address] /\ level \in {1, 2}
  BY DEF IInv, Typed, TypeOK
<1>2. CASE \E t \in Lines : Prompt(t)
  BY <1>2 DEF Prompt, Pointers
<1>3. ASSUME level = 1,
             \/ ptr' = ptr
             \/ \E p \in {"statementCpy", "command", "argument", "tmpSymbolName"} :
                   ptr' = [ptr EXCEPT ![p] = last'.ptr]
      PROVE  ptr'["argument1"] = Unset /\ ptr'["argument2"] = Unset
  BY <1>1, <1>3 DEF Unassigned, Pointers
<1>4. CASE CopyStatement \/ CopyFirst \/ CopySecond \/ Lookup
  <2>1. level = 1 /\ First = "command" /\ Second = "argument"
    BY <1>4 DEF CopyStatement, CopyFirst, CopySecond, Lookup, First, Second
  <2>. QED
    BY <1>3, <1>4, <2>1 DEF CopyStatement, CopyFirst, CopySecond, Lookup, Strdup
<1>5. CASE \/ NoToken \/ FreeCopy \/ UndoSecond \/ UndoFirst \/ ReadArgument
           \/ ReadArguments \/ FreeName \/ Call \/ FreeCommand \/ FreeArgument
           \/ UNCHANGED vars
  <2>1. ptr' = ptr /\ level = 1
    BY <1>1, <1>5 DEF NoToken, FreeCopy, UndoSecond, UndoFirst, ReadArgument, ReadArguments,
       FreeName, Call, FreeCommand, FreeArgument, Kfree, vars
  <2>. QED
    BY <1>3, <2>1
<1>. QED
  BY <1>2, <1>4, <1>5 DEF Next

(***************************************************************************)
(* The invariant holds in every state of the shell.                        *)
(***************************************************************************)
THEOREM ShellInvariant == Spec => []IInv
  BY InitIInv, NextIInv, PTL DEF Spec

(***************************************************************************)
(* The pointers are addresses, the texts are texts, and a statement that   *)
(* copies a word has one.                                                  *)
(***************************************************************************)
THEOREM ShellTypeOK == Spec => []TypeOK
<1>1. IInv => TypeOK
  BY DEF IInv, Typed
<1>. QED
  BY <1>1, ShellInvariant, PTL

(***************************************************************************)
(* Whatever allocation of a line fails, what is read is a string that is   *)
(* held, a failed copy that is printed, or the two arguments of a line     *)
(* without any, which are always unassigned; nothing is given back twice.  *)
(***************************************************************************)
THEOREM ShellPointersLive == Spec => []PointersLive
<1>1. IInv /\ Unassigned => PointersLive
  <2> SUFFICES ASSUME IInv, Unassigned, pc # "gone" PROVE PointersLive
    BY DEF PointersLive, Read, Freed
  <2>1. /\ level \in {1, 2} /\ Owns(Held, ptr, grants, before.live)
        /\ \A p \in Held \ Unsure : ptr[p] # NULL
        /\ pc = "argument" => level = 1
    BY DEF IInv, Typed, TypeOK, Books
  <2>2. \A p \in Held : Live(p) \/ ptr[p] = NULL
    BY <2>1 DEF Owns, Live
  <2>3. ASSUME NEW p \in Read, p \in {"argument1", "argument2"}, level = 1
        PROVE  ptr[p] = Unset
    BY <2>3 DEF Unassigned
  <2>4. ASSUME NEW p \in Read, ~(p \in {"argument1", "argument2"} /\ level = 1)
        PROVE  Live(p) \/ (pc = "free copy" /\ ptr[p] = NULL)
    <3>1. p \in Held
      <4>1. CASE pc \in {"argument", "arguments"}
        BY <2>1, <2>4, <4>1 DEF Read, Held, HeldFirst, HeldSecond
      <4>2. CASE pc = "free copy"
        <5>1. CASE level = 1
          BY <2>4, <4>2, <5>1 DEF Read, Held, HeldFirst, First, Second
        <5>2. CASE level # 1
          <6>1. Held = {"command", "argument", "statementCpy", "argument1", "argument2"}
            BY <4>2, <5>2 DEF Held, HeldSecond
          <6>2. Read = {"argument1", "argument2"}
            BY <4>2, <5>2 DEF Read, First, Second
          <6>. QED
            BY <2>4, <6>1, <6>2
        <5>. QED
          BY <5>1, <5>2
      <4>3. CASE pc \in {"first", "second"}
        BY <2>4, <4>3 DEF Read, Held, HeldFirst, HeldSecond
      <4>4. CASE pc \in {"lookup", "free name", "call"}
        BY <2>4, <4>4 DEF Read, Held, HeldFirst, HeldSecond
      <4>5. CASE pc = "copy"
        BY <2>4, <4>5 DEF Read, Held, HeldSecond
      <4>. QED
        BY <4>1, <4>2, <4>3, <4>4, <4>5 DEF Read
    <3>2. CASE pc = "free copy"
      BY <2>2, <3>1, <3>2
    <3>3. CASE pc # "free copy"
      <4>1. p \notin Unsure
        BY <2>4, <3>3 DEF Read, Unsure, First, Second
      <4>. QED
        BY <2>1, <2>2, <3>1, <4>1
    <3>. QED
      BY <3>2, <3>3
  <2>5. Freed \subseteq Held
    <3>1. CASE level = 1
      BY <3>1 DEF Freed, Held, HeldFirst, HeldSecond, First, Second
    <3>2. CASE level = 2
      BY <3>2 DEF Freed, Held, HeldFirst, HeldSecond, First, Second
    <3>. QED
      BY <2>1, <3>1, <3>2
  <2>. QED
    BY <2>2, <2>3, <2>4, <2>5 DEF PointersLive
<1>2. Init => Unassigned
  BY DEF Init, Unassigned, Pointers
<1>. QED
  BY <1>1, <1>2, InitIInv, NextIInv, UnassignedStays, PTL DEF Spec

(***************************************************************************)
(* What a line leaves behind on the heap is its two arguments, or the two  *)
(* halves of it that could not be split further, or nothing.               *)
(***************************************************************************)
THEOREM ShellLeakPerLine == Spec => []LeakPerLine
<1>1. IInv => LeakPerLine
  <2> SUFFICES ASSUME IInv, pc = "prompt" PROVE LeakPerLine
    BY DEF LeakPerLine
  <2>1. /\ level \in {1, 2} /\ Owns(Held, ptr, grants, before.live)
        /\ \A p \in Held : ptr[p] # NULL
    BY DEF IInv, Typed, TypeOK, Books, Unsure
  <2>2. {g.ptr : g \in grants \ before.live} = {ptr[p] : p \in Held}
    BY <2>1 DEF Owns
  <2>3. Held = IF level = 1 THEN {}
               ELSE IF status = "OK" THEN {"argument1", "argument2"}
               ELSE {"command", "argument"}
    BY DEF Held, HeldFirst, HeldSecond
  <2>. QED
    BY <2>2, <2>3 DEF LeakPerLine
<1>. QED
  BY <1>1, ShellInvariant, PTL

(***************************************************************************)
(* A line whose function is called had its first string granted, and so    *)
(* needs less than anything that was refused before the line.              *)
(***************************************************************************)
THEOREM ShellOutOfMemoryIsFinal == Spec => []OutOfMemoryIsFinal
<1>1. IInv => OutOfMemoryIsFinal
  BY DEF IInv, Budget, Demand, OutOfMemoryIsFinal
<1>. QED
  BY <1>1, ShellInvariant, PTL
=============================================================================
