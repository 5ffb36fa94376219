------------------------------ MODULE SllProofs ------------------------------
(***************************************************************************)
(* The lists of sllLib.c for any number of heads and nodes: what is linked *)
(* from a head is a sequence of nodes that ends at the tail, no node is    *)
(* linked twice, and each operation does to the sequence what SeqLists     *)
(* says.                                                                   *)
(***************************************************************************)
EXTENDS Sll, FiniteSetTheorems, SequenceTheorems, TLAPS

(***************************************************************************)
(* The sequence s hangs from the head h and ends at the tail t.            *)
(***************************************************************************)
Linked(s, h, t, nx) ==
    /\ h = IF s = <<>> THEN NULL ELSE s[1]
    /\ t = IF s = <<>> THEN NULL ELSE s[Len(s)]
    /\ \A i \in 1 .. Len(s) : nx[s[i]] = IF i < Len(s) THEN s[i + 1] ELSE NULL

\* Every list hangs from its head, and no node is at two places.
Apart(c) ==
    \A l, m \in Lists : \A i \in 1 .. Len(c[l]), j \in 1 .. Len(c[m]) :
        c[l][i] = c[m][j] => l = m /\ i = j

Hang(c, h, t, nx) ==
    /\ c \in [Lists -> Seq(Nodes)]
    /\ \A l \in Lists : Linked(c[l], h[l], t[l], nx)
    /\ Apart(c)

IInv == TypeOK /\ \E c : Hang(c, head, tail, next)

------------------------------------------------------------------------------
(***************************************************************************)
(* What Walk and Chain compute, as operators of the pointers, so that they *)
(* can be taken before and after a step.                                   *)
(***************************************************************************)
WalkFrom(h, nx) ==
    LET at[k \in 0 .. MaxWalk] ==
            IF k = 0 THEN h
            ELSE LET p == at[k - 1] IN IF p = NULL THEN NULL ELSE nx[p]
    IN at

ChainFrom(h, nx) ==
    LET at == WalkFrom(h, nx)
        len == Cardinality({k \in 0 .. MaxWalk : at[k] # NULL})
    IN [k \in 1 .. len |-> at[k - 1]]

LEMMA ChainIsFrom ==
    ASSUME NEW l \in Lists
    PROVE  /\ Walk(l) = WalkFrom(head[l], next)
           /\ Chain(l) = ChainFrom(head[l], next)
           /\ Chain(l)' = ChainFrom(head'[l], next')
  BY DEF Walk, WalkFrom, Chain, ChainFrom

\* The smallest of a set of naturals.
LEMMA LeastCase ==
    ASSUME NEW S \in SUBSET Nat, S # {}
    PROVE  \E n \in S : \A m \in S : n <= m
<1> DEFINE R == {ss \in Nat \X Nat : ss[1] < ss[2]}
<1>0. IsWellFoundedOn(R, Nat)
  BY NatLessThanWellFounded DEF OpToRel
<1>1. PICK x \in S : \A y \in S : <<y, x>> \notin R
  <2> HIDE DEF R
  <2>. QED
    BY <1>0, WFMin
<1>2. \A y \in S : x <= y
  <2> SUFFICES ASSUME NEW y \in S, y < x PROVE FALSE
    OBVIOUS
  <2>1. <<y, x>> \in Nat \X Nat /\ <<y, x>>[1] = y /\ <<y, x>>[2] = x
    OBVIOUS
  <2>2. <<y, x>> \in R
    BY <2>1
  <2>. QED
    BY <1>1, <2>2
<1>. QED
  BY <1>2

\* A sequence without repetition is no longer than its set is large.
LEMMA NoLonger ==
    ASSUME NEW s \in Seq(Nodes), \A i, j \in 1 .. Len(s) : s[i] = s[j] => i = j
    PROVE  MaxWalk \in Nat /\ Len(s) <= MaxWalk
<1>1. IsFiniteSet(Nodes)
  BY SllAssumption
<1>2. s \in Injection(1 .. Len(s), Nodes)
  BY DEF Injection, IsInjective
<1>3. Cardinality(1 .. Len(s)) = Len(s)
  BY FS_Interval
<1>. QED
  BY <1>1, <1>2, <1>3, FS_Injection, FS_CardinalityType DEF MaxWalk

(***************************************************************************)
(* The walk meets the nodes of the sequence one by one, and then NULL.     *)
(***************************************************************************)
LEMMA WalkMeets ==
    ASSUME NEW s \in Seq(Nodes), NEW h, NEW t, NEW nx,
           Linked(s, h, t, nx),
           \A i, j \in 1 .. Len(s) : s[i] = s[j] => i = j
    PROVE  WalkFrom(h, nx) = [k \in 0 .. MaxWalk |-> IF k < Len(s) THEN s[k + 1] ELSE NULL]
<1> DEFINE Eq(f) == f = [k \in 0 .. MaxWalk |->
                            IF k = 0 THEN h
                            ELSE LET p == f[k - 1] IN IF p = NULL THEN NULL ELSE nx[p]]
           at == CHOOSE f : Eq(f)
           met == [k \in 0 .. MaxWalk |-> IF k < Len(s) THEN s[k + 1] ELSE NULL]
<1>1. MaxWalk \in Nat /\ Len(s) \in Nat /\ Len(s) <= MaxWalk
  BY NoLonger
<1>2. \A i \in 1 .. Len(s) : s[i] \in Nodes /\ s[i] # NULL
  BY SllAssumption
<1>3. \A k \in 0 .. MaxWalk :
         met[k] = IF k = 0 THEN h
                  ELSE IF met[k - 1] = NULL THEN NULL ELSE nx[met[k - 1]]
  <2>1. TAKE k \in 0 .. MaxWalk
  <2>2. CASE k = 0
    BY <1>1, <2>2 DEF Linked
  <2>3. CASE k # 0
    <3>1. k - 1 \in 0 .. MaxWalk /\ met[k - 1] = IF k - 1 < Len(s) THEN s[k] ELSE NULL
      BY <1>1, <2>3
    <3>2. CASE k <= Len(s)
      BY <1>1, <1>2, <2>3, <3>1, <3>2 DEF Linked
    <3>3. CASE k > Len(s)
      BY <1>1, <2>3, <3>1, <3>3
    <3>. QED
      BY <1>1, <3>2, <3>3
  <2>. QED
    BY <2>2, <2>3
<1> HIDE DEF met
<1>4. Eq(met)
  BY <1>3 DEF met
<1>5. Eq(at)
  <2> HIDE DEF Eq
  <2>. QED
    BY <1>4
<1>6. WalkFrom(h, nx) = at
  BY DEF WalkFrom
<1> HIDE DEF at
<1>7. at[0] = h
  BY <1>1, <1>5
<1>8. \A k \in 1 .. MaxWalk : at[k] = IF at[k - 1] = NULL THEN NULL ELSE nx[at[k - 1]]
  <2>1. TAKE k \in 1 .. MaxWalk
  <2>2. k \in 0 .. MaxWalk /\ k # 0
    BY <1>1
  <2>. QED
    BY <1>5, <2>2
<1> DEFINE S == {k \in 0 .. MaxWalk : at[k] # met[k]}
<1>9. S = {}
  <2> SUFFICES ASSUME S # {} PROVE FALSE
    OBVIOUS
  <2>1. PICK k \in S : \A m \in S : k <= m
    <3>1. S \in SUBSET Nat
      BY <1>1
    <3> HIDE DEF S
    <3>. QED
      BY <3>1, LeastCase
  <2>2. k \in 1 .. MaxWalk
    BY <1>1, <1>3, <1>7, <2>1
  <2>3. k - 1 \in 0 .. MaxWalk /\ at[k - 1] = met[k - 1]
    BY <1>1, <2>1, <2>2
  <2>4. at[k] = met[k]
    BY <1>1, <1>3, <1>8, <2>2, <2>3
  <2>. QED
    BY <2>1, <2>4
<1>10. \A k \in 0 .. MaxWalk : at[k] = met[k]
  BY <1>9
<1>11. at = [k \in 0 .. MaxWalk |-> at[k]] /\ met = [k \in 0 .. MaxWalk |-> met[k]]
  <2>1. DOMAIN at = 0 .. MaxWalk
    BY <1>5
  <2>. QED
    BY <1>5 DEF met
<1>. QED
  BY <1>6, <1>10, <1>11 DEF met

LEMMA ChainMeets ==
    ASSUME NEW s \in Seq(Nodes), NEW h, NEW t, NEW nx,
           Linked(s, h, t, nx),
           \A i, j \in 1 .. Len(s) : s[i] = s[j] => i = j
    PROVE  ChainFrom(h, nx) = s
<1> DEFINE at == WalkFrom(h, nx)
           met == {k \in 0 .. MaxWalk : at[k] # NULL}
<1>1. MaxWalk \in Nat /\ Len(s) \in Nat /\ Len(s) <= MaxWalk
  BY NoLonger
<1>2. at = [k \in 0 .. MaxWalk |-> IF k < Len(s) THEN s[k + 1] ELSE NULL]
  BY WalkMeets
<1>3. ChainFrom(h, nx) = [k \in 1 .. Cardinality(met) |-> at[k - 1]]
  BY DEF ChainFrom
<1> HIDE DEF at
<1>4. met = 0 .. Len(s) - 1
  BY <1>1, <1>2, SllAssumption
<1>5. Cardinality(met) = Len(s)
  <2> DEFINE n == Len(s) - 1
  <2>1. n \in Int /\ 0 \in Int /\ Len(s) = IF 0 > n THEN 0 ELSE n - 0 + 1
    BY <1>1
  <2> HIDE DEF n
  <2>2. Cardinality(0 .. n) = IF 0 > n THEN 0 ELSE n - 0 + 1
    BY <2>1, FS_Interval
  <2>. QED
    BY <1>4, <2>1, <2>2 DEF n
<1>6. \A k \in 1 .. Len(s) : at[k - 1] = s[k]
  BY <1>1, <1>2
<1>7. s = [k \in 1 .. Len(s) |-> s[k]]
  OBVIOUS
<1>. QED
  BY <1>3, <1>5, <1>6, <1>7

------------------------------------------------------------------------------
\* The abstract lists, with Chain spelt out.
Contents == [l \in Lists |-> Chain(l)]

LEMMA ContentsMeet ==
    ASSUME NEW c
    PROVE  /\ Hang(c, head, tail, next) => /\ Contents = c
                                          /\ \A l \in Lists : Chain(l) = c[l]
           /\ Hang(c, head', tail', next') => Contents' = c
<1>1. ASSUME NEW h, NEW t, NEW nx, Hang(c, h, t, nx), NEW l \in Lists
      PROVE  ChainFrom(h[l], nx) = c[l]
  <2>1. c[l] \in Seq(Nodes) /\ Linked(c[l], h[l], t[l], nx)
    BY <1>1 DEF Hang
  <2>2. \A i, j \in 1 .. Len(c[l]) : c[l][i] = c[l][j] => i = j
    BY <1>1 DEF Hang, Apart
  <2>. QED
    BY <2>1, <2>2, ChainMeets
<1>2. ASSUME NEW h, NEW t, NEW nx, Hang(c, h, t, nx)
      PROVE  c = [l \in Lists |-> c[l]]
  BY <1>2 DEF Hang
<1>3. ASSUME Hang(c, head, tail, next)
      PROVE  Contents = c /\ \A l \in Lists : Chain(l) = c[l]
  <2>1. \A l \in Lists : Chain(l) = c[l]
    BY <1>1, <1>3, ChainIsFrom
  <2>. QED
    BY <1>2, <1>3, <2>1 DEF Contents
<1>4. ASSUME Hang(c, head', tail', next')
      PROVE  Contents' = c
  <2>1. \A l \in Lists : Chain(l)' = c[l]
    BY <1>1, <1>4, ChainIsFrom
  <2>2. Contents' = [l \in Lists |-> Chain(l)']
    BY DEF Contents
  <2>. QED
    BY <1>2, <1>4, <2>1, <2>2
<1>. QED
  BY <1>3, <1>4

(***************************************************************************)
(* One list hung anew, from nodes that no other list has, without touching *)
(* the pointers of the others.                                             *)
(***************************************************************************)
Known(c) == TypeOK /\ Hang(c, head, tail, next)

\* No node is in s twice, or in s and in a list other than l.
Fresh(c, l, s) ==
    /\ \A i, j \in 1 .. Len(s) : s[i] = s[j] => i = j
    /\ \A m \in Lists \ {l} : \A i \in 1 .. Len(c[m]), j \in 1 .. Len(s) : c[m][i] # s[j]

Spared(c, l) ==
    \A m \in Lists \ {l} :
        /\ head'[m] = head[m] /\ tail'[m] = tail[m]
        /\ \A i \in 1 .. Len(c[m]) : next'[c[m][i]] = next[c[m][i]]

LEMMA Rehang ==
    ASSUME NEW c, Known(c), NEW l \in Lists, NEW s \in Seq(Nodes),
           Linked(s, head'[l], tail'[l], next'), Fresh(c, l, s), Spared(c, l)
    PROVE  Hang([c EXCEPT ![l] = s], head', tail', next')
<1> DEFINE d == [c EXCEPT ![l] = s]
<1>1. c \in [Lists -> Seq(Nodes)]
  BY DEF Hang, Known
<1>2. d \in [Lists -> Seq(Nodes)] /\ d[l] = s /\ \A m \in Lists \ {l} : d[m] = c[m]
  BY <1>1
<1> HIDE DEF d
<1>3. ASSUME NEW m \in Lists PROVE Linked(d[m], head'[m], tail'[m], next')
  <2>1. CASE m = l
    BY <1>2, <2>1
  <2>2. CASE m # l
    <3>1. Linked(c[m], head[m], tail[m], next)
      BY DEF Hang, Known
    <3>. QED
      BY <1>2, <2>2, <3>1 DEF Linked, Spared
  <2>. QED
    BY <2>1, <2>2
<1>4. ASSUME NEW m \in Lists, NEW k \in Lists,
             NEW i \in 1 .. Len(d[m]), NEW j \in 1 .. Len(d[k]), d[m][i] = d[k][j]
      PROVE  m = k /\ i = j
  <2>1. CASE m = l /\ k = l
    BY <1>2, <1>4, <2>1 DEF Fresh
  <2>2. CASE m # l /\ k # l
    BY <1>2, <1>4, <2>2 DEF Hang, Apart, Known
  <2>3. CASE m # l /\ k = l
    <3>1. m \in Lists \ {l} /\ i \in 1 .. Len(c[m]) /\ j \in 1 .. Len(s)
      BY <1>2, <2>3
    <3>2. c[m][i] # s[j]
      BY <3>1 DEF Fresh
    <3>. QED
      BY <1>2, <1>4, <2>3, <3>1, <3>2
  <2>4. CASE m = l /\ k # l
    <3>1. k \in Lists \ {l} /\ j \in 1 .. Len(c[k]) /\ i \in 1 .. Len(s)
      BY <1>2, <2>4
    <3>2. c[k][j] # s[i]
      BY <3>1 DEF Fresh
    <3>. QED
      BY <1>2, <1>4, <2>4, <3>1, <3>2
  <2>. QED
    BY <2>1, <2>2, <2>3, <2>4
<1>. QED
  BY <1>2, <1>3, <1>4 DEF Hang, Apart, d

LEMMA KnownEnds ==
    ASSUME NEW c, Known(c), NEW l \in Lists
    PROVE  Ends(l)
<1> DEFINE s == c[l]
<1>1. /\ s \in Seq(Nodes) /\ Linked(s, head[l], tail[l], next)
      /\ \A i, j \in 1 .. Len(s) : s[i] = s[j] => i = j
  BY DEF Known, Hang, Apart
<1> HIDE DEF s
<1>2. WalkFrom(head[l], next) = [k \in 0 .. MaxWalk |-> IF k < Len(s) THEN s[k + 1] ELSE NULL]
  BY <1>1, WalkMeets
<1>3. Walk(l) = [k \in 0 .. MaxWalk |-> IF k < Len(s) THEN s[k + 1] ELSE NULL]
  BY <1>2, ChainIsFrom
<1>4. MaxWalk \in Nat /\ Len(s) <= MaxWalk
  BY <1>1, NoLonger
<1>5. Len(s) \in Nat
  BY <1>1
<1>. QED
  BY <1>3, <1>4, <1>5 DEF Ends

------------------------------------------------------------------------------
(***************************************************************************)
(* Each operation keeps the invariant and does what the abstract one does. *)
(***************************************************************************)
LEMMA StepMeets ==
    ASSUME NEW c, Known(c), NEW l \in Lists, NEW s,
           Hang([c EXCEPT ![l] = s], head', tail', next')
    PROVE  Contents = c /\ Contents' = [Contents EXCEPT ![l] = s]
  BY ContentsMeet DEF Known

LEMMA ResetKeeps ==
    ASSUME NEW c, Known(c), NEW l \in Lists, SllInit(l), UNCHANGED got
    PROVE  IInv' /\ Abstract!Reset(l)
<1>1. TypeOK'
  BY DEF Known, TypeOK, SllInit, Pointer
<1>2. Hang([c EXCEPT ![l] = <<>>], head', tail', next')
  <2> DEFINE s == <<>>
  <2>1. Linked(s, head'[l], tail'[l], next')
    BY DEF Known, TypeOK, SllInit, Linked
  <2>2. s \in Seq(Nodes) /\ 1 .. Len(s) = {}
    OBVIOUS
  <2> HIDE DEF s
  <2>3. Spared(c, l)
    BY DEF Known, TypeOK, SllInit, Spared
  <2>4. Fresh(c, l, s)
    BY <2>2 DEF Fresh
  <2>5. Hang([c EXCEPT ![l] = s], head', tail', next')
    BY <2>1, <2>2, <2>3, <2>4, Rehang
  <2>. QED
    BY <2>5 DEF s
<1>3. Contents' = [Contents EXCEPT ![l] = <<>>]
  BY <1>2, StepMeets
<1>. QED
  BY <1>1, <1>2, <1>3 DEF IInv, Abstract!Reset, Contents

LEMMA UnlinkedIs ==
    ASSUME NEW c, Known(c), NEW n \in Nodes
    PROVE  /\ Unlinked(n) <=> \A l \in Lists : \A i \in 1 .. Len(c[l]) : c[l][i] # n
           /\ Unlinked(n) <=> ~Abstract!Linked(n)
           /\ \A l \in Lists : n \in On(l) <=> \E i \in 1 .. Len(c[l]) : c[l][i] = n
<1>1. Contents = c /\ \A l \in Lists : Chain(l) = c[l]
  BY ContentsMeet DEF Known
<1>2. \A l \in Lists : c[l] \in Seq(Nodes)
  BY DEF Known, Hang
<1>3. \A l \in Lists : On(l) = {c[l][k] : k \in 1 .. Len(c[l])}
  BY <1>1, <1>2 DEF On
<1>4. Abstract!Linked(n) <=> \E l \in Lists : n \in {c[l][i] : i \in 1 .. Len(c[l])}
  BY <1>1, <1>2 DEF Abstract!Linked, Abstract!ToSet, Contents
<1>. QED
  BY <1>3, <1>4 DEF Unlinked

LEMMA PutAtHeadKeeps ==
    ASSUME NEW c, Known(c), NEW l \in Lists, NEW n \in Nodes,
           Unlinked(n), SllPutAtHead(l, n), UNCHANGED got
    PROVE  /\ IInv' /\ Abstract!PutAtHead(l, n)
           /\ TypeOK' /\ Hang([c EXCEPT ![l] = <<n>> \o c[l]], head', tail', next')
<1> DEFINE s == <<n>> \o c[l]
<1>1. /\ c[l] \in Seq(Nodes) /\ \A m \in Lists : c[m] \in Seq(Nodes)
      /\ Linked(c[l], head[l], tail[l], next)
      /\ \A i, j \in 1 .. Len(c[l]) : c[l][i] = c[l][j] => i = j
      /\ \A m \in Lists \ {l} : \A i \in 1 .. Len(c[m]), j \in 1 .. Len(c[l]) : c[m][i] # c[l][j]
  BY DEF Known, Hang, Apart
<1>2. \A m \in Lists : \A i \in 1 .. Len(c[m]) : c[m][i] # n
  BY UnlinkedIs
<1>3. /\ s \in Seq(Nodes) /\ Len(s) = Len(c[l]) + 1
      /\ s[1] = n /\ \A i \in 1 .. Len(c[l]) : s[i + 1] = c[l][i]
  BY <1>1
<1> HIDE DEF s
<1>4. \A i \in 1 .. Len(s) : i = 1 \/ (i - 1 \in 1 .. Len(c[l]) /\ s[i] = c[l][i - 1])
  BY <1>1, <1>3
<1>5. TypeOK'
  BY DEF Known, TypeOK, SllPutAtHead, Pointer
<1>6. /\ next' = [next EXCEPT ![n] = head[l]]
      /\ head' = [head EXCEPT ![l] = n]
      /\ tail' = IF head[l] = NULL THEN [tail EXCEPT ![l] = n] ELSE tail
      /\ next \in [Nodes -> Pointer] /\ head \in [Lists -> Pointer] /\ tail \in [Lists -> Pointer]
  BY DEF Known, TypeOK, SllPutAtHead
<1>7. Linked(s, head'[l], tail'[l], next')
  <2>1. head'[l] = s[1] /\ s # <<>>
    BY <1>3, <1>6
  <2>2. tail'[l] = s[Len(s)]
    <3>1. CASE c[l] = <<>>
      BY <1>1, <1>3, <1>6, <3>1 DEF Linked
    <3>2. CASE c[l] # <<>>
      <4>1. Len(c[l]) \in 1 .. Len(c[l]) /\ head[l] = c[l][1] /\ tail[l] = c[l][Len(c[l])]
        BY <1>1, <3>2 DEF Linked
      <4>2. head[l] # NULL
        BY <1>1, <4>1, SllAssumption
      <4>. QED
        BY <1>3, <1>6, <4>1, <4>2
    <3>. QED
      BY <3>1, <3>2
  <2>3. ASSUME NEW i \in 1 .. Len(s)
        PROVE  next'[s[i]] = IF i < Len(s) THEN s[i + 1] ELSE NULL
    <3>1. CASE i = 1
      <4>1. next'[s[i]] = head[l]
        BY <1>3, <1>6, <3>1
      <4>2. head[l] = IF 1 < Len(s) THEN s[2] ELSE NULL
        <5>1. CASE c[l] = <<>>
          BY <1>1, <1>3, <5>1 DEF Linked
        <5>2. CASE c[l] # <<>>
          BY <1>1, <1>3, <5>2 DEF Linked
        <5>. QED
          BY <5>1, <5>2
      <4>. QED
        BY <3>1, <4>1, <4>2
    <3>2. CASE i # 1
      <4>1. i - 1 \in 1 .. Len(c[l]) /\ s[i] = c[l][i - 1] /\ s[i] # n /\ s[i] \in Nodes
        BY <1>1, <1>2, <1>4, <3>2
      <4>2. next'[s[i]] = next[c[l][i - 1]]
        BY <1>6, <4>1
      <4>3. next[c[l][i - 1]] = IF i - 1 < Len(c[l]) THEN c[l][i - 1 + 1] ELSE NULL
        BY <1>1, <4>1 DEF Linked
      <4>4. i < Len(s) <=> i - 1 < Len(c[l])
        BY <1>1, <1>3
      <4>5. i - 1 < Len(c[l]) => i - 1 + 1 = i /\ s[i + 1] = c[l][i]
        <5>. SUFFICES ASSUME i - 1 < Len(c[l]) PROVE i - 1 + 1 = i /\ s[i + 1] = c[l][i]
          OBVIOUS
        <5>1. i \in Int /\ i \in 1 .. Len(c[l])
          BY <1>1, <4>1
        <5>. QED
          BY <1>3, <5>1
      <4>. QED
        BY <4>2, <4>3, <4>4, <4>5
    <3>. QED
      BY <3>1, <3>2
  <2>. QED
    BY <2>1, <2>2, <2>3 DEF Linked
<1>8. Hang([c EXCEPT ![l] = s], head', tail', next')
  <2>1. Spared(c, l)
    <3>1. \A m \in Lists : \A i \in 1 .. Len(c[m]) : c[m][i] \in Nodes /\ c[m][i] # n
      BY <1>1, <1>2
    <3>. QED
      BY <1>6, <3>1 DEF Spared
  <2>2. \A i, j \in 1 .. Len(s) : s[i] = s[j] => i = j
    <3>1. TAKE i, j \in 1 .. Len(s)
    <3>4. \A k \in 1 .. Len(s) : k # 1 => s[k] # n
      BY <1>2, <1>4
    <3>2. CASE i = 1 \/ j = 1
      BY <1>3, <3>4, <3>2
    <3>3. CASE i # 1 /\ j # 1
      <4>1. s[i] = s[j] => i - 1 = j - 1
        BY <1>1, <1>4, <3>3
      <4>. QED
        BY <1>1, <1>3, <4>1
    <3>. QED
      BY <3>2, <3>3
  <2>3. \A m \in Lists \ {l} : \A i \in 1 .. Len(c[m]), j \in 1 .. Len(s) : c[m][i] # s[j]
    BY <1>1, <1>2, <1>3, <1>4
  <2>4. Fresh(c, l, s)
    BY <2>2, <2>3 DEF Fresh
  <2>. QED
    BY <1>3, <1>7, <2>1, <2>4, Rehang
<1>9. Contents = c /\ Contents' = [Contents EXCEPT ![l] = s]
  BY <1>8, StepMeets
<1>. QED
  BY <1>5, <1>8, <1>9, UnlinkedIs DEF IInv, Abstract!PutAtHead, Contents, s

LEMMA PutAtTailKeeps ==
    ASSUME NEW c, Known(c), NEW l \in Lists, NEW n \in Nodes,
           Unlinked(n), SllPutAtTail(l, n), UNCHANGED got
    PROVE  IInv' /\ Abstract!PutAtTail(l, n)
<1> DEFINE s == Append(c[l], n)
<1>1. /\ c[l] \in Seq(Nodes) /\ \A m \in Lists : c[m] \in Seq(Nodes)
      /\ Linked(c[l], head[l], tail[l], next)
      /\ \A i, j \in 1 .. Len(c[l]) : c[l][i] = c[l][j] => i = j
      /\ \A m \in Lists \ {l} : \A i \in 1 .. Len(c[m]), j \in 1 .. Len(c[l]) : c[m][i] # c[l][j]
  BY DEF Known, Hang, Apart
<1>2. \A m \in Lists : \A i \in 1 .. Len(c[m]) : c[m][i] # n
  BY UnlinkedIs
<1>3. /\ s \in Seq(Nodes) /\ Len(s) = Len(c[l]) + 1 /\ Len(c[l]) \in Nat
      /\ s[Len(s)] = n /\ \A i \in 1 .. Len(c[l]) : s[i] = c[l][i]
  BY <1>1
<1> HIDE DEF s
<1>4. \A i \in 1 .. Len(s) : i = Len(s) \/ (i \in 1 .. Len(c[l]) /\ s[i] = c[l][i] /\ s[i] # n)
  BY <1>2, <1>3
<1>5. TypeOK'
  BY DEF Known, TypeOK, SllPutAtTail, Pointer
<1>6. /\ next' = IF head[l] = NULL THEN [next EXCEPT ![n] = NULL]
                 ELSE [next EXCEPT ![n] = NULL, ![tail[l]] = n]
      /\ head' = [head EXCEPT ![l] = IF @ = NULL THEN n ELSE @]
      /\ tail' = [tail EXCEPT ![l] = n]
      /\ next \in [Nodes -> Pointer] /\ head \in [Lists -> Pointer] /\ tail \in [Lists -> Pointer]
  BY DEF Known, TypeOK, SllPutAtTail
<1>7. ASSUME c[l] = <<>>
      PROVE  /\ Linked(s, head'[l], tail'[l], next')
             /\ \A m \in Lists \ {l} : \A i \in 1 .. Len(c[m]) : next'[c[m][i]] = next[c[m][i]]
  <2>1. head[l] = NULL /\ Len(c[l]) = 0 /\ Len(s) = 1 /\ s[1] = n
    BY <1>1, <1>3, <1>7 DEF Linked
  <2>2. next' = [next EXCEPT ![n] = NULL] /\ head'[l] = n /\ tail'[l] = n
    BY <1>6, <2>1
  <2>3. s # <<>>
    BY <2>1
  <2>4. Linked(s, head'[l], tail'[l], next')
    BY <1>6, <2>1, <2>2, <2>3 DEF Linked
  <2>5. ASSUME NEW m \in Lists \ {l}, NEW i \in 1 .. Len(c[m])
        PROVE  next'[c[m][i]] = next[c[m][i]]
    <3>1. c[m][i] \in Nodes /\ c[m][i] # n
      BY <1>1, <1>2
    <3>. QED
      BY <1>6, <2>2, <3>1
  <2>. QED
    BY <2>4, <2>5
<1>8. ASSUME c[l] # <<>>
      PROVE  /\ Linked(s, head'[l], tail'[l], next')
             /\ \A m \in Lists \ {l} : \A i \in 1 .. Len(c[m]) : next'[c[m][i]] = next[c[m][i]]
  <2> DEFINE k == Len(c[l])
             z == c[l][k]
  <2>1. /\ k \in 1 .. Len(c[l]) /\ z \in Nodes /\ z # n /\ tail[l] = z
        /\ head[l] = c[l][1] /\ head[l] # NULL
    BY <1>1, <1>2, <1>8, SllAssumption DEF Linked
  <2> HIDE DEF k, z
  <2>2. /\ next' = [next EXCEPT ![n] = NULL, ![z] = n]
        /\ head'[l] = c[l][1] /\ tail'[l] = n
    BY <1>6, <2>1
  <2>3. s # <<>> /\ s[1] = c[l][1]
    BY <1>1, <1>3, <1>8
  <2>4. ASSUME NEW i \in 1 .. Len(s)
        PROVE  next'[s[i]] = IF i < Len(s) THEN s[i + 1] ELSE NULL
    <3>1. CASE i = Len(s)
      BY <1>3, <1>6, <2>1, <2>2, <3>1
    <3>2. CASE i = k
      <4>1. s[i] = z /\ i < Len(s) /\ i + 1 = Len(s)
        BY <1>3, <2>1, <3>2 DEF k, z
      <4>2. next'[z] = n
        BY <1>6, <2>1, <2>2
      <4>. QED
        BY <1>3, <4>1, <4>2
    <3>3. CASE i # Len(s) /\ i # k
      <4>1. /\ i \in 1 .. Len(c[l]) /\ s[i] = c[l][i] /\ s[i] # n /\ s[i] \in Nodes
            /\ i + 1 \in 1 .. Len(c[l]) /\ s[i + 1] = c[l][i + 1]
            /\ i < Len(c[l]) /\ i < Len(s)
        BY <1>1, <1>3, <1>4, <3>3 DEF k
      <4>2. s[i] # z
        BY <1>1, <2>1, <3>3, <4>1 DEF k, z
      <4>3. next'[s[i]] = next[c[l][i]]
        BY <1>6, <2>2, <4>1, <4>2
      <4>4. next[c[l][i]] = c[l][i + 1]
        BY <1>1, <4>1 DEF Linked
      <4>. QED
        BY <4>1, <4>3, <4>4
    <3>. QED
      BY <3>1, <3>2, <3>3
  <2>5. Linked(s, head'[l], tail'[l], next')
    BY <1>3, <2>2, <2>3, <2>4 DEF Linked
  <2>6. ASSUME NEW m \in Lists \ {l}, NEW i \in 1 .. Len(c[m])
        PROVE  next'[c[m][i]] = next[c[m][i]]
    <3>1. c[m][i] \in Nodes /\ c[m][i] # n /\ c[m][i] # z
      BY <1>1, <1>2, <2>1 DEF k, z
    <3>. QED
      BY <1>6, <2>2, <3>1
  <2>. QED
    BY <2>5, <2>6
<1>9. /\ Linked(s, head'[l], tail'[l], next')
      /\ \A m \in Lists \ {l} : \A i \in 1 .. Len(c[m]) : next'[c[m][i]] = next[c[m][i]]
  BY <1>7, <1>8
<1>10. Hang([c EXCEPT ![l] = s], head', tail', next')
  <2>1. Spared(c, l)
    BY <1>6, <1>9 DEF Spared
  <2>2. \A i, j \in 1 .. Len(s) : s[i] = s[j] => i = j
    BY <1>1, <1>3, <1>4
  <2>3. \A m \in Lists \ {l} : \A i \in 1 .. Len(c[m]), j \in 1 .. Len(s) : c[m][i] # s[j]
    BY <1>1, <1>2, <1>3, <1>4
  <2>4. Fresh(c, l, s)
    BY <2>2, <2>3 DEF Fresh
  <2>. QED
    BY <1>3, <1>9, <2>1, <2>4, Rehang
<1>11. Contents = c /\ Contents' = [Contents EXCEPT ![l] = s]
  BY <1>10, StepMeets
<1>. QED
  BY <1>5, <1>10, <1>11, UnlinkedIs DEF IInv, Abstract!PutAtTail, Contents, s

LEMMA EmptyIs ==
    ASSUME NEW s \in Seq(Nodes)
    PROVE  s = <<>> <=> Len(s) = 0
  BY EmptySeq

LEMMA GetKeeps ==
    ASSUME NEW c, Known(c), NEW l \in Lists, SllGet(l)
    PROVE  IInv' /\ Abstract!Get(l)
<1>1. /\ c[l] \in Seq(Nodes) /\ \A m \in Lists : c[m] \in Seq(Nodes)
      /\ Linked(c[l], head[l], tail[l], next)
      /\ \A i, j \in 1 .. Len(c[l]) : c[l][i] = c[l][j] => i = j
      /\ \A m \in Lists \ {l} : \A i \in 1 .. Len(c[m]), j \in 1 .. Len(c[l]) : c[m][i] # c[l][j]
  BY DEF Known, Hang, Apart
<1>2. Contents = c
  BY ContentsMeet DEF Known
<1>3. CASE c[l] = <<>>
  <2>1. head[l] = NULL /\ UNCHANGED links /\ got' = NULL
    BY <1>1, <1>3 DEF SllGet, Linked
  <2>2. TypeOK'
    BY <2>1 DEF Known, TypeOK, links, Pointer
  <2>3. Hang(c, head', tail', next')
    BY <2>1 DEF Known, links
  <2>4. Contents' = c
    BY <2>3, ContentsMeet
  <2>. QED
    BY <1>2, <1>3, <2>1, <2>2, <2>3, <2>4 DEF IInv, Abstract!Get, Contents
<1>4. CASE c[l] # <<>>
  <2> DEFINE s == Tail(c[l])
  <2>1. /\ s \in Seq(Nodes) /\ Len(s) = Len(c[l]) - 1 /\ Len(c[l]) \in Nat \ {0}
        /\ \A i \in 1 .. Len(s) : s[i] = c[l][i + 1]
        /\ Head(c[l]) = c[l][1] /\ c[l][1] \in Nodes
    BY <1>1, <1>4
  <2> HIDE DEF s
  <2>2. s = <<>> <=> Len(c[l]) = 1
    <3>1. s = <<>> <=> Len(s) = 0
      BY <2>1, EmptyIs
    <3>. QED
      BY <2>1, <3>1
  <2>3. head[l] = c[l][1] /\ head[l] # NULL /\ tail[l] = c[l][Len(c[l])]
    BY <1>1, <1>4, <2>1, SllAssumption DEF Linked
  <2>4. /\ got' = head[l]
        /\ head' = [head EXCEPT ![l] = next[head[l]]]
        /\ tail' = [tail EXCEPT ![l] = IF @ = head[l] THEN NULL ELSE @]
        /\ next' = next
        /\ head \in [Lists -> Pointer] /\ tail \in [Lists -> Pointer]
        /\ next \in [Nodes -> Pointer]
    BY <2>3 DEF SllGet, Known, TypeOK
  <2>5. TypeOK'
    BY <2>1, <2>3, <2>4 DEF TypeOK, Pointer
  <2>6. Linked(s, head'[l], tail'[l], next')
    <3>1. head'[l] = IF 1 < Len(c[l]) THEN c[l][2] ELSE NULL
      BY <1>1, <2>1, <2>3, <2>4 DEF Linked
    <3>2. head'[l] = IF s = <<>> THEN NULL ELSE s[1]
      BY <2>1, <2>2, <3>1
    <3>3. tail'[l] = IF Len(c[l]) = 1 THEN NULL ELSE c[l][Len(c[l])]
      <4>1. tail[l] = head[l] <=> Len(c[l]) = 1
        <5>1. 1 \in 1 .. Len(c[l]) /\ Len(c[l]) \in 1 .. Len(c[l])
          BY <2>1
        <5>2. c[l][1] = c[l][Len(c[l])] => 1 = Len(c[l])
          BY <1>1, <5>1
        <5>. QED
          BY <2>3, <5>2
      <4>. QED
        BY <2>4, <2>3, <4>1
    <3>4. tail'[l] = IF s = <<>> THEN NULL ELSE s[Len(s)]
      BY <2>1, <2>2, <3>3
    <3>5. ASSUME NEW i \in 1 .. Len(s)
          PROVE  next'[s[i]] = IF i < Len(s) THEN s[i + 1] ELSE NULL
      <4>1. i + 1 \in 1 .. Len(c[l]) /\ s[i] = c[l][i + 1]
        BY <2>1
      <4>2. next[c[l][i + 1]] = IF i + 1 < Len(c[l]) THEN c[l][i + 1 + 1] ELSE NULL
        BY <1>1, <4>1 DEF Linked
      <4>3. i + 1 < Len(c[l]) <=> i < Len(s)
        BY <2>1
      <4>4. i < Len(s) => s[i + 1] = c[l][i + 1 + 1]
        BY <2>1
      <4>. QED
        BY <2>4, <4>1, <4>2, <4>3, <4>4
    <3>. QED
      BY <3>2, <3>4, <3>5 DEF Linked
  <2>7. Hang([c EXCEPT ![l] = s], head', tail', next')
    <3>1. \A i \in 1 .. Len(s) : i + 1 \in 1 .. Len(c[l]) /\ s[i] = c[l][i + 1]
      BY <2>1
    <3>2. \A i, j \in 1 .. Len(s) : s[i] = s[j] => i = j
      <4>1. TAKE i, j \in 1 .. Len(s)
      <4>2. s[i] = s[j] => i + 1 = j + 1
        BY <1>1, <3>1
      <4>. QED
        BY <4>2
    <3>3. \A m \in Lists \ {l} : \A i \in 1 .. Len(c[m]), j \in 1 .. Len(s) : c[m][i] # s[j]
      BY <1>1, <3>1
    <3>4. Spared(c, l)
      BY <2>4 DEF Spared
    <3>5. Fresh(c, l, s)
      BY <3>2, <3>3 DEF Fresh
    <3>. QED
      BY <2>1, <2>6, <3>4, <3>5, Rehang
  <2>8. Contents' = [Contents EXCEPT ![l] = s]
    BY <2>7, StepMeets
  <2>. QED
    BY <1>2, <1>4, <2>1, <2>3, <2>4, <2>5, <2>7, <2>8 DEF IInv, Abstract!Get, Contents, s
<1>. QED
  BY <1>3, <1>4

(***************************************************************************)
(* The node in front of the j-th, found by its next pointer.               *)
(***************************************************************************)
LEMMA PreviousIs ==
    ASSUME NEW c, Known(c), NEW l \in Lists, NEW j \in 1 .. Len(c[l])
    PROVE  SllPrevious(l, c[l][j]) = IF j = 1 THEN NULL ELSE c[l][j - 1]
<1>1. /\ c[l] \in Seq(Nodes) /\ Linked(c[l], head[l], tail[l], next)
      /\ \A i, k \in 1 .. Len(c[l]) : c[l][i] = c[l][k] => i = k
  BY DEF Known, Hang, Apart
<1>2. On(l) = {c[l][k] : k \in 1 .. Len(c[l])}
  <2>1. \A n \in On(l) : n \in {c[l][k] : k \in 1 .. Len(c[l])}
    <3>1. Chain(l) = c[l]
      BY ContentsMeet DEF Known
    <3>. QED
      BY <1>1, <3>1 DEF On
  <2>2. \A k \in 1 .. Len(c[l]) : c[l][k] \in Nodes
    BY <1>1
  <2>. QED
    BY <2>1, <2>2, UnlinkedIs
<1>3. c[l] # <<>> /\ Len(c[l]) \in Nat \ {0} /\ j \in Nat \ {0}
  BY <1>1
<1>4. head[l] = c[l][1] /\ head[l] # NULL /\ 1 \in 1 .. Len(c[l])
  BY <1>1, <1>3, SllAssumption DEF Linked
<1>5. CASE j = 1
  BY <1>4, <1>5 DEF SllPrevious
<1>6. CASE j # 1
  <2> DEFINE p == c[l][j - 1]
             n == c[l][j]
  <2>1. j - 1 \in 1 .. Len(c[l]) /\ j - 1 < Len(c[l]) /\ j - 1 + 1 = j
    BY <1>3, <1>6
  <2>2. p \in On(l) /\ next[p] = n
    BY <1>1, <1>2, <2>1 DEF Linked
  <2>3. ASSUME NEW q \in On(l), next[q] = n PROVE q = p
    <3>1. PICK k \in 1 .. Len(c[l]) : q = c[l][k]
      BY <1>2
    <3>2. next[q] = IF k < Len(c[l]) THEN c[l][k + 1] ELSE NULL
      BY <1>1, <3>1 DEF Linked
    <3>3. n # NULL
      BY <1>1, SllAssumption
    <3>4. k + 1 \in 1 .. Len(c[l]) /\ c[l][k + 1] = c[l][j]
      BY <1>3, <2>3, <3>2, <3>3
    <3>5. k + 1 = j
      BY <1>1, <3>4
    <3>. QED
      BY <1>3, <3>1, <3>5
  <2>4. head[l] # n
    BY <1>1, <1>4, <1>6
  <2> HIDE DEF p, n
  <2>5. SllPrevious(l, n) = CHOOSE q \in On(l) : next[q] = n
    BY <1>4, <2>2, <2>4 DEF SllPrevious
  <2>6. (CHOOSE q \in On(l) : next[q] = n) = p
    BY <2>2, <2>3
  <2>. QED
    BY <1>6, <2>5, <2>6 DEF n, p
<1>. QED
  BY <1>5, <1>6

LEMMA RemovedIs ==
    ASSUME NEW s \in Seq(Nodes), NEW j \in 1 .. Len(s)
    PROVE  /\ Abstract!RemoveAt(s, j) \in Seq(Nodes)
           /\ Len(Abstract!RemoveAt(s, j)) = Len(s) - 1
           /\ \A i \in 1 .. Len(s) - 1 :
                  Abstract!RemoveAt(s, j)[i] = IF i < j THEN s[i] ELSE s[i + 1]
<1> DEFINE a == SubSeq(s, 1, j - 1)
           b == SubSeq(s, j + 1, Len(s))
<1>1. Len(s) \in Nat /\ j \in Nat \ {0} /\ j <= Len(s)
  OBVIOUS
<1>2. /\ a \in Seq(Nodes) /\ Len(a) = j - 1
      /\ \A i \in 1 .. j - 1 : a[i] = s[i]
  <2>1. \A i \in 1 .. j - 1 : s[i] \in Nodes
    BY <1>1
  <2>. QED
    BY <1>1, <2>1, SubSeqProperties
<1>3. /\ b \in Seq(Nodes) /\ Len(b) = Len(s) - j
      /\ \A i \in 1 .. Len(s) - j : b[i] = s[j + i]
  <2>1. \A i \in j + 1 .. Len(s) : s[i] \in Nodes
    BY <1>1
  <2>. QED
    BY <1>1, <2>1, SubSeqProperties
<1>4. Abstract!RemoveAt(s, j) = a \o b
  BY DEF Abstract!RemoveAt
<1> HIDE DEF a, b
<1>5. /\ a \o b \in Seq(Nodes) /\ Len(a \o b) = Len(a) + Len(b)
      /\ \A i \in 1 .. Len(a) + Len(b) :
             (a \o b)[i] = IF i <= Len(a) THEN a[i] ELSE b[i - Len(a)]
  BY <1>2, <1>3, ConcatProperties
<1>6. ASSUME NEW i \in 1 .. Len(s) - 1
      PROVE  (a \o b)[i] = IF i < j THEN s[i] ELSE s[i + 1]
  <2>1. CASE i < j
    BY <1>1, <1>2, <1>3, <1>5, <2>1
  <2>2. CASE i >= j
    <3>1. i - (j - 1) \in 1 .. Len(s) - j /\ j + (i - (j - 1)) = i + 1 /\ ~(i <= j - 1)
      BY <1>1, <2>2
    <3>2. (a \o b)[i] = b[i - (j - 1)]
      BY <1>1, <1>2, <1>3, <1>5, <3>1
    <3>3. b[i - (j - 1)] = s[j + (i - (j - 1))]
      BY <1>3, <3>1
    <3>. QED
      BY <1>1, <2>2, <3>1, <3>2, <3>3
  <2>3. i < j \/ i >= j
    BY <1>1
  <2>. QED
    BY <2>1, <2>2, <2>3
<1>. QED
  BY <1>1, <1>2, <1>3, <1>4, <1>5, <1>6

LEMMA RemoveKeeps ==
    ASSUME NEW c, Known(c), NEW l \in Lists, NEW n \in Nodes, n \in On(l),
           SllRemove(l, n, SllPrevious(l, n)), UNCHANGED got
    PROVE  IInv' /\ Abstract!Take(l, n)
<1>1. /\ c[l] \in Seq(Nodes) /\ \A m \in Lists : c[m] \in Seq(Nodes)
      /\ Linked(c[l], head[l], tail[l], next)
      /\ \A i, j \in 1 .. Len(c[l]) : c[l][i] = c[l][j] => i = j
      /\ \A m \in Lists \ {l} : \A i \in 1 .. Len(c[m]), j \in 1 .. Len(c[l]) : c[m][i] # c[l][j]
  BY DEF Known, Hang, Apart
<1>2. PICK j \in 1 .. Len(c[l]) : c[l][j] = n
  BY UnlinkedIs
<1> DEFINE N == Len(c[l])
           s == Abstract!RemoveAt(c[l], j)
           prev == IF j = 1 THEN NULL ELSE c[l][j - 1]
<1>3. /\ s \in Seq(Nodes) /\ Len(s) = N - 1 /\ N \in Nat \ {0} /\ j \in 1 .. N
      /\ \A i \in 1 .. N - 1 : s[i] = IF i < j THEN c[l][i] ELSE c[l][i + 1]
  BY <1>1, RemovedIs
<1>4. SllPrevious(l, n) = prev
  BY <1>2, PreviousIs
<1>5. /\ IF prev = NULL
         THEN head' = [head EXCEPT ![l] = next[n]] /\ next' = next
         ELSE next' = [next EXCEPT ![prev] = next[n]] /\ head' = head
      /\ tail' = [tail EXCEPT ![l] = IF @ = n THEN prev ELSE @]
      /\ head \in [Lists -> Pointer] /\ tail \in [Lists -> Pointer]
      /\ next \in [Nodes -> Pointer]
  BY <1>4 DEF SllRemove, Known, TypeOK
<1>6. prev = NULL <=> j = 1
  BY <1>1, <1>3, SllAssumption
<1>7. prev \in Pointer /\ (j # 1 => j - 1 \in 1 .. N /\ prev = c[l][j - 1] /\ prev \in Nodes)
  BY <1>1, <1>3 DEF Pointer
<1>8. next[n] = IF j < N THEN c[l][j + 1] ELSE NULL
  BY <1>1, <1>2 DEF Linked
<1>9. TypeOK'
  BY <1>5, <1>7 DEF Known, TypeOK, Pointer
<1> HIDE DEF s, prev
<1>10. s = <<>> <=> N = 1
  <2>1. s = <<>> <=> Len(s) = 0
    BY <1>3, EmptyIs
  <2>. QED
    BY <1>3, <2>1
<1>11. /\ head[l] = c[l][1] /\ tail[l] = c[l][N] /\ N \in 1 .. N
  BY <1>1, <1>3 DEF Linked
<1>12. head'[l] = IF s = <<>> THEN NULL ELSE s[1]
  <2>1. CASE j = 1
    <3>1. head'[l] = next[n]
      BY <1>5, <1>6, <2>1
    <3>. QED
      BY <1>3, <1>8, <1>10, <2>1, <3>1
  <2>2. CASE j # 1
    BY <1>3, <1>5, <1>6, <1>10, <1>11, <2>2
  <2>. QED
    BY <2>1, <2>2
<1>13. tail'[l] = IF s = <<>> THEN NULL ELSE s[Len(s)]
  <2>1. tail[l] = n <=> j = N
    BY <1>1, <1>2, <1>3, <1>11
  <2>2. CASE j = N
    <3>1. tail'[l] = prev
      BY <1>5, <2>1, <2>2
    <3>2. CASE N = 1
      BY <1>6, <1>10, <2>2, <3>1, <3>2
    <3>3. CASE N # 1
      <4>1. N - 1 \in 1 .. N - 1 /\ N - 1 < j
        <5>1. N \in Nat \ {0}
          BY <1>3
        <5> HIDE DEF N
        <5>2. N - 1 \in 1 .. N - 1 /\ N - 1 < N
          BY <3>3, <5>1
        <5>. QED
          BY <2>2, <5>2
      <4>2. s[N - 1] = c[l][N - 1]
        BY <1>3, <4>1
      <4>3. tail'[l] = c[l][N - 1]
        BY <1>3, <1>7, <2>2, <3>1, <3>3
      <4>. QED
        BY <1>3, <1>10, <3>3, <4>2, <4>3
    <3>. QED
      BY <3>2, <3>3
  <2>3. CASE j # N
    <3>1. tail'[l] = c[l][N]
      BY <1>5, <1>11, <2>1, <2>3
    <3>2. N - 1 \in 1 .. N - 1 /\ ~(N - 1 < j) /\ N # 1 /\ N - 1 + 1 = N
      BY <1>3, <2>3
    <3>3. s[N - 1] = c[l][N - 1 + 1]
      BY <1>3, <3>2
    <3>. QED
      BY <1>3, <1>10, <3>1, <3>2, <3>3
  <2>. QED
    BY <2>2, <2>3
<1>14. ASSUME NEW i \in 1 .. Len(s)
       PROVE  next'[s[i]] = IF i < Len(s) THEN s[i + 1] ELSE NULL
  <2>1. i \in 1 .. N - 1 /\ i \in 1 .. N /\ i + 1 \in 1 .. N /\ i \in Int /\ j \in Int
    BY <1>3
  <2>2. CASE i = j - 1
    <3>1. s[i] = prev /\ j # 1
      BY <1>3, <1>7, <2>1, <2>2
    <3>2. next'[s[i]] = next[n]
      BY <1>5, <1>6, <1>7, <3>1
    <3>3. i < Len(s) <=> j < N
      BY <1>3, <2>2
    <3>4. j < N => s[i + 1] = c[l][j + 1]
      <4>. SUFFICES ASSUME j < N PROVE s[i + 1] = c[l][j + 1]
        OBVIOUS
      <4>1. j \in 1 .. N - 1 /\ i + 1 = j /\ ~(j < j)
        BY <1>3, <2>1, <2>2
      <4>. QED
        BY <1>3, <4>1
    <3>. QED
      BY <1>8, <3>2, <3>3, <3>4
  <2>3. CASE i # j - 1
    <3> DEFINE k == IF i < j THEN i ELSE i + 1
    <3>1. k \in 1 .. N /\ s[i] = c[l][k] /\ (j # 1 => k # j - 1)
      BY <1>3, <2>1, <2>3
    <3> HIDE DEF k
    <3>2. next'[s[i]] = next[c[l][k]]
      <4>1. CASE j = 1
        BY <1>5, <1>6, <3>1, <4>1
      <4>2. CASE j # 1
        <5>1. c[l][k] # prev
          BY <1>1, <1>7, <3>1, <4>2
        <5>2. c[l][k] \in Nodes
          BY <1>1, <3>1
        <5>. QED
          BY <1>5, <1>6, <3>1, <4>2, <5>1, <5>2
      <4>. QED
        BY <4>1, <4>2
    <3>3. next[c[l][k]] = IF k < N THEN c[l][k + 1] ELSE NULL
      BY <1>1, <3>1 DEF Linked
    <3>4. CASE i < j
      <4>1. k = i /\ i < j - 1 /\ i < N - 1 /\ i + 1 < j /\ i < N /\ i + 1 \in 1 .. N - 1
        BY <1>3, <2>1, <2>3, <3>4 DEF k
      <4>. QED
        BY <1>3, <3>2, <3>3, <4>1
    <3>5. CASE i >= j
      <4>1. k = i + 1 /\ ~(i + 1 < j) /\ (k < N <=> i < N - 1)
        BY <1>3, <2>1, <3>5 DEF k
      <4>2. i < N - 1 => s[i + 1] = c[l][i + 1 + 1]
        BY <1>3, <2>1, <4>1
      <4>. QED
        BY <1>3, <3>2, <3>3, <4>1, <4>2
    <3>. QED
      BY <2>1, <3>4, <3>5
  <2>. QED
    BY <2>2, <2>3
<1>15. Hang([c EXCEPT ![l] = s], head', tail', next')
  <2>1. Linked(s, head'[l], tail'[l], next')
    BY <1>12, <1>13, <1>14 DEF Linked
  <2>2. \A i \in 1 .. Len(s) : \E k \in 1 .. N : s[i] = c[l][k] /\ k = IF i < j THEN i ELSE i + 1
    BY <1>3
  <2>3. \A i, k \in 1 .. Len(s) : s[i] = s[k] => i = k
    <3>1. TAKE i, k \in 1 .. Len(s)
    <3>. SUFFICES ASSUME s[i] = s[k] PROVE i = k
      OBVIOUS
    <3>2. PICK a \in 1 .. N : s[i] = c[l][a] /\ a = IF i < j THEN i ELSE i + 1
      BY <2>2
    <3>3. PICK b \in 1 .. N : s[k] = c[l][b] /\ b = IF k < j THEN k ELSE k + 1
      BY <2>2
    <3>4. a = b
      BY <1>1, <3>2, <3>3
    <3>. QED
      BY <1>3, <3>2, <3>3, <3>4
  <2>4. \A m \in Lists \ {l} : \A i \in 1 .. Len(c[m]), k \in 1 .. Len(s) : c[m][i] # s[k]
    BY <1>1, <2>2
  <2>5. \A m \in Lists \ {l} : head'[m] = head[m] /\ tail'[m] = tail[m]
    BY <1>5
  <2>6. ASSUME NEW m \in Lists \ {l}, NEW i \in 1 .. Len(c[m])
        PROVE  next'[c[m][i]] = next[c[m][i]]
    <3>1. c[m][i] \in Nodes
      BY <1>1
    <3>2. CASE j = 1
      BY <1>5, <1>6, <3>2
    <3>3. CASE j # 1
      <4>1. c[m][i] # prev
        BY <1>1, <1>7, <3>3
      <4>. QED
        BY <1>5, <1>6, <3>1, <3>3, <4>1
    <3>. QED
      BY <3>2, <3>3
  <2>7. Spared(c, l)
    BY <2>5, <2>6 DEF Spared
  <2>8. Fresh(c, l, s)
    BY <2>3, <2>4 DEF Fresh
  <2>. QED
    BY <1>3, <2>1, <2>7, <2>8, Rehang
<1>16. Contents = c /\ Contents' = [Contents EXCEPT ![l] = s]
  BY <1>15, StepMeets
<1>17. j \in DOMAIN Contents[l] /\ Contents[l][j] = n
  BY <1>1, <1>2, <1>16
<1>18. n \in Abstract!ToSet(Contents[l])
  BY <1>17 DEF Abstract!ToSet
<1>. QED
  BY <1>9, <1>15, <1>16, <1>17, <1>18 DEF IInv, Abstract!Take, Contents, s

------------------------------------------------------------------------------
LEMMA InitIInv == Init => IInv /\ Abstract!Init
<1>. SUFFICES ASSUME Init PROVE IInv /\ Abstract!Init
  OBVIOUS
<1> DEFINE c == [l \in Lists |-> <<>>]
<1>1. TypeOK
  BY DEF Init, TypeOK, Pointer
<1>2. Hang(c, head, tail, next)
  BY DEF Init, Hang, Linked, Apart
<1>3. Contents = c
  BY <1>2, ContentsMeet
<1>. QED
  BY <1>1, <1>2, <1>3 DEF IInv, Abstract!Init, Contents, Init

LEMMA NextIInv == IInv /\ Next => IInv' /\ Abstract!Next
<1>. SUFFICES ASSUME IInv, Next PROVE IInv' /\ Abstract!Next
  OBVIOUS
<1>1. PICK c : Known(c)
  BY DEF IInv, Known
<1>2. PICK l \in Lists :
         \/ SllInit(l) /\ UNCHANGED got
         \/ SllGet(l)
         \/ \E n \in Nodes :
               \/ Unlinked(n) /\ SllPutAtHead(l, n) /\ UNCHANGED got
               \/ Unlinked(n) /\ SllPutAtTail(l, n) /\ UNCHANGED got
               \/ n \in On(l) /\ SllRemove(l, n, SllPrevious(l, n)) /\ UNCHANGED got
  BY DEF Next
<1>3. CASE SllInit(l) /\ UNCHANGED got
  BY <1>1, <1>3, ResetKeeps DEF Abstract!Next
<1>4. CASE SllGet(l)
  BY <1>1, <1>4, GetKeeps DEF Abstract!Next
<1>5. ASSUME NEW n \in Nodes, Unlinked(n) /\ SllPutAtHead(l, n) /\ UNCHANGED got
      PROVE  IInv' /\ Abstract!Next
  BY <1>1, <1>5, PutAtHeadKeeps DEF Abstract!Next
<1>6. ASSUME NEW n \in Nodes, Unlinked(n) /\ SllPutAtTail(l, n) /\ UNCHANGED got
      PROVE  IInv' /\ Abstract!Next
  BY <1>1, <1>6, PutAtTailKeeps DEF Abstract!Next
<1>7. ASSUME NEW n \in Nodes,
             n \in On(l) /\ SllRemove(l, n, SllPrevious(l, n)) /\ UNCHANGED got
      PROVE  IInv' /\ Abstract!Next
  BY <1>1, <1>7, RemoveKeeps DEF Abstract!Next
<1>. QED
  BY <1>2, <1>3, <1>4, <1>5, <1>6, <1>7

(***************************************************************************)
(* The invariant holds in every state of the lists.                        *)
(***************************************************************************)
THEOREM ListInvariant == Spec => []IInv
<1>1. IInv /\ UNCHANGED sllVars => IInv'
  BY DEF IInv, sllVars, TypeOK
<1>. QED
  BY <1>1, InitIInv, NextIInv, PTL DEF Spec

(***************************************************************************)
(* Heads, tails and next pointers are nodes or NULL: nothing is ever       *)
(* linked to a list head, or to a node that does not exist.                *)
(***************************************************************************)
THEOREM ListTypeOK == Spec => []TypeOK
<1>1. IInv => TypeOK
  BY DEF IInv
<1>. QED
  BY <1>1, ListInvariant, PTL

(***************************************************************************)
(* Every list ends at its tail, and no node is on two lists, for any       *)
(* number of lists and nodes and any order of operations.                  *)
(***************************************************************************)
THEOREM ListsStaySound == Spec => []ListsSound
<1>1. IInv => ListsSound
  <2>. SUFFICES ASSUME IInv PROVE ListsSound
    OBVIOUS
  <2>1. PICK c : Known(c)
    BY DEF IInv, Known
  <2>2. \A l \in Lists : Chain(l) = c[l]
    BY <2>1, ContentsMeet DEF Known
  <2>3. \A l \in Lists : Ends(l)
    BY <2>1, KnownEnds
  <2>4. ASSUME NEW l \in Lists
        PROVE  tail[l] = IF Chain(l) = <<>> THEN NULL ELSE Chain(l)[Len(Chain(l))]
    BY <2>1, <2>2 DEF Known, Hang, Linked
  <2>5. ASSUME NEW l \in Lists, NEW m \in Lists, l # m PROVE On(l) \intersect On(m) = {}
    <3>1. \A n \in On(l) : \E i \in 1 .. Len(c[l]) : n = c[l][i]
      BY <2>1, <2>2 DEF On, Known, Hang
    <3>2. \A n \in On(m) : \E i \in 1 .. Len(c[m]) : n = c[m][i]
      BY <2>1, <2>2 DEF On, Known, Hang
    <3>. QED
      BY <2>1, <2>5, <3>1, <3>2 DEF Known, Hang, Apart
  <2>. QED
    BY <2>3, <2>4, <2>5 DEF ListsSound
<1>. QED
  BY <1>1, ListInvariant, PTL

(***************************************************************************)
(* The lists implement sequences: nothing is lost when a node leaves from  *)
(* the middle, nothing reappears when it is put back elsewhere.            *)
(***************************************************************************)
THEOREM ListsAreSequences == Spec => ImplementsSeqLists
<1>1. Init => Abstract!Init
  BY InitIInv
<1>2. IInv /\ [Next]_sllVars => [Abstract!Next]_(Abstract!ListVars)
  <2>1. UNCHANGED sllVars => UNCHANGED Abstract!ListVars
    BY ChainIsFrom DEF sllVars, Abstract!ListVars
  <2>. QED
    BY <2>1, NextIInv
<1>. QED
  BY <1>1, <1>2, ListInvariant, PTL DEF Spec, ImplementsSeqLists, Abstract!Spec
==============================================================================
