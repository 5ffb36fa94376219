----------------------------- MODULE SymTabProofs -----------------------------
(***************************************************************************)
(* The symbol table for any array of symbols and any hash function: since  *)
(* the entries are put in their order in the array, and each at the head   *)
(* of its bucket, a bucket is descending, and the first match in it is the *)
(* latest added.  A search by value goes through all buckets, and what it  *)
(* has kept after some symbols is the nearest of these.  What a put does   *)
(* to a list is taken from SllProofs.                                      *)
(***************************************************************************)
EXTENDS SymTab, FiniteSetTheorems, SequenceTheorems, TLAPS

LP == INSTANCE SllProofs WITH Lists <- Buckets, got <- NULL

Hash(n) == SymHFuncName[standTbl[n].name]

(***************************************************************************)
(* The table holds what was added, each bucket from the latest to the      *)
(* earliest; c[b] is the sequence of nodes that hangs from bucket b.       *)
(***************************************************************************)
Filed(c, s) ==
    /\ \A b \in Buckets :
          /\ \A j, k \in 1 .. Len(c[b]) : j < k => c[b][j] > c[b][k]
          /\ \A j \in 1 .. Len(c[b]) :
                Hash(c[b][j]) = b /\ \E p \in 1 .. Len(s) : s[p] = c[b][j]
    /\ \A p \in 1 .. Len(s) :
          \E j \in 1 .. Len(c[Hash(s[p])]) : c[Hash(s[p])][j] = s[p]

Holds(c) == LP!Known(c) /\ Filed(c, added)

Ascending ==
    /\ \A p, q \in 1 .. Len(added) : p < q => added[p] < added[q]
    /\ \A p \in 1 .. Len(added) : added[p] < ix

Typed ==
    /\ standTbl \in [Nodes -> Symbols]
    /\ sameNameOk \in BOOLEAN
    /\ sysSymTbl \in {"none", "up", "lost"}
    /\ nsymbols \in Nat /\ nsymbols < ix
    /\ ix \in 1 .. StandTblSize + 1
    /\ added \in Seq(Nodes)

IInv == Typed /\ Ascending /\ NoClash /\ \E c : Holds(c)

------------------------------------------------------------------------------
LEMMA SllAssumed == NULL \notin Nodes /\ LP!IsFiniteSet(Nodes)
<1>1. IsFiniteSet(1 .. StandTblSize)
  BY SymTabAssumption, FS_Interval
<1>2. LP!IsFiniteSet(Nodes) <=> IsFiniteSet(Nodes)
  BY DEF LP!IsFiniteSet, IsFiniteSet
<1>. QED
  BY <1>1, <1>2, SymTabAssumption DEF Nodes

\* The lists of the table are those of SllProofs.
LEMMA SameLists ==
    ASSUME NEW b \in Buckets
    PROVE  Chain(b) = LP!Chain(b) /\ List!Ends(b) = LP!Ends(b)
<1>1. List!MaxWalk = LP!MaxWalk
  BY DEF List!MaxWalk, LP!MaxWalk, List!Cardinality, LP!Cardinality
<1>2. \A S : List!Cardinality(S) = LP!Cardinality(S)
  BY DEF List!Cardinality, LP!Cardinality
<1>3. List!Walk(b) = LP!Walk(b)
  BY <1>1 DEF List!Walk, LP!Walk
<1>. QED
  BY <1>1, <1>2, <1>3 DEF Chain, List!Chain, LP!Chain, List!Ends, LP!Ends

LEMMA ChainsHold ==
    ASSUME NEW c, LP!Known(c), NEW b \in Buckets
    PROVE  /\ Chain(b) = c[b] /\ c[b] \in Seq(Nodes)
           /\ List!Ends(b)
           /\ tail[b] = IF c[b] = <<>> THEN NULL ELSE c[b][Len(c[b])]
<1>1. LP!Chain(b) = c[b]
  BY SllAssumed, LP!ContentsMeet DEF LP!Known
<1>2. c[b] \in Seq(Nodes) /\ tail[b] = IF c[b] = <<>> THEN NULL ELSE c[b][Len(c[b])]
  BY DEF LP!Known, LP!Hang, LP!Linked
<1>3. LP!Ends(b)
  BY SllAssumed, LP!KnownEnds
<1>. QED
  BY <1>1, <1>2, <1>3, SameLists

------------------------------------------------------------------------------
(***************************************************************************)
(* The smallest and the greatest of a set of numbers up to n.              *)
(***************************************************************************)
LEMMA MinIs ==
    ASSUME NEW n \in Nat, NEW S \in SUBSET (1 .. n), S # {}
    PROVE  Min(S) \in S /\ \A y \in S : Min(S) <= y
<1>1. \E x \in S : \A y \in S : x <= y
  BY SllAssumed, LP!LeastCase
<1>. QED
  BY <1>1 DEF Min

LEMMA MaxIs ==
    ASSUME NEW n \in Nat, NEW S \in SUBSET (1 .. n), S # {}
    PROVE  Max(S) \in S /\ \A y \in S : y <= Max(S)
<1> DEFINE T == {n - y : y \in S}
<1>1. T \in SUBSET Nat /\ T # {}
  <2>1. \A y \in S : y \in 1 .. n /\ n - y \in Nat
    OBVIOUS
  <2>. QED
    BY <2>1
<1> HIDE DEF T
<1>2. PICK t \in T : \A u \in T : t <= u
  BY <1>1, SllAssumed, LP!LeastCase
<1>3. PICK x \in S : t = n - x
  BY <1>2 DEF T
<1>4. ASSUME NEW y \in S PROVE y <= x
  <2>1. n - y \in T
    BY DEF T
  <2>2. n - x <= n - y
    BY <1>2, <1>3, <2>1
  <2>. QED
    BY <2>2
<1>5. \A y \in S : x >= y
  BY <1>4
<1>. QED
  BY <1>5 DEF Max

Matching(match, mask) ==
    {p \in DOMAIN added : SymKeyCmpName(match, standTbl[added[p]], mask)}

(***************************************************************************)
(* The first match in a descending bucket is the latest of all matches.    *)
(***************************************************************************)
LEMMA FindsLatest ==
    ASSUME Typed, Ascending, NEW c, Holds(c), NEW match, match.name \in Names, NEW mask
    PROVE  HashTblFind(match, mask)
             = IF Matching(match, mask) = {} THEN NULL ELSE added[Max(Matching(match, mask))]
<1> DEFINE b == SymHFuncName[match.name]
           M == Matching(match, mask)
           hits == {k \in DOMAIN Chain(b) : SymKeyCmpName(match, standTbl[Chain(b)[k]], mask)}
<1>1. b \in Buckets
  BY SymTabAssumption DEF Buckets
<1>2. Chain(b) = c[b] /\ c[b] \in Seq(Nodes) /\ List!Ends(b)
  BY <1>1, ChainsHold DEF Holds, Filed
<1>3. /\ added \in Seq(Nodes) /\ Len(added) \in Nat /\ DOMAIN added = 1 .. Len(added)
      /\ Len(c[b]) \in Nat /\ DOMAIN c[b] = 1 .. Len(c[b])
      /\ \A p \in 1 .. Len(added) : added[p] \in Nat
      /\ \A k \in 1 .. Len(c[b]) : c[b][k] \in Nat
  <2>1. added \in Seq(Nodes) /\ c[b] \in Seq(Nodes) /\ Nodes \subseteq Nat
    BY <1>2 DEF Typed, Nodes
  <2> HIDE DEF b
  <2>2. ASSUME NEW s \in Seq(Nodes)
        PROVE  /\ Len(s) \in Nat /\ DOMAIN s = 1 .. Len(s)
               /\ \A k \in 1 .. Len(s) : s[k] \in Nat
    <3>1. Len(s) \in Nat /\ DOMAIN s = 1 .. Len(s)
      OBVIOUS
    <3>2. \A k \in 1 .. Len(s) : s[k] \in Nodes
      OBVIOUS
    <3>. QED
      BY <2>1, <3>1, <3>2
  <2>. QED
    BY <2>1, <2>2
<1>4. HashTblFind(match, mask)
        = IF hits # {} THEN Chain(b)[Min(hits)] ELSE IF List!Ends(b) THEN NULL ELSE Diverges
  BY DEF HashTblFind
<1>5. hits = {k \in 1 .. Len(c[b]) : SymKeyCmpName(match, standTbl[c[b][k]], mask)}
  BY <1>2, <1>3
<1>6. M = {p \in 1 .. Len(added) : SymKeyCmpName(match, standTbl[added[p]], mask)}
  BY <1>3 DEF Matching
<1> HIDE DEF b, M, hits
<1>7. \A k \in hits : \E p \in M : added[p] = c[b][k]
  <2>1. TAKE k \in hits
  <2>2. k \in 1 .. Len(c[b]) /\ SymKeyCmpName(match, standTbl[c[b][k]], mask)
    BY <1>5
  <2>3. PICK p \in 1 .. Len(added) : added[p] = c[b][k]
    BY <1>1, <2>2 DEF Holds, Filed
  <2>. QED
    BY <1>6, <2>2, <2>3
<1>8. \A p \in M : \E k \in hits : c[b][k] = added[p]
  <2>1. TAKE p \in M
  <2>2. p \in 1 .. Len(added) /\ SymKeyCmpName(match, standTbl[added[p]], mask)
    BY <1>6
  <2>3. Hash(added[p]) = b
    BY <2>2 DEF Hash, SymKeyCmpName, b
  <2>4. PICK k \in 1 .. Len(c[b]) : c[b][k] = added[p]
    BY <2>2, <2>3 DEF Holds, Filed
  <2>. QED
    BY <1>5, <2>2, <2>4
<1>9. CASE M = {}
  <2>1. hits = {}
    BY <1>7, <1>9
  <2>. QED
    BY <1>2, <1>4, <1>9, <2>1 DEF M
<1>10. CASE M # {}
  <2> DEFINE m == Max(M)
             h == Min(hits)
  <2>1. m \in M /\ \A p \in M : p <= m
    BY <1>3, <1>6, <1>10, MaxIs
  <2>2. h \in hits /\ \A k \in hits : h <= k
    <3>1. hits # {} /\ hits \in SUBSET (1 .. Len(c[b]))
      BY <1>5, <1>8, <1>10
    <3>. QED
      BY <1>3, <3>1, MinIs
  <2> HIDE DEF m, h
  <2>3. PICK p \in M : added[p] = c[b][h]
    BY <1>7, <2>2
  <2>4. PICK k \in hits : c[b][k] = added[m]
    BY <1>8, <2>1
  <2>5. h <= k /\ h \in 1 .. Len(c[b]) /\ k \in 1 .. Len(c[b])
    BY <1>5, <2>2, <2>4
  <2>6. c[b][h] >= c[b][k]
    <3>1. CASE h = k
      BY <1>3, <2>5, <3>1
    <3>2. CASE h < k
      <4>1. c[b][h] > c[b][k]
        BY <1>1, <2>5, <3>2 DEF Holds, Filed
      <4>. QED
        BY <1>3, <2>5, <4>1
    <3>. QED
      BY <2>5, <3>1, <3>2
  <2>7. p <= m /\ p \in 1 .. Len(added) /\ m \in 1 .. Len(added)
    BY <1>6, <2>1, <2>3
  <2>8. p = m
    <3>1. p < m => added[p] < added[m]
      BY <2>7 DEF Ascending
    <3>2. added[p] >= added[m]
      BY <2>3, <2>4, <2>6
    <3>3. added[p] \in Nat /\ added[m] \in Nat
      BY <1>3, <2>7
    <3>. QED
      BY <2>7, <3>1, <3>2, <3>3
  <2>9. HashTblFind(match, mask) = added[m]
    BY <1>2, <1>4, <2>2, <2>3, <2>8 DEF h
  <2>. QED
    BY <1>10, <2>9 DEF m, M
<1>. QED
  BY <1>9, <1>10

(***************************************************************************)
(* With a mask of all bits a symbol is found if and only if one of the     *)
(* same name and type was added.                                           *)
(***************************************************************************)
LEMMA NoMatchNoClash ==
    ASSUME Typed, Ascending, NEW c, Holds(c), NEW n \in Nodes,
           HashTblFind(standTbl[n], "all") = NULL
    PROVE  \A p \in 1 .. Len(added) : \/ standTbl[added[p]].name # standTbl[n].name
                                      \/ standTbl[added[p]].type # standTbl[n].type
<1> DEFINE M == Matching(standTbl[n], "all")
<1>1. /\ standTbl[n].name \in Names /\ added \in Seq(Nodes)
      /\ DOMAIN added = 1 .. Len(added) /\ Len(added) \in Nat
  BY SymTabAssumption DEF Typed
<1>2. M \in SUBSET (1 .. Len(added))
  BY <1>1 DEF Matching
<1>3. HashTblFind(standTbl[n], "all") = IF M = {} THEN NULL ELSE added[Max(M)]
  BY <1>1, FindsLatest
<1>4. M = {}
  <2>. SUFFICES ASSUME M # {} PROVE FALSE
    OBVIOUS
  <2> HIDE DEF M
  <2>1. Max(M) \in 1 .. Len(added)
    BY <1>1, <1>2, MaxIs
  <2>2. added[Max(M)] \in Nodes
    BY <1>1, <2>1
  <2>. QED
    BY <1>3, <2>2, SllAssumed
<1>. QED
  BY <1>1, <1>4 DEF Matching, SymKeyCmpName, TypeMatches

------------------------------------------------------------------------------
LEMMA EmptyHolds ==
    ASSUME NEW next0, next = next0, next0 \in [Nodes -> Nodes \union {NULL}],
           head = [b \in Buckets |-> NULL], tail = [b \in Buckets |-> NULL], added = <<>>
    PROVE  Holds([b \in Buckets |-> <<>>])
  BY SllAssumed DEF Holds, Filed, LP!Known, LP!TypeOK, LP!Hang, LP!Linked, LP!Apart, LP!Pointer

LEMMA InitIInv == Init => IInv
<1>. SUFFICES ASSUME Init PROVE IInv
  OBVIOUS
<1>1. Typed
  BY SymTabAssumption DEF Init, Typed
<1>2. Holds([b \in Buckets |-> <<>>])
  BY EmptyHolds DEF Init
<1>. QED
  BY <1>1, <1>2 DEF Init, IInv, Ascending, NoClash

LEMMA SymTableInitIInv ==
    ASSUME IInv, SymTableInit
    PROVE  IInv'
<1>1. PICK c : Holds(c)
  BY DEF IInv
<1>2. UNCHANGED <<standTbl, sameNameOk, next>>
  BY DEF SymTableInit, SymTblCreate, table
<1>3. CASE /\ sysSymTbl' = "up" /\ nsymbols' = 0 /\ ix' = 1 /\ added' = <<>>
           /\ head' = [b \in Buckets |-> NULL] /\ tail' = [b \in Buckets |-> NULL]
  <2>1. Typed'
    BY <1>2, <1>3, SymTabAssumption DEF IInv, Typed
  <2>2. Holds([b \in Buckets |-> <<>>])'
    BY <1>1, <1>2, <1>3, SllAssumed
       DEF Holds, Filed, LP!Known, LP!TypeOK, LP!Hang, LP!Linked, LP!Apart, LP!Pointer
  <2>. QED
    BY <1>3, <2>1, <2>2 DEF IInv, Ascending, NoClash
<1>4. CASE sysSymTbl' = "lost" /\ UNCHANGED <<table, nsymbols, ix, added>>
  <2>1. Typed' /\ Ascending' /\ NoClash'
    BY <1>2, <1>4 DEF IInv, Typed, Ascending, NoClash
  <2>2. Holds(c)'
    BY <1>1, <1>2, <1>4 DEF Holds, Filed, LP!Known, LP!TypeOK, table, Hash
  <2>. QED
    BY <2>1, <2>2 DEF IInv
<1>. QED
  BY <1>3, <1>4 DEF SymTableInit, SymTblCreate

LEMMA AddedIs ==
    ASSUME Typed, added' = Append(added, ix), ix \in Nodes
    PROVE  /\ Len(added') = Len(added) + 1 /\ added' \in Seq(Nodes) /\ Len(added) \in Nat
           /\ added'[Len(added) + 1] = ix
           /\ \A p \in 1 .. Len(added) : added'[p] = added[p]
           /\ \A p \in 1 .. Len(added') : p \in 1 .. Len(added) \/ p = Len(added) + 1
<1>1. added \in Seq(Nodes)
  BY DEF Typed
<1>. QED
  BY <1>1

\* The next symbol of the array, in front of its bucket.
LEMMA PutFiled ==
    ASSUME Typed, Ascending, NEW c, c \in [Buckets -> Seq(Nodes)], Filed(c, added),
           ix \in Nodes, NEW s,
           Len(s) = Len(added) + 1, s[Len(added) + 1] = ix,
           \A p \in 1 .. Len(added) : s[p] = added[p]
    PROVE  Filed([c EXCEPT ![Hash(ix)] = <<ix>> \o c[Hash(ix)]], s)
<1> DEFINE b == Hash(ix)
           r == <<ix>> \o c[b]
           d == [c EXCEPT ![b] = r]
<1>1. /\ ix \in Nat /\ Len(added) \in Nat
      /\ \A n \in Nodes : Hash(n) \in Buckets
      /\ \A p \in 1 .. Len(added) : added[p] \in Nodes
  <2>1. added \in Seq(Nodes) /\ standTbl \in [Nodes -> Symbols]
    BY DEF Typed
  <2>2. \A n \in Nodes : Hash(n) \in Buckets
    BY <2>1, SymTabAssumption DEF Hash, Buckets
  <2>3. Len(added) \in Nat /\ \A p \in 1 .. Len(added) : added[p] \in Nodes
    BY <2>1
  <2>. QED
    BY <2>2, <2>3 DEF Nodes
<1>2. \A a \in Buckets : \A j \in 1 .. Len(c[a]) : c[a][j] < ix
  BY DEF Filed, Ascending
<1>3. b \in Buckets /\ c[b] \in Seq(Nodes)
  BY <1>1
<1> HIDE DEF b
<1>4. /\ d[b] = r /\ \A a \in Buckets \ {b} : d[a] = c[a]
      /\ r[1] = ix /\ Len(r) = Len(c[b]) + 1 /\ Len(c[b]) \in Nat
      /\ \A j \in 1 .. Len(c[b]) : r[j + 1] = c[b][j] /\ c[b][j] \in Nat
  <2>1. d[b] = r /\ \A a \in Buckets \ {b} : d[a] = c[a]
    BY <1>3
  <2>2. c[b] \in Seq(Nodes) /\ Nodes \subseteq Nat
    BY <1>3 DEF Nodes
  <2>3. /\ r[1] = ix /\ Len(r) = Len(c[b]) + 1 /\ Len(c[b]) \in Nat
        /\ \A j \in 1 .. Len(c[b]) : r[j + 1] = c[b][j] /\ c[b][j] \in Nodes
    BY <2>2
  <2>. QED
    BY <2>1, <2>2, <2>3
<1> HIDE DEF d, r
<1>5. \A j \in 1 .. Len(r) : j = 1 \/ (j - 1 \in 1 .. Len(c[b]) /\ r[j] = c[b][j - 1])
  <2>1. TAKE j \in 1 .. Len(r)
  <2>2. j # 1 => j - 1 \in 1 .. Len(c[b]) /\ j - 1 + 1 = j
    BY <1>4
  <2>. QED
    BY <1>4, <2>2
<1>6. /\ \A p \in 1 .. Len(added) : p \in 1 .. Len(s)
      /\ Len(added) + 1 \in 1 .. Len(s)
      /\ \A p \in 1 .. Len(s) : p \in 1 .. Len(added) \/ p = Len(added) + 1
  BY <1>1
<1>7. \A p \in 1 .. Len(added) : \E q \in 1 .. Len(s) : s[q] = added[p]
  BY <1>6
<1>8. ASSUME NEW a \in Buckets, NEW j \in 1 .. Len(d[a]), NEW k \in 1 .. Len(d[a]), j < k
      PROVE  d[a][j] > d[a][k]
  <2>1. CASE a # b
    BY <1>4, <1>8, <2>1 DEF Filed
  <2>2. CASE a = b
    <3>1. j \in 1 .. Len(r) /\ k \in 1 .. Len(r) /\ d[a] = r
      BY <1>4, <2>2
    <3>2. k - 1 \in 1 .. Len(c[b]) /\ r[k] = c[b][k - 1]
      BY <1>4, <1>5, <1>8, <3>1
    <3>3. CASE j = 1
      <4>1. c[b][k - 1] < ix /\ c[b][k - 1] \in Nat
        BY <1>2, <1>3, <1>4, <3>2
      <4>. QED
        BY <1>1, <1>4, <3>1, <3>2, <3>3, <4>1
    <3>4. CASE j # 1
      <4>1. j - 1 \in 1 .. Len(c[b]) /\ r[j] = c[b][j - 1]
        BY <1>5, <3>1, <3>4
      <4>2. j - 1 < k - 1
        BY <1>4, <1>8, <3>1
      <4>3. c[b][j - 1] > c[b][k - 1]
        BY <1>3, <3>2, <4>1, <4>2 DEF Filed
      <4>. QED
        BY <3>1, <3>2, <4>1, <4>3
    <3>. QED
      BY <3>3, <3>4
  <2>. QED
    BY <2>1, <2>2
<1>9. ASSUME NEW a \in Buckets, NEW j \in 1 .. Len(d[a])
      PROVE  Hash(d[a][j]) = a /\ \E p \in 1 .. Len(s) : s[p] = d[a][j]
  <2>1. CASE a # b
    <3>1. Hash(c[a][j]) = a /\ \E p \in 1 .. Len(added) : added[p] = c[a][j]
      BY <1>4, <2>1 DEF Filed
    <3>. QED
      BY <1>4, <1>7, <2>1, <3>1
  <2>2. CASE a = b /\ j = 1
    <3>1. d[a][j] = ix /\ Hash(ix) = a
      BY <1>4, <2>2 DEF b
    <3>. QED
      BY <1>6, <3>1
  <2>3. CASE a = b /\ j # 1
    <3>1. j - 1 \in 1 .. Len(c[b]) /\ d[a][j] = c[b][j - 1]
      BY <1>4, <1>5, <2>3
    <3>2. Hash(c[b][j - 1]) = b /\ \E p \in 1 .. Len(added) : added[p] = c[b][j - 1]
      BY <1>3, <3>1 DEF Filed
    <3>. QED
      BY <1>7, <2>3, <3>1, <3>2
  <2>. QED
    BY <2>1, <2>2, <2>3
<1>10. ASSUME NEW p \in 1 .. Len(s)
       PROVE  \E j \in 1 .. Len(d[Hash(s[p])]) : d[Hash(s[p])][j] = s[p]
  <2>1. CASE p = Len(added) + 1
    <3>1. s[p] = ix /\ Hash(s[p]) = b
      BY <2>1 DEF b
    <3>2. 1 \in 1 .. Len(r)
      BY <1>4
    <3>. QED
      BY <1>4, <3>1, <3>2
  <2>2. CASE p \in 1 .. Len(added)
    <3> DEFINE a == Hash(added[p])
    <3>1. PICK j \in 1 .. Len(c[a]) : c[a][j] = added[p]
      BY <2>2 DEF Filed
    <3>2. s[p] = added[p] /\ Hash(s[p]) = a /\ a \in Buckets
      BY <1>1, <2>2
    <3> HIDE DEF a
    <3>3. CASE a = b
      <4>1. j + 1 \in 1 .. Len(r) /\ r[j + 1] = added[p]
        BY <1>4, <3>1, <3>3
      <4>2. d[Hash(s[p])] = r
        BY <1>4, <3>2, <3>3
      <4>. QED
        BY <3>2, <4>1, <4>2
    <3>4. CASE a # b
      BY <1>4, <3>1, <3>2, <3>4
    <3>. QED
      BY <3>3, <3>4
  <2>. QED
    BY <1>6, <2>1, <2>2
<1>11. Filed(d, s)
  BY <1>8, <1>9, <1>10 DEF Filed
<1>. QED
  BY <1>11 DEF d, r, b

LEMMA PutHolds ==
    ASSUME Typed, Ascending, NEW c, Holds(c), ix \in Nodes, HashTblPut(ix),
           added' = Append(added, ix), UNCHANGED standTbl
    PROVE  \E d : Holds(d)'
<1>1. PICK d : d = [c EXCEPT ![Hash(ix)] = <<ix>> \o c[Hash(ix)]]
  OBVIOUS
<1>2. Hash(ix) \in Buckets /\ ix \in Nat
  BY SymTabAssumption DEF Typed, Hash, Buckets, Nodes
<1>3. c \in [Buckets -> Seq(Nodes)] /\ LP!Known(c) /\ Filed(c, added)
  BY DEF Holds, LP!Known, LP!Hang
<1>4. LP!Unlinked(ix)
  <2>1. \A a \in Buckets : \A j \in 1 .. Len(c[a]) : c[a][j] # ix
    <3>1. TAKE a \in Buckets
    <3>2. TAKE j \in 1 .. Len(c[a])
    <3>3. \E p \in 1 .. Len(added) : added[p] = c[a][j]
      BY <1>3 DEF Filed
    <3>4. c[a][j] < ix
      BY <3>3 DEF Ascending
    <3>. QED
      BY <1>2, <3>4
  <2>. QED
    BY <1>3, <2>1, SllAssumed, LP!UnlinkedIs
<1>5. LP!SllPutAtHead(Hash(ix), ix)
  BY DEF HashTblPut, List!SllPutAtHead, LP!SllPutAtHead, Hash
<1>6. LP!TypeOK' /\ LP!Hang(d, head', tail', next')
  BY <1>1, <1>2, <1>3, <1>4, <1>5, SllAssumed, LP!PutAtHeadKeeps
<1>7. LP!Known(d)'
  BY <1>6 DEF LP!Known
<1>8. Filed(d, added')
  BY <1>1, <1>3, AddedIs, PutFiled
<1>9. Filed(d, added)'
  BY <1>8 DEF Filed, Hash
<1>. QED
  BY <1>7, <1>9 DEF Holds
LEMMA AddedBelow ==
    ASSUME Typed, Ascending
    PROVE  \A p \in 1 .. Len(added) : added[p] \in Nat /\ added[p] < ix
<1>1. added \in Seq(Nodes) /\ Nodes \subseteq Nat
  BY DEF Typed, Nodes
<1>2. \A p \in 1 .. Len(added) : added[p] \in Nodes
  BY <1>1
<1>. QED
  BY <1>1, <1>2 DEF Ascending

\* A round of the loop: the symbol is put, or refused for a clash.
LEMMA UsrStandaloneInitIInv ==
    ASSUME IInv, UsrStandaloneInit
    PROVE  IInv'
<1> DEFINE clash == IF sameNameOk THEN NULL ELSE HashTblFind(standTbl[ix], "all")
<1>1. PICK c : Holds(c)
  BY DEF IInv
<1>2. /\ Typed /\ Ascending /\ NoClash /\ ix \in Nodes
      /\ ix' = ix + 1 /\ UNCHANGED <<standTbl, sameNameOk, sysSymTbl>>
  BY SymTabAssumption DEF IInv, UsrStandaloneInit, Idle, Typed, Nodes
<1>3. CASE clash # NULL
  <2>1. UNCHANGED <<table, nsymbols, added>>
    BY <1>3 DEF UsrStandaloneInit, SymTblAdd
  <2>2. Typed'
    BY <1>2, <2>1, SymTabAssumption DEF Typed, Nodes
  <2>3. \A p \in 1 .. Len(added) : added[p] \in Nat /\ added[p] < ix
    BY <1>2, AddedBelow
  <2>4. \A p \in 1 .. Len(added) : added[p] < ix + 1
    BY <1>2, <2>3 DEF Nodes
  <2>5. Ascending' /\ NoClash'
    BY <1>2, <2>1, <2>4 DEF Ascending, NoClash
  <2>6. Holds(c)'
    BY <1>1, <1>2, <2>1 DEF Holds, Filed, LP!Known, LP!TypeOK, table, Hash
  <2>. QED
    BY <2>2, <2>5, <2>6 DEF IInv
<1>4. CASE clash = NULL
  <2>1. HashTblPut(ix) /\ nsymbols' = nsymbols + 1 /\ added' = Append(added, ix)
    BY <1>4 DEF UsrStandaloneInit, SymTblAdd
  <2>2. /\ Len(added') = Len(added) + 1 /\ added' \in Seq(Nodes) /\ Len(added) \in Nat
        /\ added'[Len(added) + 1] = ix
        /\ \A p \in 1 .. Len(added) : added'[p] = added[p]
        /\ \A p \in 1 .. Len(added') : p \in 1 .. Len(added) \/ p = Len(added) + 1
    BY <1>2, <2>1, AddedIs
  <2>3. Typed'
    BY <1>2, <2>1, <2>2, SymTabAssumption DEF Typed, Nodes
  <2>4. \A p \in 1 .. Len(added) : added[p] \in Nat /\ added[p] < ix
    BY <1>2, AddedBelow
  <2>5. Ascending'
    <3>1. ASSUME NEW p \in 1 .. Len(added'), NEW q \in 1 .. Len(added'), p < q
          PROVE  added'[p] < added'[q]
      <4>1. p \in 1 .. Len(added)
        BY <2>2, <3>1
      <4>2. CASE q \in 1 .. Len(added)
        BY <1>2, <2>2, <3>1, <4>1, <4>2 DEF Ascending
      <4>3. CASE q = Len(added) + 1
        BY <2>2, <2>4, <4>1, <4>3
      <4>. QED
        BY <2>2, <4>2, <4>3
    <3>2. ASSUME NEW p \in 1 .. Len(added') PROVE added'[p] < ix'
      BY <1>2, <2>2, <2>4 DEF Nodes
    <3>. QED
      BY <3>1, <3>2 DEF Ascending
  <2>6. NoClash'
    <3>. SUFFICES ASSUME ~sameNameOk,
                         NEW j \in 1 .. Len(added'), NEW k \in 1 .. Len(added'), j # k
                  PROVE  \/ standTbl[added'[j]].name # standTbl[added'[k]].name
                         \/ standTbl[added'[j]].type # standTbl[added'[k]].type
      BY <1>2, <2>2 DEF NoClash
    <3>1. \A p \in 1 .. Len(added) : \/ standTbl[added[p]].name # standTbl[ix].name
                                       \/ standTbl[added[p]].type # standTbl[ix].type
      BY <1>1, <1>2, <1>4, NoMatchNoClash
    <3>2. CASE j \in 1 .. Len(added) /\ k \in 1 .. Len(added)
      <4>1. DOMAIN added = 1 .. Len(added)
        BY <1>2 DEF Typed
      <4>. QED
        BY <1>2, <2>2, <3>2, <4>1 DEF NoClash
    <3>3. CASE j = Len(added) + 1 \/ k = Len(added) + 1
      BY <2>2, <3>1, <3>3
    <3>. QED
      BY <2>2, <3>2, <3>3
  <2>7. \E d : Holds(d)'
    BY <1>1, <1>2, <2>1, PutHolds
  <2>. QED
    BY <2>3, <2>5, <2>6, <2>7 DEF IInv
<1>. QED
  BY <1>3, <1>4

(***************************************************************************)
(* The invariant holds in every state of the table.                        *)
(***************************************************************************)
THEOREM TableInvariant == Spec => []IInv
<1>1. IInv /\ Next => IInv'
  BY SymTableInitIInv, UsrStandaloneInitIInv DEF Next
<1>2. IInv /\ UNCHANGED vars => IInv'
  <2>. SUFFICES ASSUME IInv, UNCHANGED vars PROVE IInv'
    OBVIOUS
  <2>1. PICK c : Holds(c)
    BY DEF IInv
  <2>2. Holds(c)'
    BY <2>1 DEF Holds, Filed, LP!Known, LP!TypeOK, Hash, vars
  <2>. QED
    BY <2>2 DEF IInv, Typed, Ascending, NoClash, vars
<1>. QED
  BY <1>1, <1>2, InitIInv, PTL DEF Spec

(***************************************************************************)
(* The count of symbols never exceeds the array, and heads, tails and next *)
(* pointers are symbols of it or NULL, whatever tables were there before.  *)
(***************************************************************************)
THEOREM TableTypeOK == Spec => []TypeOK
<1>1. IInv => TypeOK
  <2>. SUFFICES ASSUME IInv PROVE TypeOK
    OBVIOUS
  <2>1. /\ head \in [Buckets -> Nodes \union {NULL}] /\ tail \in [Buckets -> Nodes \union {NULL}]
        /\ next \in [Nodes -> Nodes \union {NULL}]
    BY DEF IInv, Holds, LP!Known, LP!TypeOK, LP!Pointer
  <2>2. nsymbols \in 0 .. StandTblSize
    BY SymTabAssumption DEF IInv, Typed
  <2>. QED
    BY <2>1, <2>2 DEF IInv, Typed, TypeOK
<1>. QED
  BY <1>1, TableInvariant, PTL

(***************************************************************************)
(* Each bucket holds what was added under its hash value, the latest       *)
(* first, and nothing of the table before.                                 *)
(***************************************************************************)
THEOREM BucketsStayStacks == Spec => []BucketsAreStacks
<1>1. IInv => BucketsAreStacks
  <2>. SUFFICES ASSUME IInv, NEW b \in Buckets
                PROVE  /\ List!Ends(b)
                       /\ ToSet(Chain(b)) = {n \in ToSet(added) : Hash(n) = b}
                       /\ \A j, k \in DOMAIN Chain(b), p, q \in DOMAIN added :
                             j < k /\ added[p] = Chain(b)[j] /\ added[q] = Chain(b)[k] => p > q
                       /\ tail[b] = IF Chain(b) = <<>> THEN NULL ELSE Last(Chain(b))
    BY DEF BucketsAreStacks, Hash
  <2>1. PICK c : Holds(c)
    BY DEF IInv
  <2>2. /\ Chain(b) = c[b] /\ c[b] \in Seq(Nodes) /\ List!Ends(b)
        /\ tail[b] = IF c[b] = <<>> THEN NULL ELSE c[b][Len(c[b])]
    BY <2>1, ChainsHold DEF Holds
  <2>3. /\ DOMAIN added = 1 .. Len(added) /\ DOMAIN c[b] = 1 .. Len(c[b])
        /\ Len(added) \in Nat /\ \A p \in 1 .. Len(added) : added[p] \in Nodes
    BY <2>2 DEF IInv, Typed
  <2>4. ToSet(c[b]) = {n \in ToSet(added) : Hash(n) = b}
    <3>1. ASSUME NEW n \in ToSet(c[b]) PROVE n \in ToSet(added) /\ Hash(n) = b
      <4>1. PICK j \in 1 .. Len(c[b]) : c[b][j] = n
        BY <2>3 DEF ToSet
      <4>2. Hash(c[b][j]) = b /\ \E p \in 1 .. Len(added) : added[p] = c[b][j]
        BY <2>1, <4>1 DEF Holds, Filed
      <4>. QED
        BY <2>3, <4>1, <4>2 DEF ToSet
    <3>2. ASSUME NEW n \in ToSet(added), Hash(n) = b PROVE n \in ToSet(c[b])
      <4>1. PICK p \in 1 .. Len(added) : added[p] = n
        BY <2>3 DEF ToSet
      <4>2. \E j \in 1 .. Len(c[b]) : c[b][j] = n
        BY <2>1, <3>2, <4>1 DEF Holds, Filed
      <4>. QED
        BY <2>3, <4>2 DEF ToSet
    <3>. QED
      BY <3>1, <3>2
  <2>5. ASSUME NEW j \in 1 .. Len(c[b]), NEW k \in 1 .. Len(c[b]),
               NEW p \in 1 .. Len(added), NEW q \in 1 .. Len(added),
               j < k, added[p] = c[b][j], added[q] = c[b][k]
        PROVE  p > q
    <3>1. added[p] > added[q]
      BY <2>1, <2>5 DEF Holds, Filed
    <3>2. added[p] \in Nat /\ added[q] \in Nat
      BY <2>3 DEF Nodes
    <3>3. p < q => added[p] < added[q]
      BY DEF IInv, Ascending
    <3>. QED
      BY <2>3, <3>1, <3>2, <3>3
  <2>6. Last(c[b]) = c[b][Len(c[b])]
    BY DEF Last
  <2>. QED
    BY <2>2, <2>3, <2>4, <2>5, <2>6
<1>. QED
  BY <1>1, TableInvariant, PTL

(***************************************************************************)
(* A name is answered with the latest symbol added under it, and not found *)
(* only if there is none, for any array and any hash function.             *)
(***************************************************************************)
THEOREM NamesFoundLatest == Spec => []LookupIsNewest
<1>1. IInv => LookupIsNewest
  <2>. SUFFICES ASSUME IInv, NEW name \in Names, NEW type \in Types, NEW mask \in Keys
                PROVE  LET matching == {k \in DOMAIN added :
                                          /\ standTbl[added[k]].name = name
                                          /\ mask = "all" => standTbl[added[k]].type = type}
                       IN SymFindByName(name, type, mask)
                            = IF matching = {} THEN NULL ELSE added[Max(matching)]
    BY DEF LookupIsNewest
  <2> DEFINE match == [name |-> name, type |-> type]
             matching == {k \in DOMAIN added :
                            /\ standTbl[added[k]].name = name
                            /\ mask = "all" => standTbl[added[k]].type = type}
  <2>1. PICK c : Holds(c)
    BY DEF IInv
  <2>2. Matching(match, mask) = matching
    BY DEF Matching, SymKeyCmpName, TypeMatches
  <2>3. HashTblFind(match, mask)
          = IF Matching(match, mask) = {} THEN NULL ELSE added[Max(Matching(match, mask))]
    BY <2>1, FindsLatest DEF IInv
  <2>. QED
    BY <2>2, <2>3 DEF SymFindByName
<1>. QED
  BY <1>1, TableInvariant, PTL

(***************************************************************************)
(* A table that refuses clashes holds none, however often it is created    *)
(* anew and filled.                                                        *)
(***************************************************************************)
THEOREM ClashesRefused == Spec => []NoClash
<1>1. IInv => NoClash
  BY DEF IInv
<1>. QED
  BY <1>1, TableInvariant, PTL

------------------------------------------------------------------------------
(***************************************************************************)
(* Values.  A value that is computed step by step exists: step[<<k, s>>]   *)
(* is what the k-th step makes of s.                                       *)
(***************************************************************************)
Runs(S, n, init, step, f) ==
    /\ f \in [0 .. n -> S]
    /\ f[0] = init
    /\ \A k \in 1 .. n : f[k] = step[<<k, f[k - 1]>>]

LEMMA RunExists ==
    ASSUME NEW S, NEW N \in Nat, NEW init \in S, NEW step \in [(1 .. N) \X S -> S]
    PROVE  \E f : Runs(S, N, init, step, f)
<1> DEFINE Bad == {n \in 0 .. N : ~\E f : Runs(S, n, init, step, f)}
<1> SUFFICES ASSUME Bad # {} PROVE FALSE
  OBVIOUS
<1>1. Bad \in SUBSET Nat
  OBVIOUS
<1>2. PICK n \in Bad : \A m \in Bad : n <= m
  <2> HIDE DEF Bad
  <2>. QED
    BY <1>1, SllAssumed, LP!LeastCase
<1>3. n # 0
  <2>1. Runs(S, 0, init, step, [k \in 0 .. 0 |-> init])
    BY DEF Runs
  <2>. QED
    BY <1>2, <2>1
<1>4. n \in 1 .. N /\ n - 1 \in 0 .. N /\ n - 1 \notin Bad
  BY <1>2, <1>3
<1>5. PICK f : Runs(S, n - 1, init, step, f)
  BY <1>4
<1> DEFINE g == [k \in 0 .. n |-> IF k = n THEN step[<<n, f[n - 1]>>] ELSE f[k]]
<1>6. f \in [0 .. n - 1 -> S] /\ f[n - 1] \in S
  BY <1>4, <1>5 DEF Runs
<1>7. step[<<n, f[n - 1]>>] \in S
  BY <1>4, <1>6
<1>8. g \in [0 .. n -> S]
  <2>1. \A k \in 0 .. n : k # n => k \in 0 .. n - 1
    BY <1>4
  <2>. QED
    BY <1>6, <1>7, <2>1
<1>9. g[0] = init
  BY <1>4, <1>5 DEF Runs
<1>10. ASSUME NEW k \in 1 .. n PROVE g[k] = step[<<k, g[k - 1]>>]
  <2>1. k \in 0 .. n /\ k - 1 \in 0 .. n /\ k - 1 # n
    BY <1>4
  <2>2. g[k - 1] = f[k - 1]
    BY <2>1
  <2>3. CASE k = n
    BY <2>1, <2>2, <2>3
  <2>4. CASE k # n
    <3>1. k \in 1 .. n - 1
      BY <1>4, <2>4
    <3>2. g[k] = f[k]
      BY <2>1, <2>4
    <3>3. f[k] = step[<<k, f[k - 1]>>]
      BY <1>5, <3>1 DEF Runs
    <3>. QED
      BY <2>2, <3>2, <3>3
  <2>. QED
    BY <2>3, <2>4
<1> HIDE DEF g
<1>11. Runs(S, n, init, step, g)
  BY <1>8, <1>9, <1>10 DEF Runs
<1>. QED
  BY <1>2, <1>11

\* The buckets one after the other, up to bucket b.
UpTo ==
    CHOOSE upTo : upTo = [b \in 0 .. Elements |->
                             IF b = 0 THEN <<>> ELSE upTo[b - 1] \o Chain(b - 1)]

LEMMA TableOrderIs == TableOrder = UpTo[Elements]
BY DEF TableOrder, UpTo

LEMMA UpToIs ==
    ASSUME \A b \in Buckets : Chain(b) \in Seq(Nodes)
    PROVE  /\ \A b \in 0 .. Elements : UpTo[b] \in Seq(Nodes)
           /\ UpTo[0] = <<>>
           /\ \A b \in 1 .. Elements : UpTo[b] = UpTo[b - 1] \o Chain(b - 1)
<1> DEFINE step == [x \in (1 .. Elements) \X Seq(Nodes) |-> x[2] \o Chain(x[1] - 1)]
           IsIt(f) == f = [b \in 0 .. Elements |->
                              IF b = 0 THEN <<>> ELSE f[b - 1] \o Chain(b - 1)]
<1>1. Elements \in Nat /\ \A b \in 1 .. Elements : b - 1 \in Buckets
  BY SymTabAssumption DEF Buckets
<1>2. step \in [(1 .. Elements) \X Seq(Nodes) -> Seq(Nodes)]
  <2> SUFFICES ASSUME NEW x \in (1 .. Elements) \X Seq(Nodes)
               PROVE  x[2] \o Chain(x[1] - 1) \in Seq(Nodes)
    OBVIOUS
  <2>1. x[2] \in Seq(Nodes) /\ Chain(x[1] - 1) \in Seq(Nodes)
    BY <1>1
  <2>. QED
    BY <2>1, ConcatProperties
<1>3. <<>> \in Seq(Nodes)
  OBVIOUS
<1>4. PICK f : Runs(Seq(Nodes), Elements, <<>>, step, f)
  <2> HIDE DEF step
  <2>. QED
    BY <1>1, <1>2, <1>3, RunExists
<1>5. /\ f \in [0 .. Elements -> Seq(Nodes)] /\ f[0] = <<>>
      /\ \A b \in 1 .. Elements : f[b] = f[b - 1] \o Chain(b - 1)
  <2>1. f \in [0 .. Elements -> Seq(Nodes)] /\ f[0] = <<>>
    BY <1>4 DEF Runs
  <2>2. ASSUME NEW b \in 1 .. Elements PROVE f[b] = f[b - 1] \o Chain(b - 1)
    <3>1. f[b] = step[<<b, f[b - 1]>>]
      BY <1>4 DEF Runs
    <3>2. f[b - 1] \in Seq(Nodes)
      BY <1>1, <2>1
    <3>. QED
      BY <3>1, <3>2
  <2>. QED
    BY <2>1, <2>2
<1>6. IsIt(f)
  <2> DEFINE h == [b \in 0 .. Elements |-> IF b = 0 THEN <<>> ELSE f[b - 1] \o Chain(b - 1)]
  <2>1. ASSUME NEW b \in 0 .. Elements PROVE f[b] = h[b]
    <3>1. CASE b = 0
      BY <1>5, <3>1
    <3>2. CASE b # 0
      <4>1. b \in 1 .. Elements
        BY <1>1, <3>2
      <4>. QED
        BY <1>5, <3>2, <4>1
    <3>. QED
      BY <3>1, <3>2
  <2>. QED
    BY <1>5, <2>1
<1> DEFINE u == CHOOSE g : IsIt(g)
<1>7. IsIt(u)
  BY <1>6
<1>8. UpTo = u
  BY DEF UpTo
<1> HIDE DEF u
<1>9. /\ UpTo[0] = <<>>
      /\ \A b \in 1 .. Elements : UpTo[b] = UpTo[b - 1] \o Chain(b - 1)
  <2>1. 0 \in 0 .. Elements /\ \A b \in 1 .. Elements : b \in 0 .. Elements /\ b # 0
    BY <1>1
  <2>2. \A b \in 0 .. Elements : u[b] = IF b = 0 THEN <<>> ELSE u[b - 1] \o Chain(b - 1)
    BY <1>7, Zenon
  <2>. QED
    BY <1>8, <2>1, <2>2
<1>10. ASSUME NEW b0 \in 0 .. Elements, UpTo[b0] \notin Seq(Nodes) PROVE FALSE
  <2> DEFINE Bad == {b \in 0 .. Elements : UpTo[b] \notin Seq(Nodes)}
  <2>1. Bad \in SUBSET Nat /\ Bad # {}
    BY <1>10
  <2>2. PICK b \in Bad : \A d \in Bad : b <= d
    <3> HIDE DEF Bad
    <3>. QED
      BY <2>1, SllAssumed, LP!LeastCase
  <2>3. b # 0
    BY <1>3, <1>9, <2>2
  <2>4. b \in 1 .. Elements /\ b - 1 \in 0 .. Elements /\ b - 1 \notin Bad
    BY <1>1, <2>2, <2>3
  <2>5. UpTo[b - 1] \in Seq(Nodes) /\ Chain(b - 1) \in Seq(Nodes)
    BY <1>1, <2>4
  <2>6. UpTo[b] \in Seq(Nodes)
    BY <1>9, <2>4, <2>5, ConcatProperties
  <2>. QED
    BY <2>2, <2>6
<1>. QED
  BY <1>9, <1>10

Among(n, s) == \E k \in 1 .. Len(s) : s[k] = n

LEMMA AmongBoth ==
    ASSUME NEW s \in Seq(Nodes), NEW t \in Seq(Nodes), NEW n
    PROVE  Among(n, s \o t) <=> Among(n, s) \/ Among(n, t)
<1>1. /\ Len(s) \in Nat /\ Len(t) \in Nat /\ Len(s \o t) = Len(s) + Len(t)
      /\ \A k \in 1 .. Len(s) + Len(t) :
            (s \o t)[k] = IF k <= Len(s) THEN s[k] ELSE t[k - Len(s)]
  BY ConcatProperties
<1> DEFINE r == s \o t
<1> HIDE DEF r
<1>2. ASSUME NEW k \in 1 .. Len(r), r[k] = n PROVE Among(n, s) \/ Among(n, t)
  <2>1. CASE k <= Len(s)
    BY <1>1, <1>2, <2>1 DEF Among, r
  <2>2. CASE ~(k <= Len(s))
    <3>1. k - Len(s) \in 1 .. Len(t) /\ t[k - Len(s)] = n
      BY <1>1, <1>2, <2>2 DEF r
    <3>. QED
      BY <3>1 DEF Among
  <2>. QED
    BY <2>1, <2>2
<1>3. ASSUME NEW k \in 1 .. Len(s), s[k] = n PROVE Among(n, r)
  <2>1. k \in 1 .. Len(r) /\ r[k] = n
    BY <1>1, <1>3 DEF r
  <2>. QED
    BY <2>1 DEF Among
<1>4. ASSUME NEW k \in 1 .. Len(t), t[k] = n PROVE Among(n, r)
  <2>1. Len(s) + k \in 1 .. Len(r) /\ ~(Len(s) + k <= Len(s)) /\ (Len(s) + k) - Len(s) = k
    BY <1>1 DEF r
  <2>2. r[Len(s) + k] = n
    BY <1>1, <1>4, <2>1 DEF r
  <2>. QED
    BY <2>1, <2>2 DEF Among
<1>. QED
  BY <1>2, <1>3, <1>4 DEF Among, r

\* The buckets together hold what each of them holds.
LEMMA OrderHolds ==
    ASSUME \A b \in Buckets : Chain(b) \in Seq(Nodes), NEW n
    PROVE  /\ TableOrder \in Seq(Nodes)
           /\ Among(n, TableOrder) <=> \E b \in Buckets : Among(n, Chain(b))
<1> DEFINE Ok(b) == Among(n, UpTo[b]) <=> \E d \in 0 .. b - 1 : Among(n, Chain(d))
           Bad == {b \in 0 .. Elements : ~Ok(b)}
<1>1. /\ \A b \in 0 .. Elements : UpTo[b] \in Seq(Nodes)
      /\ UpTo[0] = <<>>
      /\ \A b \in 1 .. Elements : UpTo[b] = UpTo[b - 1] \o Chain(b - 1)
  BY UpToIs
<1>2. Elements \in Nat /\ Elements \in 0 .. Elements /\ Buckets = 0 .. Elements - 1
  BY SymTabAssumption DEF Buckets
<1>3. Ok(0)
  BY <1>1 DEF Among
<1>4. ASSUME NEW b \in 1 .. Elements, Ok(b - 1) PROVE Ok(b)
  <2>1. UpTo[b - 1] \in Seq(Nodes) /\ Chain(b - 1) \in Seq(Nodes) /\ b - 1 \in Nat
    BY <1>1, <1>2
  <2>2. Among(n, UpTo[b]) <=> Among(n, UpTo[b - 1]) \/ Among(n, Chain(b - 1))
    <3>1. UpTo[b] = UpTo[b - 1] \o Chain(b - 1)
      BY <1>1
    <3> HIDE DEF Ok
    <3>2. Among(n, UpTo[b - 1] \o Chain(b - 1))
             <=> Among(n, UpTo[b - 1]) \/ Among(n, Chain(b - 1))
      BY <2>1, AmongBoth
    <3>. QED
      BY <3>1, <3>2
  <2>3. \A d : d \in 0 .. b - 1 <=> d \in 0 .. (b - 1) - 1 \/ d = b - 1
    BY <2>1
  <2>. QED
    BY <1>4, <2>2, <2>3
<1> HIDE DEF Ok
<1>5. Bad = {}
  <2> SUFFICES ASSUME Bad # {} PROVE FALSE
    OBVIOUS
  <2>1. Bad \in SUBSET Nat
    OBVIOUS
  <2>2. PICK b \in Bad : \A d \in Bad : b <= d
    <3> HIDE DEF Bad
    <3>. QED
      BY <2>1, SllAssumed, LP!LeastCase
  <2>3. b \in 1 .. Elements /\ b - 1 \in 0 .. Elements /\ b - 1 \notin Bad
    BY <1>2, <1>3, <2>2
  <2>. QED
    BY <1>4, <2>2, <2>3
<1>6. Ok(Elements)
  BY <1>2, <1>5
<1>. QED
  BY <1>1, <1>2, <1>6, TableOrderIs DEF Ok

LEMMA OrderIsAdded ==
    ASSUME Typed, NEW c, Holds(c), NEW n
    PROVE  TableOrder \in Seq(Nodes) /\ (Among(n, TableOrder) <=> Among(n, added))
<1>1. \A b \in Buckets : Chain(b) = c[b] /\ c[b] \in Seq(Nodes)
  BY ChainsHold DEF Holds
<1>2. added \in Seq(Nodes) /\ \A m \in Nodes : Hash(m) \in Buckets
  BY SymTabAssumption DEF Typed, Hash, Buckets
<1>3. ASSUME NEW b \in Buckets, Among(n, c[b]) PROVE Among(n, added)
  BY <1>3 DEF Among, Holds, Filed
<1>4. ASSUME Among(n, added) PROVE \E b \in Buckets : Among(n, c[b])
  <2>1. PICK p \in 1 .. Len(added) : added[p] = n
    BY <1>4 DEF Among
  <2>2. n \in Nodes
    BY <1>2, <2>1
  <2>3. \E j \in 1 .. Len(c[Hash(n)]) : c[Hash(n)][j] = n
    BY <2>1 DEF Holds, Filed
  <2>. QED
    BY <1>2, <2>2, <2>3 DEF Among
<1>5. TableOrder \in Seq(Nodes) /\ (Among(n, TableOrder) <=> \E b \in Buckets : Among(n, Chain(b)))
  BY <1>1, OrderHolds
<1>. QED
  BY <1>1, <1>3, <1>4, <1>5

------------------------------------------------------------------------------
(***************************************************************************)
(* The search by value: after k symbols the one kept is the nearest of     *)
(* these.                                                                  *)
(***************************************************************************)
Step(n, best, value, type, mask) ==
    IF Candidate(n, type, mask) /\ Closer(n, best, value) THEN n ELSE best

BestOf(order, value, type, mask) ==
    CHOOSE best : best = [k \in 0 .. Len(order) |->
                             IF k = 0 THEN NULL
                             ELSE Step(order[k], best[k - 1], value, type, mask)]

LEMMA BestSteps ==
    ASSUME NEW order \in Seq(Nodes), NEW value, NEW type, NEW mask
    PROVE  LET best == BestOf(order, value, type, mask)
           IN /\ best[0] = NULL
              /\ \A k \in 1 .. Len(order) :
                    best[k] = Step(order[k], best[k - 1], value, type, mask)
<1> DEFINE S == Nodes \union {NULL}
           N == Len(order)
           st(n, s) == Step(n, s, value, type, mask)
           step == [x \in (1 .. N) \X S |-> st(order[x[1]], x[2])]
           IsIt(f) == f = [k \in 0 .. N |-> IF k = 0 THEN NULL ELSE st(order[k], f[k - 1])]
<1>1. N \in Nat /\ \A k \in 1 .. N : order[k] \in Nodes
  OBVIOUS
<1> HIDE DEF N
<1>2. step \in [(1 .. N) \X S -> S]
  <2> SUFFICES ASSUME NEW x \in (1 .. N) \X S PROVE st(order[x[1]], x[2]) \in S
    OBVIOUS
  <2>1. x[2] \in S /\ order[x[1]] \in S
    BY <1>1
  <2>. QED
    BY <2>1 DEF Step
<1> HIDE DEF st
<1>3. PICK f : Runs(S, N, NULL, step, f)
  <2> HIDE DEF step
  <2>. QED
    BY <1>1, <1>2, RunExists
<1>4. /\ f \in [0 .. N -> S] /\ f[0] = NULL
      /\ \A k \in 1 .. N : f[k] = st(order[k], f[k - 1])
  <2>1. f \in [0 .. N -> S] /\ f[0] = NULL
    BY <1>3 DEF Runs
  <2>2. ASSUME NEW k \in 1 .. N PROVE f[k] = st(order[k], f[k - 1])
    <3>1. f[k] = step[<<k, f[k - 1]>>]
      BY <1>3 DEF Runs
    <3>2. f[k - 1] \in S
      BY <1>1, <2>1
    <3>. QED
      BY <3>1, <3>2
  <2>. QED
    BY <2>1, <2>2
<1>5. IsIt(f)
  <2> DEFINE h == [k \in 0 .. N |-> IF k = 0 THEN NULL ELSE st(order[k], f[k - 1])]
  <2>1. ASSUME NEW k \in 0 .. N PROVE f[k] = h[k]
    <3>1. CASE k = 0
      BY <1>4, <3>1
    <3>2. CASE k # 0
      <4>1. k \in 1 .. N
        BY <1>1, <3>2
      <4>. QED
        BY <1>4, <3>2, <4>1
    <3>. QED
      BY <3>1, <3>2
  <2>. QED
    BY <1>4, <2>1
<1> DEFINE best == CHOOSE g : IsIt(g)
<1>6. IsIt(best)
  BY <1>5
<1>7. BestOf(order, value, type, mask) = best
  BY DEF BestOf, st, N
<1> HIDE DEF best
<1>8. /\ best[0] = NULL
      /\ \A k \in 1 .. N : best[k] = st(order[k], best[k - 1])
  <2>1. 0 \in 0 .. N /\ \A k \in 1 .. N : k \in 0 .. N /\ k # 0
    BY <1>1
  <2>2. \A k \in 0 .. N : best[k] = IF k = 0 THEN NULL ELSE st(order[k], best[k - 1])
    BY <1>6, Zenon
  <2>. QED
    BY <2>1, <2>2
<1>. QED
  BY <1>7, <1>8 DEF st, N

Value(n) == standTbl[n].value
Near(n, value, type, mask) == Candidate(n, type, mask) /\ Value(n) \in 1 .. value

\* n is what the first k symbols of the search leave.
NearestOf(order, k, n, value, type, mask) ==
    \/ n = NULL /\ \A j \in 1 .. k : ~Near(order[j], value, type, mask)
    \/ /\ n \in Nodes /\ Near(n, value, type, mask)
       /\ \E j \in 1 .. k : order[j] = n
       /\ \A j \in 1 .. k : Near(order[j], value, type, mask) => Value(order[j]) <= Value(n)

LEMMA NearestStep ==
    ASSUME Typed, NEW order \in Seq(Nodes), NEW value \in Nat, NEW type, NEW mask,
           NEW k \in 1 .. Len(order), NEW n,
           NearestOf(order, k - 1, n, value, type, mask)
    PROVE  NearestOf(order, k, Step(order[k], n, value, type, mask), value, type, mask)
<1> DEFINE x == order[k]
           near(m) == Near(m, value, type, mask)
<1>1. x \in Nodes /\ \A j \in 1 .. k - 1 : order[j] \in Nodes
  OBVIOUS
<1>2. \A m \in Nodes : Value(m) \in Nat
  BY SymTabAssumption DEF Typed, Value
<1>3. \A j \in 1 .. k : j \in 1 .. k - 1 \/ j = k
  OBVIOUS
<1>4. \A j \in 1 .. k - 1 : j \in 1 .. k
  OBVIOUS
<1>5. CASE n = NULL
  <2>1. \A j \in 1 .. k - 1 : ~near(order[j])
    BY <1>5, SllAssumed DEF NearestOf
  <2>2. Closer(x, n, value) <=> Value(x) \in 1 .. value
    BY <1>1, <1>2, <1>5 DEF Closer, Value
  <2>3. CASE near(x)
    <3>1. Step(x, n, value, type, mask) = x
      BY <2>2, <2>3 DEF Step, Near
    <3>2. \A j \in 1 .. k : near(order[j]) => order[j] = x
      BY <1>3, <2>1
    <3> HIDE DEF x, near
    <3>3. x \in Nodes /\ near(x) /\ (\E j \in 1 .. k : order[j] = x)
          /\ \A j \in 1 .. k : near(order[j]) => Value(order[j]) <= Value(x)
      BY <1>1, <1>2, <2>3, <3>2 DEF x
    <3>. QED
      BY <3>1, <3>3 DEF NearestOf, near, x
  <2>4. CASE ~near(x)
    <3>1. Step(x, n, value, type, mask) = n
      BY <2>2, <2>4 DEF Step, Near
    <3>2. \A j \in 1 .. k : ~near(order[j])
      BY <1>3, <2>1, <2>4
    <3>. QED
      BY <1>5, <3>1, <3>2 DEF NearestOf
  <2>. QED
    BY <2>3, <2>4
<1>6. CASE n # NULL
  <2>1. /\ n \in Nodes /\ near(n)
        /\ \E j \in 1 .. k - 1 : order[j] = n
        /\ \A j \in 1 .. k - 1 : near(order[j]) => Value(order[j]) <= Value(n)
    BY <1>6 DEF NearestOf
  <2>2. Value(n) \in Nat /\ Value(n) >= 1 /\ Value(x) \in Nat
    BY <1>1, <1>2, <2>1 DEF Near
  <2>3. Closer(x, n, value) <=> Value(x) <= value /\ Value(x) > Value(n)
    BY <1>6 DEF Closer, Value
  <2>4. CASE near(x) /\ Value(x) > Value(n)
    <3>1. Step(x, n, value, type, mask) = x
      BY <2>2, <2>3, <2>4 DEF Step, Near
    <3>2. ASSUME NEW j \in 1 .. k, near(order[j]) PROVE Value(order[j]) <= Value(x)
      <4>1. CASE j = k
        BY <2>2, <4>1
      <4>2. CASE j \in 1 .. k - 1
        <5>1. Value(order[j]) <= Value(n) /\ Value(order[j]) \in Nat
          BY <1>1, <1>2, <2>1, <3>2, <4>2
        <5>. QED
          BY <2>2, <2>4, <5>1
      <4>. QED
        BY <1>3, <4>1, <4>2
    <3>. QED
      BY <1>1, <2>4, <3>1, <3>2 DEF NearestOf
  <2>5. CASE ~(near(x) /\ Value(x) > Value(n))
    <3>1. Step(x, n, value, type, mask) = n
      BY <2>2, <2>3, <2>5 DEF Step, Near
    <3>2. ASSUME NEW j \in 1 .. k, near(order[j]) PROVE Value(order[j]) <= Value(n)
      <4>1. CASE j = k
        BY <2>2, <2>5, <3>2, <4>1
      <4>. QED
        BY <1>3, <2>1, <3>2, <4>1
    <3>3. \E j \in 1 .. k : order[j] = n
      BY <1>4, <2>1
    <3>. QED
      BY <2>1, <3>1, <3>2, <3>3 DEF NearestOf
  <2>. QED
    BY <2>4, <2>5
<1>. QED
  BY <1>5, <1>6

LEMMA BestIsNearest ==
    ASSUME Typed, NEW order \in Seq(Nodes), NEW value \in Nat, NEW type, NEW mask
    PROVE  NearestOf(order, Len(order), BestOf(order, value, type, mask)[Len(order)],
                     value, type, mask)
<1> DEFINE best == BestOf(order, value, type, mask)
           Ok(k) == NearestOf(order, k, best[k], value, type, mask)
           Bad == {k \in 0 .. Len(order) : ~Ok(k)}
<1>1. /\ best[0] = NULL
      /\ \A k \in 1 .. Len(order) : best[k] = Step(order[k], best[k - 1], value, type, mask)
  BY BestSteps
<1> HIDE DEF best
<1>2. Len(order) \in Nat /\ Len(order) \in 0 .. Len(order)
  OBVIOUS
<1>3. Ok(0)
  BY <1>1 DEF NearestOf
<1>4. ASSUME NEW k \in 1 .. Len(order), Ok(k - 1) PROVE Ok(k)
  BY <1>1, <1>4, NearestStep
<1> HIDE DEF Ok
<1>5. Bad = {}
  <2> SUFFICES ASSUME Bad # {} PROVE FALSE
    OBVIOUS
  <2>1. Bad \in SUBSET Nat
    OBVIOUS
  <2>2. PICK k \in Bad : \A d \in Bad : k <= d
    <3> HIDE DEF Bad
    <3>. QED
      BY <2>1, SllAssumed, LP!LeastCase
  <2>3. k \in 1 .. Len(order) /\ k - 1 \in 0 .. Len(order) /\ k - 1 \notin Bad
    BY <1>2, <1>3, <2>2
  <2>. QED
    BY <1>4, <2>2, <2>3
<1>6. Ok(Len(order))
  BY <1>2, <1>5
<1>. QED
  BY <1>6 DEF Ok, best

(***************************************************************************)
(* A value is answered with a symbol of the nearest value at or below it,  *)
(* and at that value with a made-up one only if no other is there, for any *)
(* array and any hash function, whatever the order of the buckets.         *)
(***************************************************************************)
THEOREM ValuesFoundNearest == Spec => []ValueLookupIsNearest
<1>1. IInv => ValueLookupIsNearest
  <2>. SUFFICES ASSUME IInv, NEW value \in Addresses, NEW type \in Types, NEW mask \in Keys
                PROVE  LET below == {n \in ToSet(added) :
                                       /\ standTbl[n].type # "abs"
                                       /\ mask = "all" => standTbl[n].type = type
                                       /\ standTbl[n].value \in 1 .. value}
                           top == Max({standTbl[n].value : n \in below})
                           nearest == {n \in below : standTbl[n].value = top}
                           proper == {n \in nearest : standTbl[n].name \notin MadeUp}
                           found == SymFindByValue(value, type, mask)
                       IN IF below = {} THEN found = NULL
                          ELSE /\ found \in nearest
                               /\ top = value /\ proper # {} => found \in proper
    BY DEF ValueLookupIsNearest
  <2> DEFINE below == {n \in ToSet(added) :
                         /\ standTbl[n].type # "abs"
                         /\ mask = "all" => standTbl[n].type = type
                         /\ standTbl[n].value \in 1 .. value}
             values == {standTbl[n].value : n \in below}
             top == Max(values)
             nearest == {n \in below : standTbl[n].value = top}
             proper == {n \in nearest : standTbl[n].name \notin MadeUp}
             order == TableOrder
             exact(n) == /\ Candidate(n, type, mask)
                         /\ standTbl[n].value = value
                         /\ standTbl[n].name \notin MadeUp
             hits == {k \in DOMAIN order : exact(order[k])}
             best == BestOf(order, value, type, mask)[Len(order)]
             found == SymFindByValue(value, type, mask)
             near(n) == Near(n, value, type, mask)
  <2>1. PICK c : Holds(c)
    BY DEF IInv
  <2>2. Typed /\ value \in Nat /\ value >= 1
    BY SymTabAssumption DEF IInv
  <2>3. found = IF hits # {} THEN order[Min(hits)] ELSE best
    BY DEF SymFindByValue, BestOf, Step
  <2>4. order \in Seq(Nodes) /\ \A n : Among(n, order) <=> Among(n, added)
    BY <2>1, <2>2, OrderIsAdded
  <2> HIDE DEF order
  <2>5. /\ added \in Seq(Nodes) /\ DOMAIN added = 1 .. Len(added)
        /\ DOMAIN order = 1 .. Len(order) /\ Len(order) \in Nat
        /\ \A k \in 1 .. Len(order) : order[k] \in Nodes /\ Among(order[k], order)
    BY <2>2, <2>4 DEF Typed, Among
  <2>6. \A n : n \in ToSet(added) <=> Among(n, added)
    BY <2>5 DEF ToSet, Among
  <2>7. \A n : n \in below <=> Among(n, order) /\ near(n)
    BY <2>4, <2>6 DEF Near, Candidate, TypeMatches, Value
  <2>8. NearestOf(order, Len(order), best, value, type, mask)
    BY <2>2, <2>4, BestIsNearest
  <2>9. hits \in SUBSET (1 .. Len(order))
    BY <2>5
  <2>10. hits # {} => Min(hits) \in hits
    <3> HIDE DEF hits
    <3>. QED
      BY <2>5, <2>9, MinIs
  <2>11. \A n \in below : standTbl[n].value \in 1 .. value
    OBVIOUS
  <2>12. \A n : n \in below /\ standTbl[n].value = value /\ standTbl[n].name \notin MadeUp => exact(n)
    BY <2>7 DEF Near
  <2>13. \A n : exact(n) => standTbl[n].value = value /\ standTbl[n].name \notin MadeUp
                            /\ (Among(n, order) => n \in below)
    <3>1. value \in 1 .. value
      BY <2>2
    <3>. QED
      BY <2>7, <3>1 DEF Near, Value
  <2> HIDE DEF below, exact, best, found, near
  <2>14. below # {} => top \in values /\ \A y \in values : y <= top
    <3>1. values \in SUBSET (1 .. value) /\ (below # {} => values # {})
      BY <2>11
    <3> HIDE DEF values
    <3>. QED
      BY <2>2, <3>1, MaxIs
  <2>15. ASSUME NEW n \in below, \A m \in below : standTbl[m].value <= standTbl[n].value
         PROVE  n \in nearest
    <3>1. PICK m \in below : top = standTbl[m].value
      BY <2>14
    <3>2. standTbl[n].value \in values
      OBVIOUS
    <3>3. standTbl[n].value <= top /\ top <= standTbl[n].value
      BY <2>14, <2>15, <3>1, <3>2
    <3>4. standTbl[n].value \in Nat /\ top \in Nat
      BY <2>11, <3>1
    <3>. QED
      BY <3>3, <3>4
  <2>16. CASE hits # {}
    <3>1. found = order[Min(hits)] /\ exact(found) /\ Among(found, order)
      BY <2>3, <2>5, <2>9, <2>10, <2>16
    <3>2. found \in below /\ standTbl[found].value = value /\ standTbl[found].name \notin MadeUp
      BY <2>13, <3>1
    <3>3. \A m \in below : standTbl[m].value <= standTbl[found].value
      BY <2>2, <2>11, <3>2
    <3>4. found \in nearest
      BY <2>15, <3>2, <3>3
    <3>. QED
      BY <3>2, <3>4 DEF below, found
  <2>17. CASE hits = {} /\ below = {}
    <3>1. found = best
      BY <2>3, <2>17
    <3>2. best = NULL
      <4>1. \A j \in 1 .. Len(order) : ~near(order[j])
        BY <2>5, <2>7, <2>17
      <4>. QED
        BY <2>8, <4>1 DEF NearestOf, near
    <3>. QED
      BY <2>17, <3>1, <3>2 DEF below, found
  <2>18. CASE hits = {} /\ below # {}
    <3>1. found = best
      BY <2>3, <2>18
    <3>2. \A m \in below : \E j \in 1 .. Len(order) : order[j] = m /\ near(order[j])
      BY <2>7 DEF Among
    <3>3. best \in Nodes /\ near(best) /\ Among(best, order)
      BY <2>8, <2>18, <3>2 DEF NearestOf, near, Among
    <3>4. best \in below
      BY <2>7, <3>3
    <3>5. \A m \in below : standTbl[m].value <= standTbl[best].value
      <4>1. best # NULL
        BY <3>3, SllAssumed
      <4>2. \A j \in 1 .. Len(order) : near(order[j]) => Value(order[j]) <= Value(best)
        BY <2>8, <4>1 DEF NearestOf, near
      <4>. QED
        BY <3>2, <4>2 DEF Value
    <3>6. best \in nearest
      BY <2>15, <3>4, <3>5
    <3>7. top = value => proper = {}
      <4> SUFFICES ASSUME top = value, NEW n \in proper PROVE FALSE
        OBVIOUS
      <4>1. n \in below /\ standTbl[n].value = value /\ standTbl[n].name \notin MadeUp
        OBVIOUS
      <4>2. exact(n) /\ Among(n, order)
        BY <2>7, <2>12, <4>1
      <4>3. PICK k \in 1 .. Len(order) : order[k] = n
        BY <4>2 DEF Among
      <4>4. k \in hits
        BY <2>5, <4>2, <4>3
      <4>. QED
        BY <2>18, <4>4
    <3>. QED
      BY <2>18, <3>1, <3>6, <3>7 DEF below, found
  <2>. QED
    BY <2>16, <2>17, <2>18
<1>. QED
  BY <1>1, TableInvariant, PTL
===============================================================================
