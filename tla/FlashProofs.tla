----------------------------- MODULE FlashProofs -----------------------------
(***************************************************************************)
(* The flash for any well-formed geometry: the walk of                     *)
(* cfi_intelext_varsize_frob goes from block to block of its range,        *)
(* find_erase_size ends with the block that holds the last byte, and with  *)
(* these, what NorWrite promises of a write or an erase that ends well and *)
(* of the bytes outside it.                                                *)
(***************************************************************************)
EXTENDS NorWrite, VarsizeFrob, WellFoundedInduction, TLAPS

------------------------------------------------------------------------------
(***************************************************************************)
(* Numbers.                                                                *)
(***************************************************************************)
LEMMA LeastCase ==
    ASSUME NEW S \in SUBSET Nat, S # {}
    PROVE  \E n \in S : \A m \in S : n <= m
<1> DEFINE R == {ss \in Nat \X Nat : ss[1] < ss[2]}
<1>0. IsWellFoundedOn(R, Nat)
  BY NatLessThanWellFounded DEF OpToRel
<1>1. PICK x \in S : \A y \in S : <<y, x>> \notin R
  <2> HIDE DEF R
  <2>. QED
    BY <1>0, WFMin
<1>2. \A y \in S : x <= y
  <2> SUFFICES ASSUME NEW y \in S, y < x PROVE FALSE
    OBVIOUS
  <2>1. <<y, x>> \in Nat \X Nat /\ <<y, x>>[1] = y /\ <<y, x>>[2] = x
    OBVIOUS
  <2>2. <<y, x>> \in R
    BY <2>1
  <2>. QED
    BY <1>1, <2>2
<1>. QED
  BY <1>2

LEMMA MinIs ==
    ASSUME NEW S \in SUBSET Nat, S # {}
    PROVE  Min(S) \in S /\ \A m \in S : Min(S) <= m
BY LeastCase DEF Min

LEMMA MaxIs ==
    ASSUME NEW n \in Nat, NEW S \in SUBSET (0 .. n), S # {}
    PROVE  Max(S) \in S /\ \A m \in S : m <= Max(S)
<1> DEFINE T == {n - m : m \in S}
<1>1. T \in SUBSET Nat /\ T # {}
  <2>1. \A m \in S : n - m \in Nat
    OBVIOUS
  <2>. QED
    BY <2>1
<1>2. PICK t \in T : \A u \in T : t <= u
  <2> HIDE DEF T
  <2>. QED
    BY <1>1, LeastCase
<1>3. PICK m \in S : t = n - m
  OBVIOUS
<1>4. \A k \in S : m >= k
  <2> SUFFICES ASSUME NEW k \in S PROVE m >= k
    OBVIOUS
  <2>1. n - k \in T
    OBVIOUS
  <2>2. n - m <= n - k
    BY <1>2, <1>3, <2>1
  <2>. QED
    BY <2>2
<1>. QED
  BY <1>3, <1>4 DEF Max

LEMMA MulStep ==
    ASSUME NEW a \in Nat, NEW b \in Nat, NEW c \in Nat, a < b
    PROVE  a * c + c <= b * c
BY SMT

LEMMA MulMono ==
    ASSUME NEW a \in Nat, NEW b \in Nat, NEW c \in Nat, a <= b
    PROVE  a * c <= b * c
BY SMT

LEMMA MulPos ==
    ASSUME NEW a \in Nat \ {0}, NEW b \in Nat \ {0}
    PROVE  a * b \in Nat /\ a * b >= a /\ a * b >= b
BY SMT

LEMMA Cancel ==
    ASSUME NEW a \in Nat, NEW b \in Nat, NEW c \in Nat \ {0}, a * c < b * c
    PROVE  a < b
BY SMT

LEMMA Distr ==
    ASSUME NEW a \in Nat, NEW b \in Nat, NEW c \in Nat
    PROVE  (a + b) * c = a * c + b * c
BY SMT

LEMMA DivMod ==
    ASSUME NEW a \in Nat, NEW d \in Nat \ {0}
    PROVE  /\ a \div d \in Nat /\ a % d \in 0 .. d - 1
           /\ a = (a \div d) * d + (a % d)
<1>1. a % d \in 0 .. d - 1
  BY SMT
<1>2. a = (a \div d) * d + (a % d)
  BY SMT
<1>3. a \div d \in Int
  BY SMT
<1>4. ASSUME NEW q \in Int, q < 0, NEW r \in 0 .. d - 1, a = q * d + r PROVE FALSE
  BY <1>4, SMT
<1>. QED
  BY <1>1, <1>2, <1>3, <1>4

LEMMA DivModUnique ==
    ASSUME NEW q \in Nat, NEW d \in Nat \ {0}, NEW r \in 0 .. d - 1,
           NEW a \in Nat, a = q * d + r
    PROVE  a \div d = q /\ a % d = r
BY SMT

\* A multiple is what leaves no rest.
LEMMA Multiple ==
    ASSUME NEW a \in Nat, NEW d \in Nat \ {0}
    PROVE  a % d = 0 <=> \E q \in Nat : a = q * d
<1>1. a \div d \in Nat /\ a = (a \div d) * d + (a % d)
  BY DivMod
<1>2. ASSUME NEW q \in Nat, a = q * d PROVE a % d = 0
  BY <1>2, DivModUnique
<1>3. ASSUME a % d = 0 PROVE \E q \in Nat : a = q * d
  BY <1>1, <1>3
<1>. QED
  BY <1>2, <1>3

\* The a-th byte of chip c.
IsByte(x, c, cs, a) == x = c * cs + a

LEMMA ByteOf ==
    ASSUME NEW c \in Nat, NEW cs \in Nat \ {0}, NEW a \in 0 .. cs - 1,
           NEW x \in Nat, IsByte(x, c, cs, a)
    PROVE  x \div cs = c /\ x % cs = a
BY DivModUnique DEF IsByte

\* s bytes on from byte a, in a region that ends at e: what FrobNext computes.
NextByte(x, c, cs, a, s, e) ==
    /\ (IF a + s >= cs THEN 0 ELSE a + s) = (x + s) % cs
    /\ (IF a + s >= cs THEN c + 1 ELSE c) = (x + s) \div cs
    /\ (a + s) % cs = e % cs <=> e = x + s

LEMMA Wraps ==
    ASSUME NEW cs \in Nat \ {0}, NEW c \in Nat, NEW a \in 0 .. cs - 1, NEW s \in Nat \ {0},
           NEW x \in Nat, IsByte(x, c, cs, a), NEW e \in Nat, x + s <= e, e <= c * cs + cs
    PROVE  NextByte(x, c, cs, a, s, e)
<1> DEFINE d == e - c * cs
<1>0. d \in a + s .. cs /\ e = c * cs + d /\ x = c * cs + a
  BY SMT DEF IsByte
<1> HIDE DEF d
<1>1. ASSUME NEW z \in 1 .. cs, NEW y \in Nat, y = c * cs + z
      PROVE  IF z = cs THEN y \div cs = c + 1 /\ y % cs = 0 ELSE y \div cs = c /\ y % cs = z
  <2>1. CASE z = cs
    <3>1. IsByte(y, c + 1, cs, 0)
      BY <1>1, <2>1, SMT DEF IsByte
    <3>2. c + 1 \in Nat /\ 0 \in 0 .. cs - 1
      OBVIOUS
    <3>. QED
      BY <2>1, <3>1, <3>2, ByteOf
  <2>2. CASE z # cs
    <3>1. z \in 0 .. cs - 1 /\ IsByte(y, c, cs, z)
      BY <1>1, <2>2 DEF IsByte
    <3>. QED
      BY <2>2, <3>1, ByteOf
  <2>. QED
    BY <2>1, <2>2
<1>2. a + s \in 1 .. cs /\ x + s \in Nat /\ x + s = c * cs + (a + s)
  BY <1>0
<1>3. IF a + s = cs THEN (x + s) \div cs = c + 1 /\ (x + s) % cs = 0
      ELSE (x + s) \div cs = c /\ (x + s) % cs = a + s
  BY <1>1, <1>2
<1>4. d \in 1 .. cs
  BY <1>0
<1>5. IF d = cs THEN e % cs = 0 ELSE e % cs = d
  BY <1>0, <1>1, <1>4
<1>6. IF a + s = cs THEN (a + s) % cs = 0 ELSE (a + s) % cs = a + s
  <2>1. CASE a + s = cs
    <3>1. \A y \in Nat : y = cs => y % cs = 0
      BY SMT
    <3>. QED
      BY <2>1, <3>1
  <2>2. CASE a + s # cs
    <3>1. \A y \in 0 .. cs - 1 : y % cs = y
      BY SMT
    <3>. QED
      BY <1>2, <2>2, <3>1
  <2>. QED
    BY <2>1, <2>2
<1>7. (a + s) % cs = e % cs <=> d = a + s
  BY <1>0, <1>2, <1>4, <1>5, <1>6
<1>8. d = a + s <=> e = x + s
  <2>1. c * cs \in Nat
    OBVIOUS
  <2>. QED
    BY <1>0, <1>2, <2>1
<1>. QED
  BY <1>0, <1>2, <1>3, <1>7, <1>8 DEF NextByte

------------------------------------------------------------------------------
(***************************************************************************)
(* The table of regions.                                                   *)
(***************************************************************************)
RegionCount(geo) == Len(geo.regions)
OffsetOf(geo, k) == geo.regions[k].offset
SizeOf(geo, k) == geo.regions[k].erasesize
BlocksOf(geo, k) == geo.regions[k].numblocks
EndOf(geo, k) == RegionEnd(geo.regions[k])

\* What the table says of its regions, and of them one by one.
RegionFacts(geo) ==
    /\ RegionCount(geo) \in Nat \ {0}
    /\ DOMAIN geo.regions = 1 .. RegionCount(geo)
    /\ \A k \in 1 .. RegionCount(geo) :
          /\ OffsetOf(geo, k) \in Nat /\ SizeOf(geo, k) \in Nat \ {0}
          /\ BlocksOf(geo, k) \in Nat \ {0} /\ EndOf(geo, k) \in Nat
          /\ OffsetOf(geo, k) + SizeOf(geo, k) <= EndOf(geo, k)
    /\ OffsetOf(geo, 1) = 0
    /\ \A k, m \in 1 .. RegionCount(geo) : m = k + 1 => OffsetOf(geo, m) = EndOf(geo, k)
    /\ EndOf(geo, RegionCount(geo)) = FlashSize(geo)
    /\ FlashSize(geo) \in Nat \ {0}

LEMMA Regions ==
    ASSUME NEW geo, WellFormed(geo)
    PROVE  RegionFacts(geo)
<1>1. geo.regions \in Seq(Region) /\ Len(geo.regions) > 0
  BY DEF WellFormed
<1>2. RegionCount(geo) \in Nat \ {0} /\ DOMAIN geo.regions = 1 .. RegionCount(geo)
  BY <1>1 DEF RegionCount
<1>3. ASSUME NEW k \in 1 .. RegionCount(geo)
      PROVE  /\ OffsetOf(geo, k) \in Nat /\ SizeOf(geo, k) \in Nat \ {0}
             /\ BlocksOf(geo, k) \in Nat \ {0} /\ EndOf(geo, k) \in Nat
             /\ OffsetOf(geo, k) + SizeOf(geo, k) <= EndOf(geo, k)
  <2>1. geo.regions[k] \in Region
    BY <1>1, <1>2 DEF RegionCount
  <2>2. /\ OffsetOf(geo, k) \in Nat /\ SizeOf(geo, k) \in Nat \ {0}
        /\ BlocksOf(geo, k) \in Nat \ {0}
    BY <2>1 DEF Region, OffsetOf, SizeOf, BlocksOf
  <2>3. EndOf(geo, k) = OffsetOf(geo, k) + SizeOf(geo, k) * BlocksOf(geo, k)
    BY DEF EndOf, RegionEnd, OffsetOf, SizeOf, BlocksOf
  <2>4. SizeOf(geo, k) * BlocksOf(geo, k) \in Nat /\ SizeOf(geo, k) * BlocksOf(geo, k) >= SizeOf(geo, k)
    BY <2>2, MulPos
  <2>. QED
    BY <2>2, <2>3, <2>4
<1>4. /\ OffsetOf(geo, 1) = 0
      /\ \A k \in 1 .. RegionCount(geo) - 1 : OffsetOf(geo, k + 1) = EndOf(geo, k)
      /\ EndOf(geo, RegionCount(geo)) = FlashSize(geo)
  BY DEF WellFormed, OffsetOf, EndOf, RegionCount
<1>5. geo.chipsize \in Nat \ {0} /\ geo.numchips \in Nat \ {0}
  BY DEF WellFormed
<1>6. FlashSize(geo) \in Nat \ {0}
  BY <1>5, MulPos DEF FlashSize
<1>7. ASSUME NEW k \in 1 .. RegionCount(geo), NEW m \in 1 .. RegionCount(geo), m = k + 1
      PROVE  OffsetOf(geo, m) = EndOf(geo, k)
  <2>1. k \in 1 .. RegionCount(geo) - 1
    BY <1>2, <1>7
  <2>. QED
    BY <1>4, <1>7, <2>1
<1>. QED
  BY <1>2, <1>3, <1>4, <1>6, <1>7 DEF RegionFacts

\* The blocks of a region, as multiples of their size.
LEMMA RegionBlocks ==
    ASSUME NEW geo, WellFormed(geo), NEW k \in 1 .. RegionCount(geo)
    PROVE  \E q \in Nat : /\ OffsetOf(geo, k) = q * SizeOf(geo, k)
                          /\ EndOf(geo, k) = (q + BlocksOf(geo, k)) * SizeOf(geo, k)
<1>0. RegionFacts(geo)
  BY Regions
<1>1. OffsetOf(geo, k) % SizeOf(geo, k) = 0
  BY DEF WellFormed, RegionCount, OffsetOf, SizeOf
<1>2. PICK q \in Nat : OffsetOf(geo, k) = q * SizeOf(geo, k)
  BY <1>0, <1>1, Multiple DEF RegionFacts
<1>3. EndOf(geo, k) = OffsetOf(geo, k) + SizeOf(geo, k) * BlocksOf(geo, k)
  BY DEF EndOf, RegionEnd, OffsetOf, SizeOf, BlocksOf
<1>4. SizeOf(geo, k) \in Nat /\ BlocksOf(geo, k) \in Nat
  BY <1>0 DEF RegionFacts
<1>5. (q + BlocksOf(geo, k)) * SizeOf(geo, k) = q * SizeOf(geo, k) + BlocksOf(geo, k) * SizeOf(geo, k)
  BY <1>4, Distr
<1>6. SizeOf(geo, k) * BlocksOf(geo, k) = BlocksOf(geo, k) * SizeOf(geo, k)
  BY <1>4
<1>. QED
  BY <1>2, <1>3, <1>5, <1>6

\* A region ends where a later one starts, or before.
LEMMA Later ==
    ASSUME NEW geo, WellFormed(geo),
           NEW k \in 1 .. RegionCount(geo), NEW m \in 1 .. RegionCount(geo), k < m
    PROVE  EndOf(geo, k) <= OffsetOf(geo, m)
<1>0. RegionFacts(geo)
  BY Regions
<1> DEFINE Bad == {i \in 1 .. RegionCount(geo) : k < i /\ ~(EndOf(geo, k) <= OffsetOf(geo, i))}
<1>1. Bad \in SUBSET Nat
  BY <1>0 DEF RegionFacts
<1>2. SUFFICES ASSUME Bad # {} PROVE FALSE
  OBVIOUS
<1>3. PICK i \in Bad : \A j \in Bad : i <= j
  <2> HIDE DEF Bad
  <2>. QED
    BY <1>1, <1>2, LeastCase
<1>4. CASE i = k + 1
  BY <1>3, <1>4, <1>0 DEF RegionFacts
<1>5. CASE i # k + 1
  <2>1. i \in 1 .. RegionCount(geo) /\ k < i /\ RegionCount(geo) \in Nat
    BY <1>0 DEF RegionFacts
  <2>2. i - 1 \in 1 .. RegionCount(geo) /\ k < i - 1 /\ i = (i - 1) + 1
    BY <1>5, <2>1
  <2>3. i - 1 \notin Bad
    <3> HIDE DEF Bad
    <3>. QED
      BY <1>3, <2>1
  <2>4. EndOf(geo, k) <= OffsetOf(geo, i - 1)
    BY <2>2, <2>3
  <2>5. OffsetOf(geo, i) = EndOf(geo, i - 1)
    BY <1>0, <2>1, <2>2 DEF RegionFacts
  <2>6. OffsetOf(geo, i - 1) + SizeOf(geo, i - 1) <= EndOf(geo, i - 1)
        /\ SizeOf(geo, i - 1) \in Nat /\ OffsetOf(geo, i - 1) \in Nat
        /\ EndOf(geo, i - 1) \in Nat /\ EndOf(geo, k) \in Nat
    BY <1>0, <2>2 DEF RegionFacts
  <2>7. EndOf(geo, k) <= OffsetOf(geo, i)
    BY <2>4, <2>5, <2>6
  <2>. QED
    BY <1>3, <2>7
<1>. QED
  BY <1>4, <1>5

LEMMA EndsInside ==
    ASSUME NEW geo, WellFormed(geo), NEW k \in 1 .. RegionCount(geo)
    PROVE  EndOf(geo, k) <= FlashSize(geo)
<1>0. RegionFacts(geo)
  BY Regions
<1>1. CASE k = RegionCount(geo)
  BY <1>1, <1>0 DEF RegionFacts
<1>2. CASE k < RegionCount(geo)
  BY <1>2, <1>0, Later DEF RegionFacts
<1>. QED
  BY <1>1, <1>2, <1>0 DEF RegionFacts

\* The search for a region finds the one an address is in.
LEMMA RegionAtFound ==
    ASSUME NEW geo, WellFormed(geo), NEW x \in Nat
    PROVE  /\ RegionAt(geo, x) \in 1 .. RegionCount(geo)
           /\ OffsetOf(geo, RegionAt(geo, x)) <= x
           /\ x < FlashSize(geo) \/ RegionAt(geo, x) < RegionCount(geo)
                 => x < EndOf(geo, RegionAt(geo, x))
<1>0. RegionFacts(geo)
  BY Regions
<1> DEFINE S == {k \in 1 .. RegionCount(geo) : \A j \in 1 .. k : x >= OffsetOf(geo, j)}
           r == Max(S)
<1>1. RegionAt(geo, x) = r
  BY <1>0 DEF RegionFacts, RegionAt, OffsetOf, RegionCount
<1>2. S \in SUBSET (0 .. RegionCount(geo)) /\ 1 \in S
  BY <1>0 DEF RegionFacts
<1>3. r \in S /\ \A k \in S : k <= r
  <2> HIDE DEF S
  <2>. QED
    BY <1>2, MaxIs, <1>0 DEF RegionFacts
<1>4. r \in 1 .. RegionCount(geo) /\ OffsetOf(geo, r) <= x
  <2> HIDE DEF r
  <2>. QED
    BY <1>3, <1>0 DEF RegionFacts
<1>5. ASSUME r < RegionCount(geo) PROVE x < EndOf(geo, r)
  <2> HIDE DEF r
  <2>1. r + 1 \notin S /\ r + 1 \in 1 .. RegionCount(geo)
    BY <1>3, <1>4, <1>5, <1>0 DEF RegionFacts
  <2>2. PICK j \in 1 .. r + 1 : ~(x >= OffsetOf(geo, j))
    BY <2>1
  <2>3. j = r + 1
    BY <1>3, <1>4, <2>2
  <2>. QED
    BY <1>4, <1>5, <2>2, <2>3, <1>0 DEF RegionFacts
<1>. QED
  <2> HIDE DEF r
  <2>. QED
    BY <1>1, <1>4, <1>5, <1>0 DEF RegionFacts

LEMMA RegionAtIs ==
    ASSUME NEW geo, WellFormed(geo), NEW x \in Nat, NEW k \in 1 .. RegionCount(geo),
           OffsetOf(geo, k) <= x, x < EndOf(geo, k)
    PROVE  RegionAt(geo, x) = k
<1>0. RegionFacts(geo)
  BY Regions
<1> DEFINE r == RegionAt(geo, x)
<1>1. r \in 1 .. RegionCount(geo) /\ OffsetOf(geo, r) <= x
  BY RegionAtFound
<1>2. x < FlashSize(geo)
  BY EndsInside, <1>0 DEF RegionFacts
<1>3. x < EndOf(geo, r)
  BY <1>2, RegionAtFound
<1>. QED
  <2> HIDE DEF r
  <2>0. /\ EndOf(geo, r) \in Nat /\ OffsetOf(geo, r) \in Nat
        /\ EndOf(geo, k) \in Nat /\ OffsetOf(geo, k) \in Nat
    BY <1>0, <1>1 DEF RegionFacts
  <2>1. CASE r < k
    <3>1. EndOf(geo, r) <= OffsetOf(geo, k)
      BY <1>1, <2>1, Later
    <3>. QED
      BY <1>3, <2>0, <3>1
  <2>2. CASE k < r
    <3>1. EndOf(geo, k) <= OffsetOf(geo, r)
      BY <1>1, <2>2, Later
    <3>. QED
      BY <1>1, <2>0, <3>1
  <2>. QED
    BY <1>1, <2>1, <2>2 DEF r

------------------------------------------------------------------------------
(***************************************************************************)
(* The blocks.                                                             *)
(***************************************************************************)
LEMMA BlockFacts ==
    ASSUME NEW geo, WellFormed(geo), NEW b \in Blocks(geo)
    PROVE  /\ b = [start |-> b.start, size |-> b.size]
           /\ b.start \in Nat /\ b.size \in Nat \ {0}
           /\ b.size = SizeOf(geo, RegionAt(geo, b.start))
           /\ RegionAt(geo, b.start) \in 1 .. RegionCount(geo)
           /\ OffsetOf(geo, RegionAt(geo, b.start)) <= b.start
           /\ b.start + b.size <= EndOf(geo, RegionAt(geo, b.start))
           /\ b.start + b.size <= FlashSize(geo)
           /\ \E p \in Nat : b.start = p * b.size
           /\ \E i \in 0 .. BlocksOf(geo, RegionAt(geo, b.start)) - 1 :
                 b.start = OffsetOf(geo, RegionAt(geo, b.start)) + i * b.size
<1>0. RegionFacts(geo)
  BY Regions
<1>1. PICK r \in ToSet(geo.regions) : \E i \in 0 .. r.numblocks - 1 :
         b = [start |-> r.offset + i * r.erasesize, size |-> r.erasesize]
  BY DEF Blocks
<1>2. PICK k \in 1 .. RegionCount(geo) : r = geo.regions[k]
  BY <1>0, <1>1 DEF ToSet, RegionFacts
<1>3. PICK i \in 0 .. BlocksOf(geo, k) - 1 :
         b = [start |-> OffsetOf(geo, k) + i * SizeOf(geo, k), size |-> SizeOf(geo, k)]
  BY <1>1, <1>2 DEF OffsetOf, SizeOf, BlocksOf
<1>4. PICK q \in Nat : /\ OffsetOf(geo, k) = q * SizeOf(geo, k)
                       /\ EndOf(geo, k) = (q + BlocksOf(geo, k)) * SizeOf(geo, k)
  BY RegionBlocks
<1>5. /\ OffsetOf(geo, k) \in Nat /\ SizeOf(geo, k) \in Nat \ {0}
      /\ BlocksOf(geo, k) \in Nat \ {0} /\ EndOf(geo, k) \in Nat
  BY <1>0 DEF RegionFacts
<1>6. i \in Nat /\ i * SizeOf(geo, k) \in Nat
  BY <1>5
<1>7. b = [start |-> b.start, size |-> b.size]
      /\ b.start = OffsetOf(geo, k) + i * SizeOf(geo, k) /\ b.size = SizeOf(geo, k)
  BY <1>3
<1>8. b.start = (q + i) * SizeOf(geo, k)
  BY <1>4, <1>5, <1>6, <1>7, Distr
<1>9. (q + i) * SizeOf(geo, k) + SizeOf(geo, k) <= EndOf(geo, k)
  BY <1>4, <1>5, <1>6, MulStep
<1>10. b.start \in Nat /\ OffsetOf(geo, k) <= b.start /\ b.start < EndOf(geo, k)
       /\ b.start + b.size <= EndOf(geo, k)
  BY <1>5, <1>6, <1>7, <1>8, <1>9
<1>11. RegionAt(geo, b.start) = k
  BY <1>10, RegionAtIs
<1>12. EndOf(geo, k) <= FlashSize(geo) /\ FlashSize(geo) \in Nat
  BY <1>0, EndsInside DEF RegionFacts
<1>13. b.start + b.size <= FlashSize(geo)
  BY <1>5, <1>7, <1>10, <1>12
<1>14. \E p \in Nat : b.start = p * b.size
  BY <1>6, <1>7, <1>8
<1>15. \E j \in 0 .. BlocksOf(geo, k) - 1 : b.start = OffsetOf(geo, k) + j * b.size
  BY <1>7
<1>. QED
  BY <1>5, <1>7, <1>10, <1>11, <1>13, <1>14, <1>15

LEMMA AlignedIsBlock ==
    ASSUME NEW geo, WellFormed(geo), NEW k \in 1 .. RegionCount(geo), NEW p \in Nat,
           OffsetOf(geo, k) <= p * SizeOf(geo, k), p * SizeOf(geo, k) < EndOf(geo, k)
    PROVE  [start |-> p * SizeOf(geo, k), size |-> SizeOf(geo, k)] \in Blocks(geo)
<1>0. RegionFacts(geo)
  BY Regions
<1>1. /\ OffsetOf(geo, k) \in Nat /\ SizeOf(geo, k) \in Nat \ {0}
      /\ BlocksOf(geo, k) \in Nat \ {0} /\ EndOf(geo, k) \in Nat
  BY <1>0 DEF RegionFacts
<1>2. PICK q \in Nat : /\ OffsetOf(geo, k) = q * SizeOf(geo, k)
                       /\ EndOf(geo, k) = (q + BlocksOf(geo, k)) * SizeOf(geo, k)
  BY RegionBlocks
<1>3. p < q + BlocksOf(geo, k)
  BY <1>1, <1>2, Cancel
<1>4. q <= p
  <2> SUFFICES ASSUME p < q PROVE FALSE
    OBVIOUS
  <2>1. p * SizeOf(geo, k) + SizeOf(geo, k) <= q * SizeOf(geo, k)
    BY <1>1, MulStep
  <2>2. p * SizeOf(geo, k) \in Nat
    BY <1>1
  <2>. QED
    BY <1>1, <1>2, <2>1, <2>2
<1>5. p - q \in 0 .. BlocksOf(geo, k) - 1
  BY <1>1, <1>3, <1>4
<1>6. p * SizeOf(geo, k) = OffsetOf(geo, k) + (p - q) * SizeOf(geo, k)
  <2>1. ((p - q) + q) * SizeOf(geo, k) = (p - q) * SizeOf(geo, k) + q * SizeOf(geo, k)
    BY <1>1, <1>4, Distr
  <2>2. (p - q) + q = p /\ (p - q) * SizeOf(geo, k) \in Nat
    BY <1>1, <1>4
  <2>. QED
    BY <1>1, <1>2, <2>1, <2>2
<1>7. geo.regions[k] \in ToSet(geo.regions)
  BY <1>0 DEF ToSet, RegionFacts
<1>. QED
  BY <1>5, <1>6, <1>7 DEF Blocks, OffsetOf, SizeOf, BlocksOf

\* Every byte is in a block.
LEMMA BlockAt ==
    ASSUME NEW geo, WellFormed(geo), NEW a \in Nat, a < FlashSize(geo)
    PROVE  \E b \in Blocks(geo) : b.start <= a /\ a < b.start + b.size
<1> DEFINE k == RegionAt(geo, a)
           s == SizeOf(geo, k)
           p == a \div s
<1>0. RegionFacts(geo)
  BY Regions
<1>1. k \in 1 .. RegionCount(geo) /\ OffsetOf(geo, k) <= a /\ a < EndOf(geo, k)
  BY RegionAtFound
<1>2. s \in Nat \ {0} /\ OffsetOf(geo, k) \in Nat /\ EndOf(geo, k) \in Nat
  BY <1>0, <1>1 DEF RegionFacts
<1>3. p \in Nat /\ p * s <= a /\ a < p * s + s
  <2> HIDE DEF s
  <2>1. p \in Nat /\ a % s \in 0 .. s - 1 /\ a = p * s + (a % s)
    BY <1>2, DivMod
  <2>2. p * s \in Nat
    BY <1>2, <2>1
  <2>. QED
    BY <1>2, <2>1, <2>2
<1>4. PICK q \in Nat : OffsetOf(geo, k) = q * s
  BY <1>1, RegionBlocks
<1>5. q <= p
  <2> SUFFICES ASSUME p < q PROVE FALSE
    <3> HIDE DEF p
    <3>. QED
      BY <1>3
  <2> HIDE DEF p, s, k
  <2>1. p * s + s <= q * s
    BY <1>2, <1>3, MulStep
  <2>. QED
    BY <1>1, <1>2, <1>3, <1>4, <2>1
<1>6. OffsetOf(geo, k) <= p * s
  <2> HIDE DEF p, s, k
  <2>. QED
    BY <1>2, <1>3, <1>4, <1>5, MulMono
<1>7. p * s < EndOf(geo, k)
  <2> HIDE DEF p, s, k
  <2>1. p * s \in Nat
    BY <1>2, <1>3
  <2>. QED
    BY <1>1, <1>2, <1>3, <2>1
<1>8. [start |-> p * s, size |-> s] \in Blocks(geo)
  <2> HIDE DEF p, k
  <2>. QED
    BY <1>1, <1>3, <1>6, <1>7, AlignedIsBlock
<1>. QED
  <2> HIDE DEF p, s, k
  <2>. QED
    BY <1>3, <1>8

\* No boundary is inside a block.
LEMMA NextBoundary ==
    ASSUME NEW geo, WellFormed(geo), NEW b \in Blocks(geo), NEW y \in Boundaries(geo),
           b.start < y
    PROVE  b.start + b.size <= y
<1>0. RegionFacts(geo)
  BY Regions
<1>1. CASE y = FlashSize(geo)
  BY <1>1, BlockFacts
<1>2. CASE y \in {c.start : c \in Blocks(geo)}
  <2>1. PICK c \in Blocks(geo) : y = c.start
    BY <1>2
  <2> DEFINE k == RegionAt(geo, b.start)
             m == RegionAt(geo, c.start)
  <2>2. /\ b.start \in Nat /\ b.size \in Nat \ {0} /\ b.size = SizeOf(geo, k)
        /\ k \in 1 .. RegionCount(geo) /\ OffsetOf(geo, k) <= b.start
        /\ b.start + b.size <= EndOf(geo, k) /\ \E p \in Nat : b.start = p * b.size
    BY BlockFacts
  <2>3. /\ c.start \in Nat /\ c.size \in Nat \ {0} /\ c.size = SizeOf(geo, m)
        /\ m \in 1 .. RegionCount(geo) /\ OffsetOf(geo, m) <= c.start
        /\ c.start + c.size <= EndOf(geo, m) /\ \E p \in Nat : c.start = p * c.size
    BY BlockFacts
  <2>4. /\ EndOf(geo, k) \in Nat /\ OffsetOf(geo, k) \in Nat
        /\ EndOf(geo, m) \in Nat /\ OffsetOf(geo, m) \in Nat
    BY <1>0, <2>2, <2>3 DEF RegionFacts
  <2> HIDE DEF k, m
  <2>5. CASE k < m
    <3>1. EndOf(geo, k) <= OffsetOf(geo, m)
      BY <2>2, <2>3, <2>5, Later
    <3>. QED
      BY <2>1, <2>2, <2>3, <2>4, <3>1
  <2>6. CASE m < k
    <3>1. EndOf(geo, m) <= OffsetOf(geo, k)
      BY <2>2, <2>3, <2>6, Later
    <3>. QED
      BY <2>1, <2>2, <2>3, <2>4, <3>1
  <2>7. CASE k = m
    <3>1. PICK p \in Nat : b.start = p * b.size
      BY <2>2
    <3>2. PICK q \in Nat : c.start = q * b.size
      BY <2>2, <2>3, <2>7
    <3>3. p < q
      BY <2>1, <2>2, <3>1, <3>2, Cancel
    <3>. QED
      BY <2>1, <2>2, <3>1, <3>2, <3>3, MulStep
  <2>. QED
    BY <2>2, <2>3, <2>5, <2>6, <2>7
<1>. QED
  BY <1>1, <1>2 DEF Boundaries

LEMMA BoundaryInside ==
    ASSUME NEW geo, WellFormed(geo), NEW x \in Boundaries(geo)
    PROVE  x \in Nat /\ x <= FlashSize(geo)
<1>1. FlashSize(geo) \in Nat
  BY Regions DEF RegionFacts
<1>2. CASE x \in {c.start : c \in Blocks(geo)}
  <2>1. PICK c \in Blocks(geo) : x = c.start
    BY <1>2
  <2>2. c.start \in Nat /\ c.size \in Nat /\ c.start + c.size <= FlashSize(geo)
    BY BlockFacts
  <2>. QED
    BY <1>1, <2>1, <2>2
<1>. QED
  BY <1>1, <1>2 DEF Boundaries

\* The block that starts at a boundary, which is not the end of the flash.
LEMMA BoundaryBlock ==
    ASSUME NEW geo, WellFormed(geo), NEW x \in Boundaries(geo), x < FlashSize(geo)
    PROVE  /\ [start |-> x, size |-> SizeOf(geo, RegionAt(geo, x))] \in Blocks(geo)
           /\ x \in {c.start : c \in Blocks(geo)}
<1>1. FlashSize(geo) \in Nat
  BY Regions DEF RegionFacts
<1>2. PICK c \in Blocks(geo) : x = c.start
  BY <1>1 DEF Boundaries
<1>3. c = [start |-> x, size |-> SizeOf(geo, RegionAt(geo, x))]
  BY <1>2, BlockFacts
<1>. QED
  BY <1>2, <1>3

\* Two blocks that share a byte are one.
LEMMA SameBlock ==
    ASSUME NEW geo, WellFormed(geo), NEW b \in Blocks(geo), NEW c \in Blocks(geo), NEW a \in Nat,
           b.start <= a, a < b.start + b.size, c.start <= a, a < c.start + c.size
    PROVE  b = c
<1>1. b.start \in Boundaries(geo) /\ c.start \in Boundaries(geo)
  BY DEF Boundaries
<1>2. /\ b.start \in Nat /\ b.size \in Nat /\ c.start \in Nat /\ c.size \in Nat
      /\ b = [start |-> b.start, size |-> b.size] /\ b.size = SizeOf(geo, RegionAt(geo, b.start))
      /\ c = [start |-> c.start, size |-> c.size] /\ c.size = SizeOf(geo, RegionAt(geo, c.start))
  BY BlockFacts
<1>3. ~(b.start < c.start)
  BY <1>1, <1>2, NextBoundary
<1>4. ~(c.start < b.start)
  BY <1>1, <1>2, NextBoundary
<1>5. b.start = c.start
  BY <1>2, <1>3, <1>4
<1>. QED
  BY <1>2, <1>5

LEMMA InOrder ==
    ASSUME NEW geo, WellFormed(geo), NEW b \in Blocks(geo), NEW c \in Blocks(geo)
    PROVE  /\ b.start < c.start => b.start + b.size <= c.start
           /\ b.start <= c.start => b.start + b.size <= c.start + c.size
           /\ b.start = c.start => b = c
<1>1. c.start \in Boundaries(geo)
  BY DEF Boundaries
<1>2. /\ b.start \in Nat /\ b.size \in Nat \ {0} /\ c.start \in Nat /\ c.size \in Nat \ {0}
  BY BlockFacts
<1>3. b.start < c.start => b.start + b.size <= c.start
  BY <1>1, NextBoundary
<1>4. b.start = c.start => b = c
  <2> SUFFICES ASSUME b.start = c.start PROVE b = c
    OBVIOUS
  <2>1. /\ b.start <= b.start /\ b.start < b.start + b.size
        /\ c.start <= b.start /\ b.start < c.start + c.size
    BY <1>2
  <2>. QED
    BY <1>2, <2>1, SameBlock
<1>5. b.start <= c.start => b.start + b.size <= c.start + c.size
  BY <1>2, <1>3, <1>4
<1>. QED
  BY <1>3, <1>4, <1>5

\* Where a block ends another one starts, or the flash ends.
LEMMA NextBlock ==
    ASSUME NEW geo, WellFormed(geo), NEW b \in Blocks(geo)
    PROVE  b.start + b.size \in Boundaries(geo)
<1>0. FlashSize(geo) \in Nat
  BY Regions DEF RegionFacts
<1>1. b.start \in Nat /\ b.size \in Nat \ {0} /\ b.start + b.size <= FlashSize(geo)
  BY BlockFacts
<1>2. CASE b.start + b.size = FlashSize(geo)
  BY <1>2 DEF Boundaries
<1>3. CASE b.start + b.size < FlashSize(geo)
  <2>1. b.start + b.size \in Nat
    BY <1>1
  <2>2. PICK c \in Blocks(geo) : c.start <= b.start + b.size /\ b.start + b.size < c.start + c.size
    BY <1>3, <2>1, BlockAt
  <2>3. c.start \in Nat /\ c.size \in Nat /\ c.start \in Boundaries(geo)
    BY BlockFacts DEF Boundaries
  <2>4. b.start < c.start => b.start + b.size <= c.start
    BY <2>3, NextBoundary
  <2>5. ~(c.start <= b.start)
    <3> SUFFICES ASSUME c.start <= b.start PROVE FALSE
      OBVIOUS
    <3>1. b.start < c.start + c.size /\ b.start < b.start + b.size
      BY <1>1, <2>2, <2>3
    <3>2. c = b
      BY <1>1, <3>1, SameBlock
    <3>. QED
      BY <1>1, <2>2, <3>2
  <2>6. c.start = b.start + b.size
    BY <1>1, <2>2, <2>3, <2>4, <2>5
  <2>. QED
    BY <2>3, <2>6
<1>. QED
  BY <1>0, <1>1, <1>2, <1>3

\* The alignment test of the walk: between two blocks, and nowhere else.
LEMMA AlignedIff ==
    ASSUME NEW geo, WellFormed(geo), NEW x \in 0 .. FlashSize(geo)
    PROVE  x % SizeOf(geo, RegionAt(geo, x)) = 0 <=> x \in Boundaries(geo)
<1> DEFINE k == RegionAt(geo, x)
           s == SizeOf(geo, k)
<1>0. RegionFacts(geo)
  BY Regions
<1>1. k \in 1 .. RegionCount(geo) /\ OffsetOf(geo, k) <= x
      /\ (x < FlashSize(geo) \/ k < RegionCount(geo) => x < EndOf(geo, k))
  BY <1>0, RegionAtFound DEF RegionFacts
<1>2. s \in Nat \ {0} /\ x \in Nat /\ FlashSize(geo) \in Nat /\ EndOf(geo, k) <= FlashSize(geo)
      /\ EndOf(geo, k) \in Nat /\ RegionCount(geo) \in Nat
  BY <1>0, <1>1, EndsInside DEF RegionFacts
<1> HIDE DEF s
<1>3. CASE x < FlashSize(geo)
  <2>1. ASSUME x % s = 0 PROVE x \in Boundaries(geo)
    <3>1. PICK p \in Nat : x = p * s
      BY <1>2, <2>1, Multiple
    <3>2. [start |-> p * s, size |-> s] \in Blocks(geo)
      <4> HIDE DEF k
      <4>. QED
        BY <1>1, <1>3, <3>1, AlignedIsBlock DEF s
    <3>3. [start |-> p * s, size |-> s].start = x
      BY <3>1
    <3>. QED
      BY <3>2, <3>3 DEF Boundaries
  <2>2. ASSUME x \in Boundaries(geo) PROVE x % s = 0
    <3>1. PICK c \in Blocks(geo) : x = c.start
      BY <1>3, <1>2, <2>2 DEF Boundaries
    <3>2. c.size = s /\ \E p \in Nat : c.start = p * c.size
      BY <3>1, BlockFacts DEF s
    <3>. QED
      BY <1>2, <3>1, <3>2, Multiple
  <2>. QED
    BY <2>1, <2>2 DEF s
<1>4. CASE x = FlashSize(geo)
  <2> HIDE DEF k
  <2>1. k = RegionCount(geo)
    BY <1>1, <1>2, <1>4
  <2>2. EndOf(geo, k) = x
    BY <1>0, <1>4, <2>1 DEF RegionFacts
  <2>3. PICK q \in Nat : EndOf(geo, k) = (q + BlocksOf(geo, k)) * s
    BY <1>1, RegionBlocks DEF s
  <2>4. BlocksOf(geo, k) \in Nat
    BY <1>0, <1>1 DEF RegionFacts
  <2>5. x % s = 0
    <3>1. q + BlocksOf(geo, k) \in Nat
      BY <2>4
    <3>2. x = (q + BlocksOf(geo, k)) * s
      BY <2>2, <2>3
    <3>. QED
      BY <1>2, <3>1, <3>2, Multiple
  <2>. QED
    BY <1>4, <2>5 DEF Boundaries, k, s
<1>. QED
  BY <1>2, <1>3, <1>4

------------------------------------------------------------------------------
(***************************************************************************)
(* The walk of cfi_intelext_varsize_frob, at the byte x with l bytes left. *)
(***************************************************************************)
At(geo, x, l, p) ==
    /\ p.adr = x % geo.chipsize /\ p.chip = x \div geo.chipsize /\ p.left = l
    /\ x < FlashSize(geo) => p.region = RegionAt(geo, x)

LEMMA Chips ==
    ASSUME NEW geo, WellFormed(geo)
    PROVE  /\ geo.chipsize \in Nat \ {0} /\ geo.numchips \in Nat \ {0}
           /\ FlashSize(geo) = geo.numchips * geo.chipsize
<1>1. geo.chipsize \in Nat \ {0} /\ geo.numchips \in Nat \ {0}
  BY DEF WellFormed
<1>. QED
  BY <1>1 DEF FlashSize

LEMMA AtStart ==
    ASSUME NEW geo, NEW x, NEW l
    PROVE  At(geo, x, l, FrobStart(geo, x, l))
BY DEF At, FrobStart

LEMMA AtFacts ==
    ASSUME NEW geo, WellFormed(geo), NEW x \in 0 .. FlashSize(geo), NEW l, NEW p,
           At(geo, x, l, p)
    PROVE  /\ FrobBlock(geo, p) = x
           /\ p.chip \in 0 .. geo.numchips
           /\ p.chip >= geo.numchips <=> x = FlashSize(geo)
           /\ x < FlashSize(geo) => /\ FrobBlockSize(geo, p) = SizeOf(geo, RegionAt(geo, x))
                                    /\ p.region \in DOMAIN geo.regions
<1> DEFINE c == x \div geo.chipsize
           a == x % geo.chipsize
<1>0. RegionFacts(geo)
  BY Regions
<1>1. geo.chipsize \in Nat \ {0} /\ geo.numchips \in Nat \ {0}
      /\ FlashSize(geo) = geo.numchips * geo.chipsize
  BY Chips
<1>2. x \in Nat /\ FlashSize(geo) \in Nat
  BY <1>0 DEF RegionFacts
<1>3. c \in Nat /\ a \in 0 .. geo.chipsize - 1 /\ x = c * geo.chipsize + a
  BY <1>1, <1>2, DivMod
<1>4. p.chip = c /\ p.adr = a
  BY DEF At
<1> HIDE DEF c, a
<1>5. FrobBlock(geo, p) = x
  BY <1>3, <1>4 DEF FrobBlock
<1>6. c * geo.chipsize \in Nat
  BY <1>1, <1>3
<1>7. ASSUME x < FlashSize(geo) PROVE c < geo.numchips
  <2>1. c * geo.chipsize < geo.numchips * geo.chipsize
    BY <1>1, <1>2, <1>3, <1>6, <1>7
  <2>. QED
    BY <1>1, <1>3, <2>1, Cancel
<1>8. ASSUME x = FlashSize(geo) PROVE c = geo.numchips
  <2>1. x = geo.numchips * geo.chipsize + 0 /\ 0 \in 0 .. geo.chipsize - 1
    BY <1>1, <1>8
  <2>2. x \div geo.chipsize = geo.numchips
    BY <1>1, <1>2, <2>1, DivModUnique
  <2>. QED
    BY <2>2 DEF c
<1>9. ASSUME x < FlashSize(geo)
      PROVE  /\ FrobBlockSize(geo, p) = SizeOf(geo, RegionAt(geo, x))
             /\ p.region \in DOMAIN geo.regions
  <2>1. p.region = RegionAt(geo, x) /\ RegionAt(geo, x) \in 1 .. RegionCount(geo)
    BY <1>2, <1>9, RegionAtFound DEF At
  <2>. QED
    BY <1>0, <2>1 DEF FrobBlockSize, SizeOf, RegionFacts
<1>. QED
  BY <1>1, <1>2, <1>3, <1>4, <1>5, <1>7, <1>8, <1>9

\* A region ends with its chip, or before.
LEMMA EndsInChip ==
    ASSUME NEW geo, WellFormed(geo), NEW x \in Nat, x < FlashSize(geo),
           NEW c \in 0 .. geo.numchips - 1, x < (c + 1) * geo.chipsize
    PROVE  EndOf(geo, RegionAt(geo, x)) <= (c + 1) * geo.chipsize
<1> DEFINE k == RegionAt(geo, x)
<1>0. RegionFacts(geo)
  BY Regions
<1>1. geo.chipsize \in Nat \ {0} /\ geo.numchips \in Nat \ {0}
      /\ FlashSize(geo) = geo.numchips * geo.chipsize
  BY Chips
<1>2. k \in 1 .. RegionCount(geo) /\ OffsetOf(geo, k) <= x
  BY RegionAtFound
<1>3. OffsetOf(geo, k) \in Nat /\ EndOf(geo, k) \in Nat
  BY <1>0, <1>2 DEF RegionFacts
<1> HIDE DEF k
<1>4. CASE c + 1 = geo.numchips
  BY <1>1, <1>2, <1>4, EndsInside DEF k
<1>5. CASE c + 1 # geo.numchips
  <2>1. c + 1 \in 0 .. geo.numchips - 1
    BY <1>1, <1>5
  <2>2. PICK m \in 1 .. RegionCount(geo) : OffsetOf(geo, m) = (c + 1) * geo.chipsize
    BY <2>1 DEF WellFormed, RegionCount, OffsetOf
  <2>3. OffsetOf(geo, m) \in Nat /\ EndOf(geo, m) \in Nat
        /\ OffsetOf(geo, m) + SizeOf(geo, m) <= EndOf(geo, m) /\ SizeOf(geo, m) \in Nat
    BY <1>0, <2>2 DEF RegionFacts
  <2>4. ~(m < k)
    <3> SUFFICES ASSUME m < k PROVE FALSE
      OBVIOUS
    <3>1. EndOf(geo, m) <= OffsetOf(geo, k)
      BY <1>2, Later
    <3>. QED
      BY <1>2, <1>3, <2>2, <2>3, <3>1
  <2>5. k # m
    BY <1>2, <1>3, <2>2, <2>3
  <2>6. k < m
    BY <1>2, <2>2, <2>4, <2>5
  <2>. QED
    BY <1>2, <2>2, <2>6, Later DEF k
<1>. QED
  BY <1>4, <1>5

LEMMA AtNext ==
    ASSUME NEW geo, WellFormed(geo), NEW x \in Boundaries(geo), x < FlashSize(geo),
           NEW l \in Nat, NEW p, At(geo, x, l, p)
    PROVE  At(geo, x + SizeOf(geo, RegionAt(geo, x)), l - SizeOf(geo, RegionAt(geo, x)),
              FrobNext(geo, p))
<1> DEFINE k == RegionAt(geo, x)
           s == SizeOf(geo, k)
           e == EndOf(geo, k)
           cs == geo.chipsize
           c == x \div cs
           a == x % cs
           nxt == FrobNext(geo, p)
<1>0. RegionFacts(geo)
  BY Regions
<1>1. cs \in Nat \ {0} /\ geo.numchips \in Nat \ {0}
      /\ FlashSize(geo) = geo.numchips * cs /\ FlashSize(geo) \in Nat
  BY <1>0, Chips DEF RegionFacts
<1>2. x \in Nat /\ x \in 0 .. FlashSize(geo)
  BY <1>1, BoundaryInside
<1>3. c \in Nat /\ a \in 0 .. cs - 1 /\ x = c * cs + a
  <2> HIDE DEF cs
  <2>. QED
    BY <1>1, <1>2, DivMod
<1>4. k \in 1 .. RegionCount(geo) /\ OffsetOf(geo, k) <= x /\ x < e
  BY <1>2, RegionAtFound
<1>5. s \in Nat \ {0} /\ e \in Nat /\ OffsetOf(geo, k) \in Nat /\ RegionCount(geo) \in Nat
  BY <1>0, <1>4 DEF RegionFacts
<1>6. p.adr = a /\ p.chip = c /\ p.left = l /\ p.region = k
  BY DEF At
<1>7. /\ nxt.adr = IF a + s >= cs THEN 0 ELSE a + s
      /\ nxt.chip = IF a + s >= cs THEN c + 1 ELSE c
      /\ nxt.left = l - s
      /\ nxt.region = IF (a + s) % cs = e % cs THEN k + 1 ELSE k
  <2>1. geo.regions[p.region].erasesize = s /\ RegionEnd(geo.regions[p.region]) = e
    BY <1>6 DEF SizeOf, EndOf
  <2> HIDE DEF s, e, a, c, k, cs
  <2>2. /\ nxt.adr = IF p.adr + s >= cs THEN 0 ELSE p.adr + s
        /\ nxt.chip = IF p.adr + s >= cs THEN p.chip + 1 ELSE p.chip
        /\ nxt.left = p.left - s
        /\ nxt.region = IF (p.adr + s) % cs = e % cs THEN p.region + 1 ELSE p.region
    BY <2>1 DEF FrobNext, cs
  <2>. QED
    BY <1>6, <2>2
<1>8. x + s <= e
  <2>1. [start |-> x, size |-> s] \in Blocks(geo)
    BY BoundaryBlock
  <2>2. [start |-> x, size |-> s].start = x /\ [start |-> x, size |-> s].size = s
    OBVIOUS
  <2> HIDE DEF s
  <2>. QED
    BY <2>1, <2>2, BlockFacts
<1>9. c * cs \in Nat /\ (c + 1) * cs = c * cs + cs /\ c * cs <= x /\ x < (c + 1) * cs
  <2> HIDE DEF c, a, cs
  <2>1. (c + 1) * cs = c * cs + 1 * cs
    BY <1>1, <1>3, Distr
  <2>2. c * cs \in Nat /\ 1 * cs = cs
    BY <1>1, <1>3
  <2>. QED
    BY <1>1, <1>3, <2>1, <2>2
<1>10. c \in 0 .. geo.numchips - 1
  <2> HIDE DEF c, a, cs
  <2>1. c * cs < geo.numchips * cs
    BY <1>1, <1>2, <1>9
  <2>. QED
    BY <1>1, <1>3, <2>1, Cancel
<1>11. e <= c * cs + cs
  <2>1. e <= (c + 1) * cs
    <3> HIDE DEF c
    <3>. QED
      BY <1>2, <1>9, <1>10, EndsInChip
  <2>. QED
    BY <1>9, <2>1
<1> HIDE DEF k, s, e, c, a, nxt, cs
<1>12. NextByte(x, c, cs, a, s, e)
  <2>1. IsByte(x, c, cs, a)
    BY <1>3 DEF IsByte
  <2>. QED
    BY <1>1, <1>2, <1>3, <1>5, <1>8, <1>11, <2>1, Wraps
<1>15. nxt.adr = (x + s) % cs /\ nxt.chip = (x + s) \div cs
  BY <1>7, <1>12 DEF NextByte
<1>16. (a + s) % cs = e % cs <=> e = x + s
  BY <1>12 DEF NextByte
<1>17. ASSUME x + s < FlashSize(geo) PROVE nxt.region = RegionAt(geo, x + s)
  <2>1. x + s \in Nat
    BY <1>2, <1>5
  <2>2. CASE e = x + s
    <3>1. k # RegionCount(geo)
      BY <1>0, <1>1, <1>5, <1>17, <2>2 DEF RegionFacts, e
    <3>2. k + 1 \in 1 .. RegionCount(geo)
      BY <1>4, <1>5, <3>1
    <3>3. OffsetOf(geo, k + 1) = x + s
      BY <1>0, <1>4, <2>2, <3>2 DEF RegionFacts, e
    <3>4. OffsetOf(geo, k + 1) < EndOf(geo, k + 1)
      BY <1>0, <3>2 DEF RegionFacts
    <3>5. OffsetOf(geo, k + 1) <= x + s /\ x + s < EndOf(geo, k + 1)
      BY <2>1, <3>3, <3>4
    <3>6. RegionAt(geo, x + s) = k + 1
      BY <2>1, <3>2, <3>5, RegionAtIs
    <3>. QED
      BY <1>7, <1>16, <2>2, <3>6
  <2>3. CASE e # x + s
    <3>1. OffsetOf(geo, k) <= x + s /\ x + s < e
      BY <1>2, <1>4, <1>5, <1>8, <2>3
    <3>2. RegionAt(geo, x + s) = k
      BY <1>4, <2>1, <3>1, RegionAtIs DEF e
    <3>. QED
      BY <1>7, <1>16, <2>3, <3>2
  <2>. QED
    BY <2>2, <2>3
<1>. QED
  BY <1>7, <1>15, <1>17 DEF At, cs, nxt, s, k

\* What is refused, and what is not.
LEMMA RefusesIff ==
    ASSUME NEW geo, WellFormed(geo), NEW o \in Nat, NEW l \in Nat
    PROVE  /\ FrobRefuses(geo, o, l) <=> ~(o \in Boundaries(geo) /\ o + l \in Boundaries(geo))
           /\ ~FrobRefuses(geo, o, l) => o + l <= FlashSize(geo)
<1>0. FlashSize(geo) \in Nat
  BY Regions DEF RegionFacts
<1>1. CASE o + l > FlashSize(geo)
  BY <1>0, <1>1, BoundaryInside DEF FrobRefuses
<1>2. CASE ~(o + l > FlashSize(geo))
  <2>1. o \in 0 .. FlashSize(geo) /\ o + l \in 0 .. FlashSize(geo)
    BY <1>0, <1>2
  <2>2. o % SizeOf(geo, RegionAt(geo, o)) = 0 <=> o \in Boundaries(geo)
    BY <2>1, AlignedIff
  <2>3. (o + l) % SizeOf(geo, RegionAt(geo, o + l)) = 0 <=> o + l \in Boundaries(geo)
    BY <2>1, AlignedIff
  <2>. QED
    BY <1>2, <2>1, <2>2, <2>3 DEF FrobRefuses, SizeOf
<1>. QED
  BY <1>1, <1>2

\* The walk over l bytes from o is at the boundary x.
Walk(geo, o, l, x, p) ==
    /\ x \in Boundaries(geo) /\ o <= x /\ x <= o + l
    /\ At(geo, x, o + l - x, p)

LEMMA WalkStart ==
    ASSUME NEW geo, WellFormed(geo), NEW o \in Nat, NEW l \in Nat, ~FrobRefuses(geo, o, l)
    PROVE  Walk(geo, o, l, o, FrobStart(geo, o, l))
<1>1. o \in Boundaries(geo)
  BY RefusesIff
<1>2. At(geo, o, l, FrobStart(geo, o, l)) /\ o + l - o = l
  BY AtStart
<1>. QED
  BY <1>1, <1>2 DEF Walk

LEMMA WalkHere ==
    ASSUME NEW geo, WellFormed(geo), NEW o \in Nat, NEW l \in Nat, ~FrobRefuses(geo, o, l),
           NEW x, NEW p, Walk(geo, o, l, x, p)
    PROVE  /\ x \in Nat /\ p.left = o + l - x /\ p.left \in 0 .. l
           /\ FrobBlock(geo, p) = x
           /\ p.chip \in 0 .. geo.numchips
           /\ FrobEnded(geo, p) <=> x = o + l
           /\ ~FrobEnded(geo, p) =>
                 /\ x < o + l /\ p.region \in DOMAIN geo.regions
                 /\ [start |-> x, size |-> FrobBlockSize(geo, p)] \in Blocks(geo)
                 /\ FrobBlockSize(geo, p) \in Nat \ {0}
                 /\ x + FrobBlockSize(geo, p) <= o + l
                 /\ x + FrobBlockSize(geo, p) \in Boundaries(geo)
                 /\ Walk(geo, o, l, x + FrobBlockSize(geo, p), FrobNext(geo, p))
<1> DEFINE s == SizeOf(geo, RegionAt(geo, x))
<1>0. RegionFacts(geo)
  BY Regions
<1>1. o + l <= FlashSize(geo) /\ o + l \in Boundaries(geo) /\ FlashSize(geo) \in Nat
  BY <1>0, RefusesIff DEF RegionFacts
<1>2. x \in Nat /\ x \in 0 .. FlashSize(geo) /\ x \in Boundaries(geo) /\ o <= x /\ x <= o + l
  BY <1>1, BoundaryInside DEF Walk
<1>3. p.left = o + l - x /\ At(geo, x, o + l - x, p)
  BY DEF Walk, At
<1>4. /\ FrobBlock(geo, p) = x
      /\ p.chip \in 0 .. geo.numchips
      /\ p.chip >= geo.numchips <=> x = FlashSize(geo)
      /\ x < FlashSize(geo) => FrobBlockSize(geo, p) = s /\ p.region \in DOMAIN geo.regions
  BY <1>2, <1>3, AtFacts
<1>5. FrobEnded(geo, p) <=> x = o + l
  <2>1. p.left = 0 <=> x = o + l
    BY <1>2, <1>3
  <2>2. x = FlashSize(geo) => x = o + l
    BY <1>1, <1>2
  <2>. QED
    BY <1>4, <2>1, <2>2 DEF FrobEnded
<1>6. ASSUME ~FrobEnded(geo, p)
      PROVE  /\ x < o + l /\ p.region \in DOMAIN geo.regions
             /\ [start |-> x, size |-> FrobBlockSize(geo, p)] \in Blocks(geo)
             /\ FrobBlockSize(geo, p) \in Nat \ {0}
             /\ x + FrobBlockSize(geo, p) <= o + l
             /\ x + FrobBlockSize(geo, p) \in Boundaries(geo)
             /\ Walk(geo, o, l, x + FrobBlockSize(geo, p), FrobNext(geo, p))
  <2>1. x < o + l /\ x < FlashSize(geo)
    BY <1>1, <1>2, <1>5, <1>6
  <2>2. RegionAt(geo, x) \in 1 .. RegionCount(geo)
    BY <1>2, RegionAtFound
  <2>3. s \in Nat \ {0}
    BY <1>0, <2>2 DEF RegionFacts
  <2>4. [start |-> x, size |-> s] \in Blocks(geo)
    BY <1>2, <2>1, BoundaryBlock
  <2>5. [start |-> x, size |-> s].start = x /\ [start |-> x, size |-> s].size = s
    OBVIOUS
  <2>6. At(geo, x + s, (o + l - x) - s, FrobNext(geo, p))
    BY <1>2, <1>3, <2>1, AtNext
  <2> HIDE DEF s
  <2>7. x + s \in Boundaries(geo)
    BY <2>4, <2>5, NextBlock
  <2>8. x + s <= o + l
    BY <1>1, <2>1, <2>4, <2>5, NextBoundary
  <2>9. (o + l - x) - s = o + l - (x + s) /\ o <= x + s
    BY <1>2, <2>3
  <2>10. Walk(geo, o, l, x + s, FrobNext(geo, p))
    BY <2>6, <2>7, <2>8, <2>9 DEF Walk
  <2>. QED
    BY <1>4, <2>1, <2>3, <2>4, <2>7, <2>8, <2>10
<1>. QED
  BY <1>1, <1>2, <1>3, <1>4, <1>5, <1>6

\* The blocks of a range that starts between two blocks.
LEMMA CoveringIs ==
    ASSUME NEW geo, WellFormed(geo), NEW o \in Boundaries(geo), NEW l \in Nat,
           NEW b \in Blocks(geo)
    PROVE  b \in Covering(geo, o, l) <=> o <= b.start /\ b.start < o + l
<1>1. o \in Nat /\ b.start \in Nat /\ b.size \in Nat \ {0}
  BY BoundaryInside, BlockFacts
<1>2. b.start < o => b.start + b.size <= o
  BY NextBoundary
<1>. QED
  BY <1>1, <1>2 DEF Covering

------------------------------------------------------------------------------
(***************************************************************************)
(* find_erase_size.                                                        *)
(***************************************************************************)
LEMMA TotalsExist ==
    ASSUME NEW s \in Seq(Nat), NEW n \in 0 .. Len(s)
    PROVE  \E t : t = [k \in 0 .. n |-> IF k = 0 THEN 0 ELSE t[k - 1] + s[k]]
<1> DEFINE Bad == {m \in 0 .. Len(s) :
                      ~\E t : t = [k \in 0 .. m |-> IF k = 0 THEN 0 ELSE t[k - 1] + s[k]]}
<1>1. SUFFICES ASSUME Bad # {} PROVE FALSE
  OBVIOUS
<1>2. Bad \in SUBSET Nat
  OBVIOUS
<1>3. PICK m \in Bad : \A j \in Bad : m <= j
  <2> HIDE DEF Bad
  <2>. QED
    BY <1>1, <1>2, LeastCase
<1>4. m \in Nat /\ m <= Len(s) /\ Len(s) \in Nat
  OBVIOUS
<1>5. CASE m = 0
  <2> DEFINE t == [k \in 0 .. m |-> 0]
  <2>1. t = [k \in 0 .. m |-> IF k = 0 THEN 0 ELSE t[k - 1] + s[k]]
    BY <1>5
  <2>. QED
    BY <2>1
<1>6. CASE m # 0
  <2>1. m - 1 \in 0 .. Len(s) /\ m - 1 \notin Bad
    <3>1. m - 1 \in 0 .. Len(s)
      BY <1>4, <1>6
    <3>2. m - 1 \notin Bad
      <4> HIDE DEF Bad
      <4>. QED
        BY <1>3, <1>4
    <3>. QED
      BY <3>1, <3>2
  <2>2. PICK t : t = [k \in 0 .. m - 1 |-> IF k = 0 THEN 0 ELSE t[k - 1] + s[k]]
    BY <2>1
  <2> DEFINE u == [k \in 0 .. m |-> IF k = 0 THEN 0 ELSE t[k - 1] + s[k]]
  <2>3. \A k \in 0 .. m - 1 : u[k] = t[k]
    <3> SUFFICES ASSUME NEW k \in 0 .. m - 1 PROVE u[k] = t[k]
      OBVIOUS
    <3>1. k \in 0 .. m
      BY <1>4
    <3>2. t[k] = IF k = 0 THEN 0 ELSE t[k - 1] + s[k]
      BY <2>2, Zenon
    <3>. QED
      BY <3>1, <3>2
  <2>4. ASSUME NEW k \in 0 .. m PROVE u[k] = IF k = 0 THEN 0 ELSE u[k - 1] + s[k]
    <3>1. CASE k = 0
      BY <3>1
    <3>2. CASE k # 0
      <4>1. k - 1 \in 0 .. m - 1
        BY <1>4, <3>2
      <4>2. u[k - 1] = t[k - 1]
        BY <2>3, <4>1
      <4>3. u[k] = t[k - 1] + s[k]
        BY <3>2
      <4>. QED
        BY <3>2, <4>2, <4>3
    <3>. QED
      BY <3>1, <3>2
  <2>5. u = [k \in 0 .. m |-> IF k = 0 THEN 0 ELSE u[k - 1] + s[k]]
    <3>1. u = [k \in 0 .. m |-> u[k]]
      OBVIOUS
    <3> HIDE DEF u
    <3>. QED
      BY <2>4, <3>1, Zenon
  <2> HIDE DEF u
  <2>6. m \notin Bad
    BY <2>5
  <2>. QED
    BY <1>3, <2>6
<1>. QED
  BY <1>5, <1>6

\* What the running totals are, one by one.
LEMMA TotalsAre ==
    ASSUME NEW s \in Seq(Nat)
    PROVE  /\ Totals(s)[0] = 0
           /\ \A k \in 1 .. Len(s) : Totals(s)[k] = Totals(s)[k - 1] + s[k]
<1>1. Len(s) \in 0 .. Len(s) /\ Len(s) \in Nat
  OBVIOUS
<1>2. \E t : t = [k \in 0 .. Len(s) |-> IF k = 0 THEN 0 ELSE t[k - 1] + s[k]]
  BY <1>1, TotalsExist
<1>3. Totals(s) = CHOOSE t : t = [k \in 0 .. Len(s) |-> IF k = 0 THEN 0 ELSE t[k - 1] + s[k]]
  BY DEF Totals
<1>4. Totals(s) = [k \in 0 .. Len(s) |-> IF k = 0 THEN 0 ELSE Totals(s)[k - 1] + s[k]]
  BY <1>2, <1>3, Zenon
<1>5. \A k \in 0 .. Len(s) : Totals(s)[k] = IF k = 0 THEN 0 ELSE Totals(s)[k - 1] + s[k]
  BY <1>4, Zenon
<1>6. Totals(s)[0] = 0
  BY <1>1, <1>5
<1>7. ASSUME NEW k \in 1 .. Len(s) PROVE Totals(s)[k] = Totals(s)[k - 1] + s[k]
  <2>1. k \in 0 .. Len(s) /\ k # 0
    BY <1>1
  <2>. QED
    BY <1>5, <2>1
<1>. QED
  BY <1>6, <1>7

\* The bytes of the regions from first to last, from the start of the first.
RegionSizes(geo, first, last) ==
    [k \in 1 .. last - first + 1 |->
        geo.regions[first + k - 1].erasesize * geo.regions[first + k - 1].numblocks]

LEMMA RegionTotals ==
    ASSUME NEW geo, WellFormed(geo), NEW first \in 1 .. RegionCount(geo),
           NEW last \in first .. RegionCount(geo), NEW k \in 1 .. last - first + 1
    PROVE  Totals(RegionSizes(geo, first, last))[k - 1]
              = OffsetOf(geo, first + k - 1) - OffsetOf(geo, first)
<1> DEFINE s == RegionSizes(geo, first, last)
           n == last - first + 1
           Bad == {j \in 1 .. n : ~(Totals(s)[j - 1] = OffsetOf(geo, first + j - 1) - OffsetOf(geo, first))}
<1>0. RegionFacts(geo)
  BY Regions
<1>1. n \in Nat /\ first \in Nat /\ last \in Nat /\ RegionCount(geo) \in Nat /\ last <= RegionCount(geo)
  BY <1>0 DEF RegionFacts
<1>2. \A j \in 1 .. n : first + j - 1 \in 1 .. RegionCount(geo)
  BY <1>1
<1>3. ASSUME NEW j \in 1 .. n
      PROVE  /\ s[j] = SizeOf(geo, first + j - 1) * BlocksOf(geo, first + j - 1)
             /\ s[j] \in Nat
             /\ s[j] = EndOf(geo, first + j - 1) - OffsetOf(geo, first + j - 1)
  <2>1. s[j] = SizeOf(geo, first + j - 1) * BlocksOf(geo, first + j - 1)
    BY DEF RegionSizes, SizeOf, BlocksOf
  <2>2. /\ SizeOf(geo, first + j - 1) \in Nat \ {0} /\ BlocksOf(geo, first + j - 1) \in Nat \ {0}
        /\ OffsetOf(geo, first + j - 1) \in Nat
    BY <1>0, <1>2 DEF RegionFacts
  <2>3. EndOf(geo, first + j - 1) = OffsetOf(geo, first + j - 1)
                                      + SizeOf(geo, first + j - 1) * BlocksOf(geo, first + j - 1)
    BY DEF EndOf, RegionEnd, OffsetOf, SizeOf, BlocksOf
  <2>4. SizeOf(geo, first + j - 1) * BlocksOf(geo, first + j - 1) \in Nat
    BY <2>2, MulPos
  <2> HIDE DEF s
  <2>. QED
    BY <2>1, <2>2, <2>3, <2>4
<1>4. s \in Seq(Nat) /\ Len(s) = n
  <2>1. s = [j \in 1 .. n |-> s[j]]
    BY DEF RegionSizes
  <2> HIDE DEF s, n
  <2>2. s \in [1 .. n -> Nat]
    BY <1>3, <2>1
  <2>. QED
    BY <1>1, <2>2
<1>5. Totals(s)[0] = 0 /\ \A j \in 1 .. n : Totals(s)[j] = Totals(s)[j - 1] + s[j]
  <2> HIDE DEF s, n
  <2>. QED
    BY <1>4, TotalsAre
<1>6. OffsetOf(geo, first) \in Nat
  BY <1>0 DEF RegionFacts
<1> SUFFICES ASSUME Bad # {} PROVE FALSE
  OBVIOUS
<1>7. Bad \in SUBSET Nat
  OBVIOUS
<1>8. PICK j \in Bad : \A i \in Bad : j <= i
  <2> HIDE DEF Bad
  <2>. QED
    BY <1>7, LeastCase
<1> HIDE DEF s, n
<1>9. j \in 1 .. n /\ ~(Totals(s)[j - 1] = OffsetOf(geo, first + j - 1) - OffsetOf(geo, first))
  OBVIOUS
<1>10. CASE j = 1
  <2>1. first + j - 1 = first /\ j - 1 = 0
    BY <1>1, <1>10
  <2>. QED
    BY <1>5, <1>6, <1>9, <2>1
<1>11. CASE j # 1
  <2>1. j - 1 \in 1 .. n
    BY <1>1, <1>9, <1>11
  <2>2. j - 1 \notin Bad
    <3> HIDE DEF Bad
    <3>. QED
      BY <1>1, <1>8, <1>9
  <2>3. Totals(s)[(j - 1) - 1] = OffsetOf(geo, first + (j - 1) - 1) - OffsetOf(geo, first)
    BY <2>1, <2>2
  <2>4. Totals(s)[j - 1] = Totals(s)[(j - 1) - 1] + s[j - 1]
    BY <1>5, <2>1
  <2>5. s[j - 1] = EndOf(geo, first + (j - 1) - 1) - OffsetOf(geo, first + (j - 1) - 1)
    BY <1>3, <2>1
  <2>6. first + (j - 1) - 1 \in 1 .. RegionCount(geo) /\ first + j - 1 \in 1 .. RegionCount(geo)
        /\ first + j - 1 = (first + (j - 1) - 1) + 1
    BY <1>1, <1>2, <1>9, <2>1
  <2>7. OffsetOf(geo, first + j - 1) = EndOf(geo, first + (j - 1) - 1)
    BY <1>0, <2>6 DEF RegionFacts
  <2>8. OffsetOf(geo, first + (j - 1) - 1) \in Nat /\ EndOf(geo, first + (j - 1) - 1) \in Nat
    BY <1>0, <2>6 DEF RegionFacts
  <2>. QED
    BY <1>6, <1>9, <2>3, <2>4, <2>5, <2>7, <2>8
<1>. QED
  BY <1>10, <1>11

\* The block of region k that starts j blocks into it.
LEMMA NthBlock ==
    ASSUME NEW geo, WellFormed(geo), NEW k \in 1 .. RegionCount(geo),
           NEW j \in 0 .. BlocksOf(geo, k) - 1
    PROVE  LET c == [start |-> OffsetOf(geo, k) + j * SizeOf(geo, k), size |-> SizeOf(geo, k)]
           IN /\ c \in Blocks(geo) /\ RegionAt(geo, c.start) = k
              /\ c.start + c.size - OffsetOf(geo, k) = (j + 1) * SizeOf(geo, k)
<1> DEFINE s == SizeOf(geo, k)
           c == [start |-> OffsetOf(geo, k) + j * s, size |-> s]
<1>0. RegionFacts(geo)
  BY Regions
<1>1. /\ OffsetOf(geo, k) \in Nat /\ s \in Nat \ {0} /\ BlocksOf(geo, k) \in Nat \ {0}
      /\ EndOf(geo, k) \in Nat
  BY <1>0 DEF RegionFacts
<1>2. geo.regions[k] \in ToSet(geo.regions)
  BY <1>0 DEF ToSet, RegionFacts
<1>3. c \in Blocks(geo)
  BY <1>2 DEF Blocks, OffsetOf, SizeOf, BlocksOf
<1>4. EndOf(geo, k) = OffsetOf(geo, k) + BlocksOf(geo, k) * s
  <2>1. EndOf(geo, k) = OffsetOf(geo, k) + s * BlocksOf(geo, k)
    BY DEF EndOf, RegionEnd, OffsetOf, SizeOf, BlocksOf
  <2> HIDE DEF s
  <2>2. s * BlocksOf(geo, k) = BlocksOf(geo, k) * s
    BY <1>1
  <2>. QED
    BY <2>1, <2>2
<1> HIDE DEF s
<1>5. j \in Nat /\ j * s \in Nat /\ j * s + s <= BlocksOf(geo, k) * s
  BY <1>1, MulStep
<1>6. c.start = OffsetOf(geo, k) + j * s /\ c.size = s
  OBVIOUS
<1>7. BlocksOf(geo, k) * s \in Nat
  BY <1>1
<1> HIDE DEF c
<1>8. c.start \in Nat /\ OffsetOf(geo, k) <= c.start /\ c.start < EndOf(geo, k)
  BY <1>1, <1>4, <1>5, <1>6, <1>7
<1>9. RegionAt(geo, c.start) = k
  BY <1>8, RegionAtIs
<1>10. (j + 1) * s = j * s + 1 * s /\ 1 * s = s
  BY <1>1, <1>5, Distr
<1>11. c.start + c.size - OffsetOf(geo, k) = (j + 1) * s
  BY <1>1, <1>5, <1>6, <1>10
<1>. QED
  BY <1>3, <1>9, <1>11 DEF c, s

\* Where blocks end, from the start of region first.
LEMMA BlockEndsAre ==
    ASSUME NEW geo, WellFormed(geo), NEW first \in 1 .. RegionCount(geo),
           NEW last \in first .. RegionCount(geo), NEW e
    PROVE  e \in BlockEnds(geo, first, last) <=>
              \E c \in Blocks(geo) : /\ RegionAt(geo, c.start) \in first .. last
                                     /\ e = c.start + c.size - OffsetOf(geo, first)
<1> DEFINE n == last - first + 1
           T == Totals(RegionSizes(geo, first, last))
<1>0. RegionFacts(geo)
  BY Regions
<1>1. n \in Nat /\ first \in Nat /\ last \in Nat /\ RegionCount(geo) \in Nat /\ last <= RegionCount(geo)
  BY <1>0 DEF RegionFacts
<1>2. e \in BlockEnds(geo, first, last) <=>
         \E k \in 1 .. n : \E b \in 1 .. BlocksOf(geo, first + k - 1) :
            e = T[k - 1] + b * SizeOf(geo, first + k - 1)
  <2>1. BlockEnds(geo, first, last) =
           UNION {{T[k - 1] + b * SizeOf(geo, first + k - 1) : b \in 1 .. BlocksOf(geo, first + k - 1)} :
                     k \in 1 .. n}
    BY DEF BlockEnds, RegionSizes, BlocksOf, SizeOf
  <2> HIDE DEF n, T
  <2>. QED
    BY <2>1
<1>3. \A k \in 1 .. n : T[k - 1] = OffsetOf(geo, first + k - 1) - OffsetOf(geo, first)
  BY RegionTotals
<1>4. OffsetOf(geo, first) \in Nat
  BY <1>0 DEF RegionFacts
<1> HIDE DEF n, T
<1>5. ASSUME NEW k \in 1 .. n, NEW b \in 1 .. BlocksOf(geo, first + k - 1),
             e = T[k - 1] + b * SizeOf(geo, first + k - 1)
      PROVE  \E c \in Blocks(geo) : /\ RegionAt(geo, c.start) \in first .. last
                                    /\ e = c.start + c.size - OffsetOf(geo, first)
  <2> DEFINE r == first + k - 1
             s == SizeOf(geo, r)
             c == [start |-> OffsetOf(geo, r) + (b - 1) * s, size |-> s]
  <2>1. r \in 1 .. RegionCount(geo) /\ r \in first .. last
    BY <1>1 DEF n
  <2>2. OffsetOf(geo, r) \in Nat /\ BlocksOf(geo, r) \in Nat
    BY <1>0, <2>1 DEF RegionFacts
  <2>3. b - 1 \in 0 .. BlocksOf(geo, r) - 1 /\ (b - 1) + 1 = b
    BY <2>2
  <2> HIDE DEF r
  <2>4. c \in Blocks(geo) /\ RegionAt(geo, c.start) = r
        /\ c.start + c.size - OffsetOf(geo, r) = ((b - 1) + 1) * s
    BY <2>1, <2>3, NthBlock
  <2>5. e = OffsetOf(geo, r) - OffsetOf(geo, first) + b * s
    BY <1>3, <1>5 DEF r
  <2> HIDE DEF c, s
  <2>6. c.start \in Nat /\ c.size \in Nat
    BY <2>4, BlockFacts
  <2>7. b * s = c.start + c.size - OffsetOf(geo, r)
    BY <2>3, <2>4
  <2>8. e = c.start + c.size - OffsetOf(geo, first)
    BY <1>4, <2>2, <2>5, <2>6, <2>7
  <2>. QED
    BY <2>1, <2>4, <2>8
<1>6. ASSUME NEW c \in Blocks(geo), RegionAt(geo, c.start) \in first .. last,
             e = c.start + c.size - OffsetOf(geo, first)
      PROVE  \E k \in 1 .. n : \E b \in 1 .. BlocksOf(geo, first + k - 1) :
                e = T[k - 1] + b * SizeOf(geo, first + k - 1)
  <2> DEFINE r == RegionAt(geo, c.start)
             s == SizeOf(geo, r)
             k == r - first + 1
  <2>1. k \in 1 .. n /\ first + k - 1 = r /\ r \in 1 .. RegionCount(geo)
    BY <1>1, <1>6 DEF n
  <2>2. PICK j \in 0 .. BlocksOf(geo, r) - 1 : c.start = OffsetOf(geo, r) + j * c.size
    BY BlockFacts
  <2>3. c.start \in Nat /\ c.size \in Nat /\ c.size = s
    BY BlockFacts
  <2> HIDE DEF r, s
  <2>4. OffsetOf(geo, r) \in Nat /\ BlocksOf(geo, r) \in Nat
    BY <1>0, <2>1 DEF RegionFacts
  <2>5. j + 1 \in 1 .. BlocksOf(geo, r) /\ j \in Nat
    BY <2>4
  <2>6. (j + 1) * s = j * s + 1 * s /\ 1 * s = s /\ j * s \in Nat
    BY <2>3, <2>5, Distr
  <2>7. T[k - 1] = OffsetOf(geo, r) - OffsetOf(geo, first)
    <3> HIDE DEF k
    <3>. QED
      BY <1>3, <2>1
  <2>8. e = (OffsetOf(geo, r) - OffsetOf(geo, first)) + (j + 1) * s
    <3>1. c.start = OffsetOf(geo, r) + j * s
      BY <2>2, <2>3
    <3>. QED
      BY <1>4, <1>6, <2>3, <2>4, <2>6, <3>1
  <2> HIDE DEF k
  <2>. QED
    BY <2>1, <2>5, <2>7, <2>8 DEF s
<1>. QED
  BY <1>2, <1>5, <1>6

LEMMA RegionsInOrder ==
    ASSUME NEW geo, WellFormed(geo), NEW x \in Nat, NEW y \in Nat, x <= y
    PROVE  RegionAt(geo, x) <= RegionAt(geo, y)
<1> DEFINE k == RegionAt(geo, x)
           m == RegionAt(geo, y)
<1>0. RegionFacts(geo)
  BY Regions
<1>1. k \in 1 .. RegionCount(geo) /\ OffsetOf(geo, k) <= x
  BY RegionAtFound
<1>2. m \in 1 .. RegionCount(geo) /\ (m < RegionCount(geo) => y < EndOf(geo, m))
  BY RegionAtFound
<1>3. /\ OffsetOf(geo, k) \in Nat /\ EndOf(geo, m) \in Nat /\ RegionCount(geo) \in Nat
  BY <1>0, <1>1, <1>2 DEF RegionFacts
<1> HIDE DEF k, m
<1>4. ~(m < k)
  <2> SUFFICES ASSUME m < k PROVE FALSE
    OBVIOUS
  <2>1. EndOf(geo, m) <= OffsetOf(geo, k)
    BY <1>1, <1>2, Later
  <2>2. m < RegionCount(geo)
    BY <1>1, <1>2, <1>3
  <2>. QED
    BY <1>1, <1>2, <1>3, <2>1, <2>2
<1>5. k <= m
  BY <1>1, <1>2, <1>4
<1>. QED
  BY <1>5 DEF k, m

\* Whatever the range, the result is a number of bytes.
LEMMA FindEraseSizeType ==
    ASSUME NEW geo, WellFormed(geo), NEW o \in Nat, NEW l \in Nat
    PROVE  /\ FindEraseSize(geo, o, l) \in Nat
           /\ BlockEnds(geo, RegionAt(geo, o), RegionAt(geo, o + l)) \in SUBSET Nat
<1> DEFINE first == RegionAt(geo, o)
           last == RegionAt(geo, o + l)
           ends == BlockEnds(geo, first, last)
<1>0. RegionFacts(geo)
  BY Regions
<1>1. first \in 1 .. RegionCount(geo) /\ last \in first .. RegionCount(geo)
  <2>1. o + l \in Nat /\ o <= o + l
    OBVIOUS
  <2>2. first \in 1 .. RegionCount(geo) /\ last \in 1 .. RegionCount(geo)
    BY <2>1, RegionAtFound
  <2>3. first <= last
    BY <2>1, RegionsInOrder
  <2>. QED
    BY <2>2, <2>3
<1>2. OffsetOf(geo, first) \in Nat
  BY <1>0, <1>1 DEF RegionFacts
<1> HIDE DEF first, last
<1>3. ASSUME NEW e \in ends PROVE e \in Nat
  <2>1. PICK c \in Blocks(geo) : /\ RegionAt(geo, c.start) \in first .. last
                                 /\ e = c.start + c.size - OffsetOf(geo, first)
    BY <1>1, BlockEndsAre
  <2> DEFINE r == RegionAt(geo, c.start)
  <2>2. /\ c.start \in Nat /\ c.size \in Nat /\ r \in 1 .. RegionCount(geo)
        /\ OffsetOf(geo, r) <= c.start
    BY BlockFacts
  <2>3. OffsetOf(geo, r) \in Nat /\ EndOf(geo, first) \in Nat /\ SizeOf(geo, first) \in Nat
        /\ OffsetOf(geo, first) + SizeOf(geo, first) <= EndOf(geo, first)
    BY <1>0, <1>1, <2>2 DEF RegionFacts
  <2>4. OffsetOf(geo, first) <= OffsetOf(geo, r)
    <3>1. CASE r = first
      BY <1>2, <3>1
    <3>2. CASE first < r
      <4> HIDE DEF r
      <4>1. EndOf(geo, first) <= OffsetOf(geo, r)
        BY <1>1, <2>2, <3>2, Later
      <4>. QED
        BY <1>2, <2>3, <4>1
    <3>. QED
      BY <1>1, <2>1, <3>1, <3>2
  <2> HIDE DEF r
  <2>. QED
    BY <1>2, <2>1, <2>2, <2>3, <2>4
<1>4. ends \in SUBSET Nat
  BY <1>3
<1> HIDE DEF ends
<1>5. FindEraseSize(geo, o, l) = IF {e \in ends : e >= l} = {} THEN 0 ELSE Min({e \in ends : e >= l})
  BY DEF FindEraseSize, ends, first, last
<1>6. {e \in ends : e >= l} # {} => Min({e \in ends : e >= l}) \in Nat
  <2>1. {e \in ends : e >= l} \in SUBSET Nat
    BY <1>4
  <2>2. {e \in ends : e >= l} # {} => Min({e \in ends : e >= l}) \in {e \in ends : e >= l}
    BY <2>1, MinIs
  <2>. QED
    BY <2>1, <2>2
<1>. QED
  BY <1>4, <1>5, <1>6 DEF ends, first, last

\* A well placed range is erased up to the end of the block of its last byte.
LEMMA EraseEnds ==
    ASSUME NEW geo, WellFormed(geo), NEW o \in Nat, NEW l \in Nat, WellPlaced(geo, o, l)
    PROVE  \E z \in Blocks(geo) : /\ o <= z.start /\ z.start < o + l /\ o + l <= z.start + z.size
                                  /\ o + FindEraseSize(geo, o, l) = z.start + z.size
<1> DEFINE first == RegionAt(geo, o)
           last == RegionAt(geo, o + l)
           ends == BlockEnds(geo, first, last)
           enough == {e \in ends : e >= l}
<1>0. RegionFacts(geo)
  BY Regions
<1>1. /\ l > 0 /\ o + l <= FlashSize(geo) /\ o \in Boundaries(geo)
      /\ o = OffsetOf(geo, first) \/ o + l <= EndOf(geo, first)
      /\ FlashSize(geo) \in Nat /\ o + l \in Nat /\ o < FlashSize(geo)
  BY <1>0 DEF WellPlaced, OffsetOf, EndOf, RegionFacts
<1>2. /\ first \in 1 .. RegionCount(geo) /\ last \in 1 .. RegionCount(geo) /\ first <= last
      /\ OffsetOf(geo, first) <= o /\ o < EndOf(geo, first)
  BY <1>1, RegionAtFound, RegionsInOrder
<1>3. last \in first .. RegionCount(geo) /\ OffsetOf(geo, first) \in Nat /\ EndOf(geo, first) \in Nat
  BY <1>0, <1>2 DEF RegionFacts
<1>4. PICK z \in Blocks(geo) : z.start <= o + l - 1 /\ o + l - 1 < z.start + z.size
  <2>1. o + l - 1 \in Nat /\ o + l - 1 < FlashSize(geo)
    BY <1>1
  <2>. QED
    BY <2>1, BlockAt
<1>5. z.start \in Nat /\ z.size \in Nat \ {0}
  BY BlockFacts
<1>6. z.start < o + l /\ o + l <= z.start + z.size
  BY <1>1, <1>4, <1>5
<1>7. o <= z.start
  <2>1. z.start < o => z.start + z.size <= o
    BY <1>1, NextBoundary
  <2>. QED
    BY <1>1, <1>5, <1>6, <2>1
<1>8. RegionAt(geo, z.start) \in first .. last
  <2>1. first <= RegionAt(geo, z.start) /\ RegionAt(geo, z.start) <= last
    BY <1>1, <1>5, <1>6, <1>7, RegionsInOrder
  <2>2. RegionAt(geo, z.start) \in 1 .. RegionCount(geo)
    BY BlockFacts
  <2>. QED
    BY <1>2, <2>1, <2>2
<1>9. \A e : e \in ends <=>
         \E c \in Blocks(geo) : /\ RegionAt(geo, c.start) \in first .. last
                                /\ e = c.start + c.size - OffsetOf(geo, first)
  BY <1>2, <1>3, BlockEndsAre
<1>10. ends \in SUBSET Nat
  BY FindEraseSizeType
<1>11. FindEraseSize(geo, o, l) = IF enough = {} THEN 0 ELSE Min(enough)
  BY DEF FindEraseSize
<1> HIDE DEF first, last, ends
\* It suffices that a block y ends as far from the start of the region as z from o.
<1>12. ASSUME NEW y \in Blocks(geo), RegionAt(geo, y.start) \in first .. last,
              y.start + y.size - OffsetOf(geo, first) = z.start + z.size - o,
              y.start - OffsetOf(geo, first) < l
       PROVE  o + FindEraseSize(geo, o, l) = z.start + z.size
  <2> DEFINE m == z.start + z.size - o
  <2>1. y.start \in Nat /\ y.size \in Nat
    BY BlockFacts
  <2>2. m \in enough
    BY <1>1, <1>5, <1>6, <1>9, <1>12
  <2>3. ASSUME NEW e \in enough PROVE m <= e
    <3>1. PICK c \in Blocks(geo) : /\ RegionAt(geo, c.start) \in first .. last
                                   /\ e = c.start + c.size - OffsetOf(geo, first)
      BY <1>9
    <3>2. c.start \in Nat /\ c.size \in Nat
      BY BlockFacts
    <3>3. ~(c.start < y.start)
      <4> SUFFICES ASSUME c.start < y.start PROVE FALSE
        OBVIOUS
      <4>1. c.start + c.size <= y.start
        BY InOrder
      <4>. QED
        BY <1>3, <1>12, <2>1, <3>1, <3>2, <4>1
    <3>4. y.start + y.size <= c.start + c.size
      BY <2>1, <3>2, <3>3, InOrder
    <3>. QED
      BY <1>3, <1>12, <2>1, <3>1, <3>2, <3>4
  <2>4. enough \in SUBSET Nat
    BY <1>10
  <2> HIDE DEF enough, m
  <2>5. enough # {} /\ Min(enough) \in enough /\ \A e \in enough : Min(enough) <= e
    BY <2>2, <2>4, MinIs
  <2>6. Min(enough) = m
    <3>1. m \in Nat /\ Min(enough) \in Nat
      BY <2>2, <2>4, <2>5
    <3>2. m <= Min(enough) /\ Min(enough) <= m
      BY <2>2, <2>3, <2>5
    <3>. QED
      BY <3>1, <3>2
  <2>. QED
    BY <1>5, <1>11, <2>5, <2>6 DEF m
<1>13. CASE o = OffsetOf(geo, first)
  <2>1. z.start - OffsetOf(geo, first) < l
    BY <1>1, <1>5, <1>6, <1>13
  <2>2. o + FindEraseSize(geo, o, l) = z.start + z.size
    <3>1. z.start + z.size - OffsetOf(geo, first) = z.start + z.size - o
      BY <1>13
    <3>. QED
      BY <1>8, <1>12, <2>1, <3>1
  <2>. QED
    BY <1>6, <1>7, <2>2
<1>14. CASE o # OffsetOf(geo, first)
  <2>1. o + l <= EndOf(geo, first)
    BY <1>1, <1>14
  <2>2. RegionAt(geo, z.start) = first
    <3>1. OffsetOf(geo, first) <= z.start /\ z.start < EndOf(geo, first)
      BY <1>1, <1>2, <1>3, <1>5, <1>6, <1>7, <2>1
    <3>. QED
      BY <1>2, <1>5, <3>1, RegionAtIs
  <2> DEFINE s == SizeOf(geo, first)
  <2>3. z.size = s /\ \E j \in 0 .. BlocksOf(geo, first) - 1 : z.start = OffsetOf(geo, first) + j * z.size
    BY <2>2, BlockFacts
  <2>4. PICK j \in 0 .. BlocksOf(geo, first) - 1 : z.start = OffsetOf(geo, first) + j * s
    BY <2>3
  <2>5. PICK d \in Blocks(geo) : d.start = o
    BY <1>1 DEF Boundaries
  <2>6. \E i \in 0 .. BlocksOf(geo, first) - 1 : o = OffsetOf(geo, first) + i * s
    <3>1. RegionAt(geo, d.start) = first
      BY <2>5 DEF first
    <3>2. d.size = s /\ \E i \in 0 .. BlocksOf(geo, first) - 1 : d.start = OffsetOf(geo, first) + i * d.size
      BY <3>1, BlockFacts
    <3>. QED
      BY <2>5, <3>2
  <2>7. PICK i \in 0 .. BlocksOf(geo, first) - 1 : o = OffsetOf(geo, first) + i * s
    BY <2>6
  <2>8. s \in Nat \ {0} /\ BlocksOf(geo, first) \in Nat
    BY <1>0, <1>2 DEF RegionFacts
  <2> HIDE DEF s
  <2>9. i \in Nat /\ j \in Nat /\ i * s \in Nat /\ j * s \in Nat /\ i * s <= j * s
    BY <1>3, <1>5, <1>7, <2>4, <2>7, <2>8
  <2>10. i <= j
    <3>1. j < i => j * s + s <= i * s
      BY <2>8, <2>9, MulStep
    <3>. QED
      BY <2>8, <2>9, <3>1
  <2>11. j - i \in 0 .. BlocksOf(geo, first) - 1 /\ j - i \in Nat
    BY <2>8, <2>9, <2>10
  <2>12. (j - i) * s + i * s = j * s /\ (j - i) * s \in Nat
    <3>1. ((j - i) + i) * s = (j - i) * s + i * s
      BY <2>8, <2>9, <2>11, Distr
    <3>2. (j - i) + i = j
      BY <2>9
    <3>. QED
      BY <2>8, <2>11, <3>1, <3>2
  <2> DEFINE y == [start |-> OffsetOf(geo, first) + (j - i) * s, size |-> s]
  <2>13. y \in Blocks(geo) /\ RegionAt(geo, y.start) = first
    BY <1>2, <2>11, NthBlock DEF s
  <2>14. y.start = OffsetOf(geo, first) + (j - i) * s /\ y.size = s
    OBVIOUS
  <2> HIDE DEF y
  <2>15. y.start + y.size - OffsetOf(geo, first) = z.start + z.size - o
    BY <1>3, <2>3, <2>4, <2>7, <2>8, <2>9, <2>12, <2>14
  <2>16. y.start - OffsetOf(geo, first) < l
    BY <1>1, <1>3, <1>5, <1>6, <2>4, <2>7, <2>9, <2>12, <2>14
  <2>17. first \in first .. last
    BY <1>2
  <2>18. o + FindEraseSize(geo, o, l) = z.start + z.size
    BY <1>12, <2>13, <2>15, <2>16, <2>17
  <2>. QED
    BY <1>6, <1>7, <2>18
<1>. QED
  BY <1>13, <1>14

\* What find_erase_size gives is what the blocks of the range cover.
LEMMA ErasedIsCovered ==
    ASSUME NEW geo, WellFormed(geo), NEW o \in Nat, NEW l \in Nat, WellPlaced(geo, o, l)
    PROVE  /\ o .. o + FindEraseSize(geo, o, l) - 1 = CoveredBytes(geo, o, l)
           /\ o + l <= o + FindEraseSize(geo, o, l)
           /\ o + FindEraseSize(geo, o, l) <= FlashSize(geo)
           /\ o + FindEraseSize(geo, o, l) \in Boundaries(geo)
           /\ \A b \in Blocks(geo) :
                 b \in Covering(geo, o, l) <=> o <= b.start /\ b.start < o + FindEraseSize(geo, o, l)
<1> DEFINE e == o + FindEraseSize(geo, o, l)
<1>1. /\ l > 0 /\ o + l <= FlashSize(geo) /\ o \in Boundaries(geo)
  BY DEF WellPlaced
<1>2. e \in Nat /\ FlashSize(geo) \in Nat
  <2>1. FindEraseSize(geo, o, l) \in Nat
    BY FindEraseSizeType
  <2>2. FlashSize(geo) \in Nat
    BY Regions DEF RegionFacts
  <2>. QED
    BY <2>1, <2>2
<1>3. PICK z \in Blocks(geo) : /\ o <= z.start /\ z.start < o + l /\ o + l <= z.start + z.size
                               /\ e = z.start + z.size
  BY EraseEnds
<1>4. z.start \in Nat /\ z.size \in Nat \ {0} /\ z.start + z.size <= FlashSize(geo)
  BY BlockFacts
<1>5. e \in Boundaries(geo)
  BY <1>3, NextBlock
<1> HIDE DEF e
<1>6. ASSUME NEW b \in Blocks(geo)
      PROVE  /\ b \in Covering(geo, o, l) <=> o <= b.start /\ b.start < e
             /\ b \in Covering(geo, o, l) => o <= b.start /\ b.start + b.size <= e
  <2>1. b.start \in Nat /\ b.size \in Nat \ {0}
    BY BlockFacts
  <2>2. b \in Covering(geo, o, l) <=> o <= b.start /\ b.start < o + l
    BY <1>1, CoveringIs
  <2>3. b.start < e => b.start + b.size <= e
    BY <1>5, NextBoundary
  <2>4. b.start < e => b.start < o + l
    <3> SUFFICES ASSUME b.start < e, o + l <= b.start PROVE FALSE
      BY <2>1
    <3>1. z.start < b.start
      BY <1>3, <1>4, <2>1
    <3>2. z.start + z.size <= b.start
      BY <3>1, InOrder
    <3>. QED
      BY <1>2, <1>3, <2>1, <3>2
  <2>5. b.start < o + l => b.start < e
    BY <1>2, <1>3, <1>4, <2>1
  <2>. QED
    BY <2>2, <2>3, <2>4, <2>5
<1>7. ASSUME NEW a \in o .. e - 1 PROVE a \in CoveredBytes(geo, o, l)
  <2>1. a \in Nat /\ a < FlashSize(geo) /\ a < e
    BY <1>2, <1>3, <1>4
  <2>2. PICK b \in Blocks(geo) : b.start <= a /\ a < b.start + b.size
    BY <2>1, BlockAt
  <2>3. b.start \in Nat /\ b.size \in Nat \ {0}
    BY BlockFacts
  <2>4. b.start < o => b.start + b.size <= o
    BY <1>1, NextBoundary
  <2>5. o <= b.start /\ b.start < e
    BY <1>2, <2>1, <2>2, <2>3, <2>4
  <2>6. b \in Covering(geo, o, l)
    BY <1>6, <2>5
  <2>7. a \in b.start .. b.start + b.size - 1
    BY <2>1, <2>2, <2>3
  <2>. QED
    BY <2>6, <2>7 DEF CoveredBytes
<1>8. ASSUME NEW a \in CoveredBytes(geo, o, l) PROVE a \in o .. e - 1
  <2>1. PICK b \in Covering(geo, o, l) : a \in b.start .. b.start + b.size - 1
    BY DEF CoveredBytes
  <2>2. b \in Blocks(geo)
    BY DEF Covering
  <2>3. b.start \in Nat /\ b.size \in Nat \ {0}
    BY <2>2, BlockFacts
  <2>4. o <= b.start /\ b.start + b.size <= e
    BY <1>6, <2>2
  <2>. QED
    BY <1>2, <2>1, <2>3, <2>4
<1>9. o .. e - 1 = CoveredBytes(geo, o, l)
  BY <1>7, <1>8
<1>10. o + l <= e /\ e <= FlashSize(geo)
  BY <1>3, <1>4
<1>11. \A b \in Blocks(geo) : b \in Covering(geo, o, l) <=> o <= b.start /\ b.start < e
  BY <1>6
<1>12. e = o + FindEraseSize(geo, o, l)
  BY DEF e
<1>13. o .. e - 1 = o .. o + FindEraseSize(geo, o, l) - 1
  <2>1. FindEraseSize(geo, o, l) \in Nat
    BY FindEraseSizeType
  <2>. QED
    BY <1>12, <2>1
<1>. QED
  BY <1>5, <1>9, <1>10, <1>11, <1>12, <1>13

------------------------------------------------------------------------------
(***************************************************************************)
(* NorWrite.  What an operation has done so far, in terms of the flash f,  *)
(* the locks l and the bytes from one to before another: blocks that were  *)
(* erased, blocks that were locked, bytes ready to be programmed and bytes *)
(* that hold the data.                                                     *)
(***************************************************************************)
Erased(f, l, from, to) ==
    \A b \in Blocks(Geometry) : from <= b.start /\ b.start < to =>
        ~l[b.start] /\ \A a \in b.start .. b.start + b.size - 1 : f[a] = "blank"

Relocked(l, from, to) ==
    \A b \in Blocks(Geometry) : from <= b.start /\ b.start < to => l[b.start]

Ready(f, l, from, to) ==
    /\ \A a \in from .. to - 1 : f[a] = "blank"
    /\ \A b \in Blocks(Geometry) : b.start < to /\ from < b.start + b.size => ~l[b.start]

Stored(f, from, to) == \A a \in from .. to - 1 : f[a] = "data"

Running == {"step", "frob", "program"}
Erasers == {"ERASING", "FM_JFFS2"}

Eraser(flag) == IF "MF_JFFS2" \in flag THEN "FM_JFFS2" ELSE "ERASING"

\* In a list whose steps were moved, b may come after a.
Follows(kind, flag, a, b) ==
    \/ /\ kind = "write"
       /\ \/ a = "UNLOCKING" /\ b = Eraser(flag)
          \/ a = Eraser(flag) /\ b = "WRITING"
          \/ a = "WRITING" /\ b = "VERIFYING"
          \/ a = "VERIFYING" /\ b = IF "MF_LOCKED" \in flag THEN "LOCKING" ELSE "DONE"
          \/ a = "LOCKING" /\ b = "DONE"
    \/ kind = "erase" /\ a = "ERASING" /\ b = "DONE"
    \/ kind = "lock" /\ a = "LOCKING" /\ b = "DONE"
    \/ kind = "unlock" /\ a = "UNLOCKING" /\ b = "DONE"

\* What may be left of a list of steps.
StepList(s, kind, flag, moved) ==
    /\ s \in Seq(StepNames) /\ s # <<>> /\ s[Len(s)] = "DONE"
    /\ moved => \A i \in 1 .. Len(s) - 1 : Follows(kind, flag, s[i], s[i + 1])

OpEnd == op.ofs + op.len

NTypes ==
    /\ flash \in [Bytes -> {"blank", "data", "junk"}]
    /\ locked \in [BlockStarts -> BOOLEAN]
    /\ parts \in PartTables /\ shifted \in BOOLEAN /\ buffered \in BOOLEAN
    /\ op \in [kind : {"none", "write", "erase", "lock", "unlock"}, ofs : Bytes,
               len : Nat, flag : SUBSET Flags, blk : Nat]
    /\ pc \in {"idle", "step", "frob", "program", "hung"}
    /\ pos \in Bytes /\ faults \in Nat
    /\ result \in {"none", "done", "error", "cut"}
    /\ pc # "idle" => result = "none"

NOp ==
    /\ pc # "idle" => op.kind # "none"
    /\ op.kind # "none" =>
          op.blk = IF op.kind = "erase" THEN op.len ELSE FindEraseSize(Geometry, op.ofs, op.len)
    /\ "MF_JFFS2" \in op.flag =>
          \E k \in DOMAIN parts : op.ofs = parts[k].offset /\ op.len <= parts[k].size

NSteps ==
    /\ pc \in Running => StepList(steps, op.kind, op.flag, shifted)
    /\ pc = "frob" => Head(steps) \in {"LOCKING", "UNLOCKING"} \union Erasers
    /\ pc = "program" => Head(steps) = "WRITING" /\ op.ofs <= pos /\ pos <= OpEnd

NWalk ==
    pc = "frob" =>
        \E r \in StepRanges, x \in Boundaries(Geometry) :
            /\ ~FrobRefuses(Geometry, r.ofs, r.len)
            /\ Walk(Geometry, r.ofs, r.len, x, w)
            /\ Clean /\ Head(steps) \in Erasers => Erased(flash, locked, r.ofs, x)
            /\ Clean /\ Head(steps) = "LOCKING" => Relocked(locked, r.ofs, x)

NStage ==
    Clean /\ op.kind = "write" =>
        /\ pc = "step" /\ Head(steps) = "WRITING" => Ready(flash, locked, op.ofs, OpEnd)
        /\ pc = "program" => Stored(flash, op.ofs, pos) /\ Ready(flash, locked, pos, OpEnd)
        /\ pc \in {"step", "frob"} /\ Head(steps) \in {"VERIFYING", "LOCKING", "DONE"} =>
              Stored(flash, op.ofs, OpEnd)
        /\ pc = "step" /\ Head(steps) = "DONE" /\ "MF_LOCKED" \in op.flag =>
              Relocked(locked, op.ofs, op.ofs + op.blk)
        /\ result = "done" =>
              /\ Stored(flash, op.ofs, OpEnd)
              /\ "MF_LOCKED" \in op.flag => Relocked(locked, op.ofs, op.ofs + op.blk)

NErased ==
    Clean /\ op.kind = "erase" =>
        ((pc = "step" /\ Head(steps) = "DONE") \/ result = "done" =>
            \A a \in op.ofs .. OpEnd - 1 : flash[a] = "blank")

NInv == NTypes /\ NOp /\ NSteps /\ NWalk /\ NStage /\ NErased

------------------------------------------------------------------------------
LEMMA ChipFacts ==
    /\ WellFormed(Geometry) /\ FlashSize(Geometry) \in Nat \ {0}
    /\ Bytes = 0 .. FlashSize(Geometry) - 1 /\ 0 \in Bytes
    /\ BusWidth \in Nat \ {0} /\ WBufSize \in Nat \ {0}
<1>1. WellFormed(Geometry)
  BY NorWriteAssumption
<1>2. FlashSize(Geometry) \in Nat \ {0}
  BY <1>1, Chips, MulPos
<1>. QED
  BY <1>1, <1>2, NorWriteAssumption DEF Bytes

LEMMA Multiples ==
    ASSUME NEW a \in Nat, NEW d \in Nat \ {0}, NEW c \in Nat \ {0}, a % d = 0, d % c = 0
    PROVE  a % c = 0
<1>1. PICK q \in Nat : a = q * d
  BY Multiple
<1>2. PICK p \in Nat : d = p * c
  BY Multiple
<1>3. a = (q * p) * c /\ q * p \in Nat
  BY <1>1, <1>2, SMT
<1>. QED
  BY <1>3, Multiple

LEMMA NextMultiple ==
    ASSUME NEW a \in Nat, NEW d \in Nat \ {0}, NEW n \in Nat, n % d = 0, a < n
    PROVE  d - (a % d) \in 1 .. d /\ a + (d - (a % d)) <= n
<1>1. PICK q \in Nat : n = q * d
  BY Multiple
<1>2. a \div d \in Nat /\ a % d \in 0 .. d - 1 /\ a = (a \div d) * d + (a % d)
  BY DivMod
<1>3. (a \div d) * d \in Nat /\ q * d \in Nat
  BY <1>2, SMT
<1>4. (a \div d) * d < q * d
  BY <1>1, <1>2, <1>3
<1>5. a \div d < q
  BY <1>2, <1>4, Cancel
<1>6. (a \div d) * d + d <= q * d
  BY <1>2, <1>5, MulStep
<1>. QED
  BY <1>1, <1>2, <1>3, <1>6

LEMMA WholeBuffers ==
    FlashSize(Geometry) % WBufSize = 0 /\ FlashSize(Geometry) % BusWidth = 0
<1> DEFINE n == FlashSize(Geometry)
<1>1. WellFormed(Geometry) /\ n \in Nat \ {0} /\ BusWidth \in Nat \ {0} /\ WBufSize \in Nat \ {0}
  BY ChipFacts
<1>2. PICK b \in Blocks(Geometry) : b.start <= n - 1 /\ n - 1 < b.start + b.size
  <2>1. n - 1 \in Nat /\ n - 1 < n
    BY <1>1
  <2> HIDE DEF n
  <2>. QED
    BY <1>1, <2>1, BlockAt DEF n
<1>3. b.start \in Nat /\ b.size \in Nat \ {0} /\ b.start + b.size <= n
  BY <1>1, BlockFacts
<1>4. PICK p \in Nat : b.start = p * b.size
  BY <1>1, BlockFacts
<1>5. n = b.start + b.size
  <2> HIDE DEF n
  <2>. QED
    BY <1>1, <1>2, <1>3
<1>6. n = (p + 1) * b.size /\ p + 1 \in Nat
  <2>1. (p + 1) * b.size = p * b.size + 1 * b.size
    BY <1>3, Distr
  <2>. QED
    BY <1>3, <1>4, <1>5, <2>1
<1> HIDE DEF n
<1>7. n % b.size = 0
  BY <1>1, <1>3, <1>6, Multiple
<1>8. b.size % WBufSize = 0 /\ WBufSize % BusWidth = 0
  BY NorWriteAssumption
<1>9. n % WBufSize = 0
  BY <1>1, <1>3, <1>7, <1>8, Multiples
<1>10. n % BusWidth = 0
  BY <1>1, <1>8, <1>9, Multiples
<1>. QED
  BY <1>9, <1>10 DEF n

LEMMA BlockOfIs ==
    ASSUME NEW a \in Bytes
    PROVE  /\ BlockOf(a) \in Blocks(Geometry)
           /\ BlockOf(a).start <= a /\ a < BlockOf(a).start + BlockOf(a).size
<1>1. a \in Nat /\ a < FlashSize(Geometry) /\ WellFormed(Geometry)
  BY ChipFacts
<1>2. \E b \in Blocks(Geometry) : b.start <= a /\ a < b.start + b.size
  BY <1>1, BlockAt
<1>3. \A b \in Blocks(Geometry) : b.start \in Nat /\ b.size \in Nat
  BY <1>1, BlockFacts
<1>4. \A b \in Blocks(Geometry) :
         a \in b.start .. b.start + b.size - 1 <=> b.start <= a /\ a < b.start + b.size
  BY <1>1, <1>3
<1>. QED
  BY <1>2, <1>4 DEF BlockOf

\* Whole blocks of the range that is done, seen as bytes.
LEMMA ErasedReady ==
    ASSUME NEW f, NEW l, NEW from \in Boundaries(Geometry), NEW to \in Boundaries(Geometry),
           Erased(f, l, from, to), NEW e \in Nat, e <= to
    PROVE  Ready(f, l, from, e)
<1>1. WellFormed(Geometry)
  BY ChipFacts
<1>2. from \in Nat /\ to \in Nat /\ to <= FlashSize(Geometry) /\ FlashSize(Geometry) \in Nat
  BY <1>1, BoundaryInside, ChipFacts
<1>3. ASSUME NEW b \in Blocks(Geometry) PROVE b.start \in Nat /\ b.size \in Nat \ {0}
  BY <1>1, BlockFacts
<1>4. ASSUME NEW b \in Blocks(Geometry), b.start < e, from < b.start + b.size
      PROVE  ~l[b.start] /\ \A a \in b.start .. b.start + b.size - 1 : f[a] = "blank"
  <2>1. from <= b.start
    <3>1. b.start < from => b.start + b.size <= from
      BY <1>1, NextBoundary
    <3>. QED
      BY <1>2, <1>3, <1>4, <3>1
  <2>2. b.start < to
    BY <1>2, <1>3, <1>4
  <2>. QED
    BY <2>1, <2>2 DEF Erased
<1>5. ASSUME NEW a \in from .. e - 1 PROVE f[a] = "blank"
  <2>1. a \in Nat /\ from <= a /\ a < e /\ a < FlashSize(Geometry)
    BY <1>2
  <2>2. PICK b \in Blocks(Geometry) : b.start <= a /\ a < b.start + b.size
    BY <1>1, <2>1, BlockAt
  <2>3. b.start \in Nat /\ b.size \in Nat \ {0}
    BY <1>3
  <2>4. b.start < e /\ from < b.start + b.size /\ a \in b.start .. b.start + b.size - 1
    BY <1>2, <2>1, <2>2, <2>3
  <2>. QED
    BY <1>4, <2>4
<1>. QED
  BY <1>4, <1>5 DEF Ready

\* One block more.
LEMMA OneErased ==
    ASSUME NEW f \in [Bytes -> {"blank", "data", "junk"}], NEW l, NEW h, NEW from \in Nat,
           NEW x \in Nat, NEW b \in Blocks(Geometry), b.start = x, Erased(f, l, from, x), ~l[x],
           h = [a \in Bytes |-> IF a \in x .. x + b.size - 1 THEN "blank" ELSE f[a]]
    PROVE  Erased(h, l, from, x + b.size)
<1>1. WellFormed(Geometry) /\ b.size \in Nat
  BY ChipFacts, BlockFacts
<1>2. SUFFICES ASSUME NEW c \in Blocks(Geometry), from <= c.start, c.start < x + b.size
               PROVE  ~l[c.start] /\ \A a \in c.start .. c.start + c.size - 1 : h[a] = "blank"
  BY DEF Erased
<1>3. /\ c.start \in Nat /\ c.size \in Nat \ {0} /\ c.start + c.size <= FlashSize(Geometry)
      /\ FlashSize(Geometry) \in Nat /\ Bytes = 0 .. FlashSize(Geometry) - 1
  BY <1>1, BlockFacts, ChipFacts
<1>4. ASSUME NEW a \in c.start .. c.start + c.size - 1 PROVE a \in Bytes
  BY <1>3
<1>5. CASE c.start < x
  <2>1. ~l[c.start] /\ \A a \in c.start .. c.start + c.size - 1 : f[a] = "blank"
    BY <1>2, <1>5 DEF Erased
  <2>. QED
    BY <1>4, <2>1
<1>6. CASE ~(c.start < x)
  <2>1. c.start <= c.start /\ c.start < c.start + c.size /\ b.start <= c.start /\ c.start < b.start + b.size
    BY <1>2, <1>3, <1>6
  <2>2. b = c
    BY <1>1, <1>3, <2>1, SameBlock
  <2>. QED
    BY <1>4, <2>2
<1>. QED
  BY <1>5, <1>6

LEMMA OneRelocked ==
    ASSUME NEW l \in [BlockStarts -> BOOLEAN], NEW from \in Nat, NEW x \in Nat,
           NEW b \in Blocks(Geometry), b.start = x, Relocked(l, from, x)
    PROVE  Relocked([l EXCEPT ![x] = TRUE], from, x + b.size)
<1>1. WellFormed(Geometry) /\ b.size \in Nat
  BY ChipFacts, BlockFacts
<1>2. SUFFICES ASSUME NEW c \in Blocks(Geometry), from <= c.start, c.start < x + b.size
               PROVE  [l EXCEPT ![x] = TRUE][c.start]
  BY DEF Relocked
<1>3. c.start \in Nat /\ c.size \in Nat \ {0} /\ c.start \in BlockStarts
  BY <1>1, BlockFacts DEF BlockStarts
<1>5. CASE c.start < x
  BY <1>2, <1>3, <1>5 DEF Relocked
<1>6. CASE ~(c.start < x)
  <2>1. c.start <= c.start /\ c.start < c.start + c.size /\ b.start <= c.start /\ c.start < b.start + b.size
    BY <1>2, <1>3, <1>6
  <2>2. b = c
    BY <1>1, <1>3, <2>1, SameBlock
  <2>. QED
    BY <1>3, <2>2
<1>. QED
  BY <1>5, <1>6

------------------------------------------------------------------------------
(***************************************************************************)
(* The list of steps.                                                      *)
(***************************************************************************)
LEMMA StepListHead ==
    ASSUME NEW s, NEW kind, NEW flag, NEW moved, StepList(s, kind, flag, moved)
    PROVE  Head(s) \in StepNames /\ Head(s) = s[1] /\ Len(s) \in Nat \ {0}
BY DEF StepList

LEMMA StepListTail ==
    ASSUME NEW s, NEW kind, NEW flag, NEW moved, StepList(s, kind, flag, moved),
           Head(s) # "DONE"
    PROVE  /\ StepList(Tail(s), kind, flag, moved)
           /\ moved => Follows(kind, flag, Head(s), Head(Tail(s)))
<1>1. /\ s \in Seq(StepNames) /\ s # <<>> /\ s[Len(s)] = "DONE"
      /\ moved => \A i \in 1 .. Len(s) - 1 : Follows(kind, flag, s[i], s[i + 1])
  BY DEF StepList
<1>2. Len(s) \in Nat /\ Len(s) > 1 /\ Head(s) = s[1]
  BY <1>1
<1> DEFINE t == Tail(s)
<1>3. /\ t \in Seq(StepNames) /\ Len(t) = Len(s) - 1
      /\ \A i \in 1 .. Len(t) : t[i] = s[i + 1]
  BY <1>1, <1>2
<1> HIDE DEF t
<1>4. t # <<>> /\ t[Len(t)] = "DONE" /\ Head(t) = s[2]
  <2>1. Len(t) \in Nat /\ Len(t) >= 1 /\ 1 \in 1 .. Len(t) /\ Len(t) \in 1 .. Len(t)
    BY <1>2, <1>3
  <2>2. t[Len(t)] = s[Len(t) + 1] /\ Len(t) + 1 = Len(s)
    BY <1>2, <1>3, <2>1
  <2>3. t # <<>> /\ Head(t) = t[1]
    BY <1>3, <2>1
  <2>4. t[1] = s[1 + 1] /\ 1 + 1 = 2
    BY <1>3, <2>1
  <2>. QED
    BY <1>1, <2>2, <2>3, <2>4
<1>5. ASSUME moved, NEW i \in 1 .. Len(t) - 1 PROVE Follows(kind, flag, t[i], t[i + 1])
  <2>1. i + 1 \in 1 .. Len(s) - 1 /\ t[i] = s[i + 1] /\ t[i + 1] = s[(i + 1) + 1]
    BY <1>2, <1>3
  <2>. QED
    BY <1>1, <1>5, <2>1
<1>6. ASSUME moved PROVE Follows(kind, flag, s[1], s[2])
  <2>1. 1 \in 1 .. Len(s) - 1 /\ 1 + 1 = 2
    BY <1>2
  <2>. QED
    BY <1>1, <1>6, <2>1
<1>. QED
  BY <1>2, <1>3, <1>4, <1>5, <1>6 DEF StepList, t

\* What a moved list says of its first step and of its operation.
LEMMA StepListKind ==
    ASSUME NEW s, NEW kind, NEW flag, StepList(s, kind, flag, TRUE)
    PROVE  /\ Head(s) \in {"WRITING", "VERIFYING", "FM_JFFS2"} => kind = "write"
           /\ Head(s) = "FM_JFFS2" => "MF_JFFS2" \in flag
           /\ Head(s) # "ERROR"
<1>1. CASE Head(s) = "DONE"
  BY <1>1
<1>2. CASE Head(s) # "DONE"
  <2>1. Follows(kind, flag, Head(s), Head(Tail(s)))
    BY <1>2, StepListTail
  <2>. QED
    BY <2>1 DEF Follows, Eraser
<1>. QED
  BY <1>1, <1>2

LEMMA TwoSteps ==
    ASSUME NEW a \in StepNames, NEW kind, NEW flag, NEW moved, Follows(kind, flag, a, "DONE")
    PROVE  StepList(<<a, "DONE">>, kind, flag, moved) /\ Head(<<a, "DONE">>) = a
<1> DEFINE s == <<a, "DONE">>
<1>1. s \in Seq(StepNames) /\ Len(s) = 2 /\ s[1] = a /\ s[2] = "DONE"
  BY DEF StepNames
<1> HIDE DEF s
<1>. QED
  BY <1>1 DEF StepList, s

LEMMA StepsMade ==
    ASSUME NEW flag \in SUBSET Flags, NEW s \in MakeSteps(flag), shifted \in BOOLEAN
    PROVE  /\ StepList(s, "write", flag, shifted)
           /\ shifted => Head(s) \in {"UNLOCKING"} \union Erasers
<1> DEFINE e == Eraser(flag)
<1>1. Body(flag) = <<e, "WRITING", "VERIFYING">> /\ e \in Erasers /\ e \in StepNames
  BY DEF Body, Eraser, Erasers, StepNames
<1> HIDE DEF e
<1>2. CASE "MF_LOCKED" \notin flag
  <2>1. s = <<e, "WRITING", "VERIFYING", "DONE">>
    BY <1>1, <1>2 DEF MakeSteps
  <2>2. /\ s \in Seq(StepNames) /\ Len(s) = 4
        /\ s[1] = e /\ s[2] = "WRITING" /\ s[3] = "VERIFYING" /\ s[4] = "DONE"
    BY <1>1, <2>1 DEF StepNames
  <2>3. Head(s) = e
    BY <2>1
  <2>4. \A i \in 1 .. 3 : Follows("write", flag, s[i], s[i + 1])
    BY <1>2, <2>2 DEF Follows, e
  <2>. QED
    BY <1>1, <2>2, <2>3, <2>4 DEF StepList
<1>3. CASE "MF_LOCKED" \in flag /\ shifted
  <2>1. s = <<"UNLOCKING", e, "WRITING", "VERIFYING", "LOCKING", "DONE">>
    BY <1>1, <1>3 DEF MakeSteps
  <2>2. /\ s \in Seq(StepNames) /\ Len(s) = 6
        /\ s[1] = "UNLOCKING" /\ s[2] = e /\ s[3] = "WRITING" /\ s[4] = "VERIFYING"
        /\ s[5] = "LOCKING" /\ s[6] = "DONE"
    BY <1>1, <2>1 DEF StepNames
  <2>3. Head(s) = "UNLOCKING"
    BY <2>1
  <2>4. \A i \in 1 .. 5 : Follows("write", flag, s[i], s[i + 1])
    BY <1>3, <2>2 DEF Follows, e
  <2>. QED
    BY <2>2, <2>3, <2>4 DEF StepList
<1>4. CASE "MF_LOCKED" \in flag /\ ~shifted
  <2>1. PICK u \in StepNames : s = <<"UNLOCKING", "WRITING", "VERIFYING", u, "LOCKING", "DONE">>
    BY <1>4 DEF MakeSteps
  <2>2. s \in Seq(StepNames) /\ Len(s) = 6 /\ s[6] = "DONE"
    BY <2>1 DEF StepNames
  <2>. QED
    BY <1>4, <2>2 DEF StepList
<1>. QED
  BY <1>2, <1>3, <1>4

------------------------------------------------------------------------------
(***************************************************************************)
(* The ranges the steps work on.                                           *)
(***************************************************************************)
LEMMA PartFacts ==
    ASSUME parts \in PartTables, NEW k \in DOMAIN parts
    PROVE  /\ k \in Nat /\ parts[k].offset \in Bytes /\ parts[k].offset \in Nat
           /\ parts[k].size \in Nat \ {0} /\ parts[k].flag \in SUBSET Flags
           /\ DOMAIN parts \in SUBSET Nat
<1> DEFINE entry == [offset : Bytes, size : Nat \ {0}, flag : SUBSET Flags]
<1>1. parts \in Seq(entry)
  BY NorWriteAssumption
<1>2. DOMAIN parts = 1 .. Len(parts) /\ Len(parts) \in Nat
  BY <1>1
<1>3. parts[k] \in entry
  <2> HIDE DEF entry
  <2>. QED
    BY <1>1, <1>2
<1>4. \A a \in Bytes : a \in Nat
  BY ChipFacts
<1>. QED
  BY <1>2, <1>3, <1>4

LEMMA RangeType ==
    ASSUME NTypes, NEW r \in StepRanges
    PROVE  /\ r.ofs \in Bytes /\ r.ofs \in Nat /\ r.len \in Nat
           /\ Head(steps) # "FM_JFFS2" => r.ofs = op.ofs /\ r.len = op.blk
<1>1. \A a \in Bytes : a \in Nat
  BY ChipFacts
<1>2. CASE Head(steps) = "FM_JFFS2"
  <2>1. PICK k \in DOMAIN parts : r = [ofs |-> parts[k].offset, len |-> parts[k].size]
    BY <1>2 DEF StepRanges, FindMtdPartition
  <2>2. parts \in PartTables
    BY DEF NTypes
  <2>. QED
    BY <1>2, <2>1, <2>2, PartFacts
<1>3. CASE Head(steps) # "FM_JFFS2"
  <2>1. r = [ofs |-> op.ofs, len |-> op.blk]
    BY <1>3 DEF StepRanges
  <2>. QED
    BY <1>1, <1>3, <2>1 DEF NTypes
<1>. QED
  BY <1>2, <1>3

\* In a table in ascending order, the partition formatted is the one written.
LEMMA FormatRange ==
    ASSUME NTypes, NOp, Ascending, Head(steps) = "FM_JFFS2", "MF_JFFS2" \in op.flag,
           NEW r \in StepRanges
    PROVE  /\ r.ofs = op.ofs /\ op.len <= r.len
           /\ \E k \in DOMAIN parts : parts[k].offset = op.ofs /\ r.len = parts[k].size
<1> DEFINE above == FindMtdPartition(op.ofs)
<1>1. parts \in PartTables /\ op.ofs \in Bytes /\ op.ofs \in Nat /\ op.len \in Nat
  BY ChipFacts DEF NTypes
<1>2. \A k \in DOMAIN parts : k \in Nat /\ parts[k].offset \in Nat /\ parts[k].size \in Nat \ {0}
  BY <1>1, PartFacts
<1>3. PICK k \in DOMAIN parts : op.ofs = parts[k].offset /\ op.len <= parts[k].size
  BY DEF NOp
<1>4. k \in above
  BY <1>1, <1>3 DEF FindMtdPartition
<1>5. above \in SUBSET Nat /\ above # {} /\ \A j \in above : j \in DOMAIN parts /\ parts[j].offset >= op.ofs
  BY <1>2, <1>4 DEF FindMtdPartition
<1>6. Min(above) \in above /\ Min(above) <= k
  <2> HIDE DEF above
  <2>. QED
    BY <1>4, <1>5, MinIs
<1>7. Min(above) = k
  <2>1. ASSUME NEW j \in above, j < k PROVE FALSE
    <3>1. parts[j].offset + parts[j].size <= parts[k].offset
      BY <1>5, <2>1 DEF Ascending
    <3>. QED
      BY <1>1, <1>2, <1>3, <1>5, <2>1, <3>1
  <2>. QED
    BY <1>2, <1>5, <1>6, <2>1
<1>8. r = [ofs |-> parts[k].offset, len |-> parts[k].size]
  BY <1>4, <1>7 DEF StepRanges
<1>. QED
  BY <1>3, <1>8

\* The range of a step over blocks is what the operation is for.
LEMMA StepRange ==
    ASSUME NTypes, NOp, Sane, pc # "idle", StepList(steps, op.kind, op.flag, shifted),
           NEW r \in StepRanges
    PROVE  /\ r.ofs = op.ofs /\ op.len <= r.len
           /\ r.ofs .. r.ofs + r.len - 1 \subseteq Reach
           /\ op.kind = "erase" => r.len = op.len
           /\ Head(steps) # "FM_JFFS2" => r.len = op.blk
<1>1. /\ op.ofs \in Bytes /\ op.ofs \in Nat /\ op.len \in Nat /\ op.blk \in Nat
      /\ WellFormed(Geometry)
  BY ChipFacts DEF NTypes
<1>2. StepList(steps, op.kind, op.flag, TRUE)
  BY DEF Sane
<1>3. CASE Head(steps) = "FM_JFFS2"
  <2>1. op.kind = "write" /\ "MF_JFFS2" \in op.flag
    BY <1>2, <1>3, StepListKind
  <2>2. Ascending
    BY DEF Sane
  <2>3. /\ r.ofs = op.ofs /\ op.len <= r.len
        /\ \E k \in DOMAIN parts : parts[k].offset = op.ofs /\ r.len = parts[k].size
    BY <1>3, <2>1, <2>2, FormatRange
  <2>4. PICK k \in DOMAIN parts : parts[k].offset = op.ofs /\ r.len = parts[k].size
    BY <2>3
  <2>5. parts[k].offset .. parts[k].offset + parts[k].size - 1 \subseteq Reach
    BY <2>1, <2>4 DEF Reach
  <2>. QED
    BY <1>3, <2>1, <2>3, <2>4, <2>5
<1>4. CASE Head(steps) # "FM_JFFS2"
  <2>1. r.ofs = op.ofs /\ r.len = op.blk
    BY <1>4, RangeType
  <2>2. op.kind # "none"
    BY DEF NOp
  <2>3. CASE op.kind = "erase"
    <3>1. op.blk = op.len
      BY <2>2, <2>3 DEF NOp
    <3>. QED
      BY <1>1, <1>4, <2>1, <2>3, <3>1 DEF Reach
  <2>4. CASE op.kind # "erase"
    <3>1. op.blk = FindEraseSize(Geometry, op.ofs, op.len) /\ WellPlaced(Geometry, op.ofs, op.len)
      BY <2>2, <2>4 DEF NOp, Sane
    <3>2. /\ op.ofs .. op.ofs + op.blk - 1 = CoveredBytes(Geometry, op.ofs, op.len)
          /\ op.ofs + op.len <= op.ofs + op.blk
      BY <1>1, <3>1, ErasedIsCovered
    <3>3. op.len <= op.blk
      BY <1>1, <3>2
    <3>. QED
      BY <1>4, <2>1, <2>4, <3>2, <3>3 DEF Reach
  <2>. QED
    BY <2>3, <2>4
<1>. QED
  BY <1>3, <1>4

------------------------------------------------------------------------------
(***************************************************************************)
(* The actions keep NInv.                                                  *)
(***************************************************************************)
LEMMA OpStays ==
    ASSUME UNCHANGED <<parts, shifted, buffered, op>>
    PROVE  /\ Sane' <=> Sane
           /\ Clean' <=> Sane /\ faults' = 0 /\ ~buffered
           /\ Reach' = Reach /\ OpEnd' = OpEnd
           /\ steps' = steps => StepRanges' = StepRanges
<1>1. Sane' <=> Sane
  BY DEF Sane, Ascending
<1>2. Reach' = Reach /\ OpEnd' = OpEnd
  BY DEF Reach, OpEnd
<1>3. steps' = steps => StepRanges' = StepRanges
  BY DEF StepRanges, FindMtdPartition
<1>. QED
  BY <1>1, <1>2, <1>3 DEF Clean

LEMMA OpGoesOn ==
    ASSUME NTypes, NOp, pc # "idle", UNCHANGED <<parts, shifted, buffered, op>>,
           flash' \in [Bytes -> {"blank", "data", "junk"}], locked' \in [BlockStarts -> BOOLEAN],
           pos' \in Bytes, faults' \in Nat,
           pc' \in {"idle", "step", "frob", "program", "hung"},
           result' \in {"none", "done", "error", "cut"}, pc' # "idle" => result' = "none"
    PROVE  NTypes' /\ NOp'
<1>1. NTypes'
  BY DEF NTypes
<1>2. NOp'
  BY DEF NOp
<1>. QED
  BY <1>1, <1>2

\* An operation that ends in an error, or with the power, keeps no promise.
LEMMA EndsBadly ==
    ASSUME NInv, pc # "idle", UNCHANGED <<parts, shifted, buffered, op, pos>>,
           flash' \in [Bytes -> {"blank", "data", "junk"}], locked' \in [BlockStarts -> BOOLEAN],
           faults' \in Nat, pc' = "idle", result' \in {"error", "cut"}
    PROVE  NInv'
<1>1. NTypes /\ NOp /\ pos \in Bytes
  BY DEF NInv, NTypes
<1>2. NTypes' /\ NOp'
  BY <1>1, OpGoesOn
<1>3. NSteps' /\ NWalk'
  BY DEF NSteps, NWalk, Running
<1>4. NStage' /\ NErased'
  BY DEF NStage, NErased
<1>. QED
  BY <1>2, <1>3, <1>4 DEF NInv

LEMMA Hangs ==
    ASSUME NInv, pc # "idle", UNCHANGED <<parts, shifted, buffered, op, pos, locked, result>>,
           flash' \in [Bytes -> {"blank", "data", "junk"}], faults' \in Nat, pc' = "hung"
    PROVE  NInv'
<1>1. NTypes /\ NOp /\ pos \in Bytes /\ locked \in [BlockStarts -> BOOLEAN] /\ result = "none"
  BY DEF NInv, NTypes
<1>2. NTypes' /\ NOp'
  BY <1>1, OpGoesOn
<1>3. NSteps' /\ NWalk'
  BY DEF NSteps, NWalk, Running
<1>4. NStage' /\ NErased'
  BY <1>1 DEF NStage, NErased
<1>. QED
  BY <1>2, <1>3, <1>4 DEF NInv

\* The step ends well and the next is taken.
LEMMA StepDone ==
    ASSUME NSteps, pc \in Running, Head(steps) # "DONE", Succeed, UNCHANGED <<shifted, op>>
    PROVE  /\ NSteps' /\ NWalk' /\ pc' = "step" /\ result' = result
           /\ shifted => Follows(op.kind, op.flag, Head(steps), Head(steps'))
<1>1. StepList(steps, op.kind, op.flag, shifted)
  BY DEF NSteps
<1>2. steps' = Tail(steps) /\ pc' = "step" /\ result' = result
  BY DEF Succeed
<1>3. /\ StepList(Tail(steps), op.kind, op.flag, shifted)
      /\ shifted => Follows(op.kind, op.flag, Head(steps), Head(Tail(steps)))
  BY <1>1, StepListTail
<1>4. NSteps'
  BY <1>2, <1>3 DEF NSteps
<1>5. NWalk'
  BY <1>2 DEF NWalk
<1>. QED
  BY <1>2, <1>3, <1>4, <1>5

LEMMA StartInv ==
    ASSUME NInv, NEW kind \in {"write", "erase", "lock", "unlock"}, NEW rg, NEW flag \in SUBSET Flags,
           rg.ofs \in Bytes, rg.len \in Nat,
           "MF_JFFS2" \in flag =>
               \E k \in DOMAIN parts : rg.ofs = parts[k].offset /\ rg.len <= parts[k].size,
           Start(kind, rg, flag)
    PROVE  NInv'
<1> DEFINE b == IF kind = "erase" THEN rg.len ELSE FindEraseSize(Geometry, rg.ofs, rg.len)
<1>1. /\ op' = [kind |-> kind, ofs |-> rg.ofs, len |-> rg.len, flag |-> flag, blk |-> b]
      /\ pc' = "step" /\ result' = "none" /\ faults' = 0
      /\ flash' = [a \in Bytes |-> IF flash[a] = "data" THEN "junk" ELSE flash[a]]
      /\ UNCHANGED <<locked, parts, shifted, buffered, w, pos>>
  BY DEF Start, machine
<1>2. b \in Nat
  <2>1. WellFormed(Geometry) /\ rg.ofs \in Nat
    BY ChipFacts
  <2>2. FindEraseSize(Geometry, rg.ofs, rg.len) \in Nat
    BY <2>1, FindEraseSizeType
  <2>. QED
    BY <2>2
<1> HIDE DEF b
<1>3. /\ op'.kind = kind /\ op'.ofs = rg.ofs /\ op'.len = rg.len /\ op'.flag = flag /\ op'.blk = b
      /\ op' \in [kind : {"none", "write", "erase", "lock", "unlock"}, ofs : Bytes,
                  len : Nat, flag : SUBSET Flags, blk : Nat]
  BY <1>1, <1>2
<1>4. flash' \in [Bytes -> {"blank", "data", "junk"}]
  BY <1>1 DEF NInv, NTypes
<1>5. NTypes'
  <2>1. /\ locked \in [BlockStarts -> BOOLEAN] /\ parts \in PartTables /\ shifted \in BOOLEAN
        /\ buffered \in BOOLEAN /\ pos \in Bytes
    BY DEF NInv, NTypes
  <2>. QED
    BY <1>1, <1>3, <1>4, <2>1 DEF NTypes
<1>6. NOp'
  BY <1>1, <1>3 DEF NOp, b
<1>7. /\ StepList(steps', kind, flag, shifted)
      /\ shifted /\ kind = "write" => Head(steps') \in {"UNLOCKING"} \union Erasers
      /\ kind = "erase" => Head(steps') = "ERASING"
  <2>1. CASE kind = "write"
    <3>1. steps' \in MakeSteps(flag)
      BY <2>1 DEF Start
    <3>2. shifted \in BOOLEAN
      BY DEF NInv, NTypes
    <3>. QED
      BY <2>1, <3>1, <3>2, StepsMade
  <2>2. CASE kind = "erase"
    <3>1. steps' = <<"ERASING", "DONE">>
      BY <2>2 DEF Start
    <3>2. Follows(kind, flag, "ERASING", "DONE") /\ "ERASING" \in StepNames
      BY <2>2 DEF Follows, StepNames
    <3>. QED
      BY <2>2, <3>1, <3>2, TwoSteps
  <2>3. CASE kind = "lock"
    <3>1. steps' = <<"LOCKING", "DONE">>
      BY <2>3 DEF Start
    <3>2. Follows(kind, flag, "LOCKING", "DONE") /\ "LOCKING" \in StepNames
      BY <2>3 DEF Follows, StepNames
    <3>. QED
      BY <2>3, <3>1, <3>2, TwoSteps
  <2>4. CASE kind = "unlock"
    <3>1. steps' = <<"UNLOCKING", "DONE">>
      BY <2>4 DEF Start
    <3>2. Follows(kind, flag, "UNLOCKING", "DONE") /\ "UNLOCKING" \in StepNames
      BY <2>4 DEF Follows, StepNames
    <3>. QED
      BY <2>4, <3>1, <3>2, TwoSteps
  <2>. QED
    BY <2>1, <2>2, <2>3, <2>4
<1>8. NSteps' /\ NWalk'
  BY <1>1, <1>3, <1>7 DEF NSteps, NWalk
<1>9. Clean' => shifted
  BY <1>1 DEF Clean, Sane
<1>10. NStage'
  BY <1>1, <1>3, <1>7, <1>9 DEF NStage, Erasers
<1>11. NErased'
  BY <1>1, <1>3, <1>7 DEF NErased
<1>. QED
  BY <1>5, <1>6, <1>8, <1>10, <1>11 DEF NInv

LEMMA CommandsInv ==
    ASSUME NInv, CommandLoadFlash \/ CommandErase \/ CommandLock \/ CommandUnlock
    PROVE  NInv'
<1>1. parts \in PartTables
  BY DEF NInv, NTypes
<1>2. \A r \in Ranges : r.ofs \in Bytes /\ r.len \in Nat
  BY NorWriteAssumption
<1>3. {} \in SUBSET Flags
  OBVIOUS
<1>4. CASE CommandLoadFlash
  <2>1. CASE \E k \in DOMAIN parts : \E n \in FileSizes \intersect 1 .. parts[k].size :
                Start("write", [ofs |-> parts[k].offset, len |-> n], parts[k].flag)
    <3>0. PICK k \in DOMAIN parts : \E n \in FileSizes \intersect 1 .. parts[k].size :
                  Start("write", [ofs |-> parts[k].offset, len |-> n], parts[k].flag)
      BY <2>1
    <3>1. PICK n \in FileSizes \intersect 1 .. parts[k].size :
                  Start("write", [ofs |-> parts[k].offset, len |-> n], parts[k].flag)
      BY <3>0
    <3>2. /\ parts[k].offset \in Bytes /\ parts[k].size \in Nat /\ parts[k].flag \in SUBSET Flags
      BY <1>1, PartFacts
    <3>3. n \in Nat /\ n <= parts[k].size
      BY <3>2
    <3> DEFINE rg == [ofs |-> parts[k].offset, len |-> n]
    <3>4. rg.ofs = parts[k].offset /\ rg.len = n /\ Start("write", rg, parts[k].flag)
      BY <3>1
    <3> HIDE DEF rg
    <3>. QED
      BY <3>2, <3>3, <3>4, StartInv
  <2>2. CASE \E r \in Ranges : Start("write", r, {})
    BY <1>2, <1>3, <2>2, StartInv
  <2>. QED
    BY <1>4, <2>1, <2>2 DEF CommandLoadFlash
<1>5. CASE CommandErase
  <2>1. CASE \E k \in DOMAIN parts :
                Start("erase", [ofs |-> parts[k].offset, len |-> parts[k].size], {})
    <3>1. PICK k \in DOMAIN parts :
                  Start("erase", [ofs |-> parts[k].offset, len |-> parts[k].size], {})
      BY <2>1
    <3>2. /\ parts[k].offset \in Bytes /\ parts[k].size \in Nat
      BY <1>1, PartFacts
    <3> DEFINE rg == [ofs |-> parts[k].offset, len |-> parts[k].size]
    <3>3. rg.ofs \in Bytes /\ rg.len \in Nat /\ Start("erase", rg, {})
      BY <3>1, <3>2
    <3> HIDE DEF rg
    <3>. QED
      BY <1>3, <3>3, StartInv
  <2>2. CASE \E r \in Ranges : Start("erase", r, {})
    BY <1>2, <1>3, <2>2, StartInv
  <2>. QED
    BY <1>5, <2>1, <2>2 DEF CommandErase
<1>6. CASE CommandLock
  BY <1>2, <1>3, <1>6, StartInv DEF CommandLock
<1>7. CASE CommandUnlock
  BY <1>2, <1>3, <1>7, StartInv DEF CommandUnlock
<1>. QED
  BY <1>4, <1>5, <1>6, <1>7

\* Where a walk is, and its range.
LEMMA WalkFacts ==
    ASSUME NInv, pc = "frob"
    PROVE  \E r \in StepRanges, x \in Boundaries(Geometry) :
              /\ r.ofs \in Nat /\ r.len \in Nat /\ r.ofs \in Boundaries(Geometry)
              /\ r.ofs + r.len \in Boundaries(Geometry) /\ x \in Nat /\ r.ofs <= x
              /\ ~FrobRefuses(Geometry, r.ofs, r.len)
              /\ Walk(Geometry, r.ofs, r.len, x, w)
              /\ FrobBlock(Geometry, w) = x
              /\ FrobEnded(Geometry, w) <=> x = r.ofs + r.len
              /\ Clean /\ Head(steps) \in Erasers => Erased(flash, locked, r.ofs, x)
              /\ Clean /\ Head(steps) = "LOCKING" => Relocked(locked, r.ofs, x)
<1>1. PICK r \in StepRanges, x \in Boundaries(Geometry) :
         /\ ~FrobRefuses(Geometry, r.ofs, r.len)
         /\ Walk(Geometry, r.ofs, r.len, x, w)
         /\ Clean /\ Head(steps) \in Erasers => Erased(flash, locked, r.ofs, x)
         /\ Clean /\ Head(steps) = "LOCKING" => Relocked(locked, r.ofs, x)
  BY DEF NInv, NWalk
<1>2. r.ofs \in Nat /\ r.len \in Nat /\ WellFormed(Geometry)
  BY RangeType, ChipFacts DEF NInv
<1>3. r.ofs \in Boundaries(Geometry) /\ r.ofs + r.len \in Boundaries(Geometry)
  BY <1>1, <1>2, RefusesIff
<1>4. x \in Nat /\ FrobBlock(Geometry, w) = x /\ (FrobEnded(Geometry, w) <=> x = r.ofs + r.len)
  <2>1. ~FrobRefuses(Geometry, r.ofs, r.len) /\ Walk(Geometry, r.ofs, r.len, x, w)
    BY <1>1
  <2>2. x \in Nat
    BY <1>2, <2>1, WalkHere
  <2>3. FrobBlock(Geometry, w) = x
    <3>1. At(Geometry, x, r.ofs + r.len - x, w)
      BY <2>1 DEF Walk
    <3>2. x \in 0 .. FlashSize(Geometry)
      BY <1>2, <2>2, BoundaryInside, ChipFacts
    <3>. QED
      BY <1>2, <3>1, <3>2, AtFacts
  <2>4. FrobEnded(Geometry, w) <=> x = r.ofs + r.len
    BY <1>2, <2>1, WalkHere
  <2>. QED
    BY <2>2, <2>3, <2>4
<1>5. r.ofs <= x
  BY <1>1 DEF Walk
<1>. QED
  BY <1>1, <1>2, <1>3, <1>4, <1>5

LEMMA FrobBeginInv ==
    ASSUME NInv, FrobBegin
    PROVE  NInv'
<1>1. /\ pc = "step" /\ Head(steps) \in {"LOCKING", "UNLOCKING"} \union Erasers
      /\ UNCHANGED <<flash, locked, parts, shifted, buffered, op, pos, faults>>
      /\ \/ Fail
         \/ \E r \in StepRanges :
               /\ ~FrobRefuses(Geometry, r.ofs, r.len)
               /\ w' = FrobStart(Geometry, r.ofs, r.len) /\ pc' = "frob"
               /\ UNCHANGED <<steps, result>>
  BY DEF FrobBegin, chip, machine, Erasers
<1>2. NTypes /\ NOp /\ result = "none" /\ pc # "idle"
  BY <1>1 DEF NInv, NTypes
<1>3. /\ flash \in [Bytes -> {"blank", "data", "junk"}] /\ locked \in [BlockStarts -> BOOLEAN]
      /\ pos \in Bytes /\ faults \in Nat
  BY DEF NInv, NTypes
<1>4. CASE Fail
  BY <1>1, <1>3, <1>4, EndsBadly DEF Fail
<1>5. ASSUME NEW r \in StepRanges, ~FrobRefuses(Geometry, r.ofs, r.len),
             w' = FrobStart(Geometry, r.ofs, r.len), pc' = "frob", UNCHANGED <<steps, result>>
      PROVE  NInv'
  <2>1. /\ r.ofs \in Nat /\ r.len \in Nat /\ WellFormed(Geometry)
        /\ \A b \in Blocks(Geometry) : b.start \in Nat
    BY <1>2, RangeType, ChipFacts, BlockFacts
  <2>2. Walk(Geometry, r.ofs, r.len, r.ofs, w') /\ r.ofs \in Boundaries(Geometry)
    BY <1>5, <2>1, WalkStart, RefusesIff
  <2>3. Erased(flash', locked', r.ofs, r.ofs) /\ Relocked(locked', r.ofs, r.ofs)
    BY <2>1 DEF Erased, Relocked
  <2>4. NTypes' /\ NOp'
    BY <1>1, <1>2, <1>3, <1>5, OpGoesOn
  <2>5. NSteps'
    BY <1>1, <1>5 DEF NInv, NSteps, Running
  <2>6. StepRanges' = StepRanges
    BY <1>1, <1>5, OpStays
  <2>7. NWalk'
    BY <1>5, <2>2, <2>3, <2>6 DEF NWalk
  <2>8. NStage' /\ NErased'
    <3>1. Clean' => Clean
      BY <1>1, OpStays DEF Clean
    <3>. QED
      BY <1>1, <1>2, <1>5, <3>1 DEF NInv, NStage, NErased, OpEnd
  <2>. QED
    BY <2>4, <2>5, <2>7, <2>8 DEF NInv
<1>. QED
  BY <1>1, <1>4, <1>5

LEMMA FrobFinishInv ==
    ASSUME NInv, FrobFinish
    PROVE  NInv'
<1>1. /\ pc = "frob" /\ FrobEnded(Geometry, w) /\ Succeed
      /\ UNCHANGED <<flash, locked, parts, shifted, buffered, op, w, pos, faults>>
  BY DEF FrobFinish, chip, machine
<1>2. /\ NTypes /\ NOp /\ NSteps /\ result = "none" /\ pc \in Running /\ pc # "idle"
      /\ StepList(steps, op.kind, op.flag, shifted)
      /\ Head(steps) \in {"LOCKING", "UNLOCKING"} \union Erasers /\ Head(steps) # "DONE"
  BY <1>1 DEF NInv, NTypes, NSteps, Running, Erasers
<1>3. /\ NSteps' /\ NWalk' /\ pc' = "step" /\ result' = result
      /\ shifted => Follows(op.kind, op.flag, Head(steps), Head(steps'))
  BY <1>1, <1>2, StepDone
<1>4. NTypes' /\ NOp'
  <2>1. /\ flash \in [Bytes -> {"blank", "data", "junk"}] /\ locked \in [BlockStarts -> BOOLEAN]
        /\ pos \in Bytes /\ faults \in Nat
    BY DEF NInv, NTypes
  <2>. QED
    BY <1>1, <1>2, <1>3, <2>1, OpGoesOn
<1>5. ASSUME Clean
      PROVE  \E r \in StepRanges :
                /\ Head(steps) \in Erasers => Ready(flash, locked, op.ofs, OpEnd)
                /\ Head(steps) = "LOCKING" => Relocked(locked, op.ofs, op.ofs + op.blk)
  <2>1. PICK r \in StepRanges, x \in Boundaries(Geometry) :
              /\ r.ofs \in Nat /\ r.len \in Nat /\ r.ofs \in Boundaries(Geometry)
              /\ r.ofs + r.len \in Boundaries(Geometry) /\ x \in Nat
              /\ FrobEnded(Geometry, w) <=> x = r.ofs + r.len
              /\ Clean /\ Head(steps) \in Erasers => Erased(flash, locked, r.ofs, x)
              /\ Clean /\ Head(steps) = "LOCKING" => Relocked(locked, r.ofs, x)
    BY <1>1, WalkFacts
  <2>2. Sane
    BY <1>5 DEF Clean
  <2>3. /\ r.ofs = op.ofs /\ op.len <= r.len
        /\ Head(steps) # "FM_JFFS2" => r.len = op.blk
    BY <1>2, <2>2, StepRange
  <2>4. op.ofs \in Nat /\ op.len \in Nat /\ OpEnd \in Nat /\ OpEnd <= r.ofs + r.len
    <3>1. op.ofs \in Nat /\ op.len \in Nat
      BY <1>2, ChipFacts DEF NTypes
    <3>. QED
      BY <2>1, <2>3, <3>1 DEF OpEnd
  <2>5. ASSUME Head(steps) \in Erasers PROVE Ready(flash, locked, op.ofs, OpEnd)
    <3>1. Erased(flash, locked, r.ofs, r.ofs + r.len)
      BY <1>1, <1>5, <2>1, <2>5
    <3>. QED
      BY <2>1, <2>3, <2>4, <3>1, ErasedReady
  <2>6. ASSUME Head(steps) = "LOCKING" PROVE Relocked(locked, op.ofs, op.ofs + op.blk)
    <3>1. r.ofs = op.ofs /\ r.len = op.blk
      BY <2>3, <2>6
    <3>. QED
      BY <1>1, <1>5, <2>1, <2>6, <3>1
  <2>. QED
    BY <2>5, <2>6
<1>6. /\ Clean' => Clean /\ shifted
      /\ OpEnd' = OpEnd /\ op' = op /\ flash' = flash /\ locked' = locked /\ pc' # "program"
  BY <1>1, <1>3, OpStays DEF Clean, Sane
<1>7. NStage'
  <2>1. SUFFICES ASSUME Clean', op.kind = "write"
                 PROVE  /\ Head(steps') = "WRITING" => Ready(flash, locked, op.ofs, OpEnd)
                        /\ Head(steps') \in {"VERIFYING", "LOCKING", "DONE"} =>
                              Stored(flash, op.ofs, OpEnd)
                        /\ Head(steps') = "DONE" /\ "MF_LOCKED" \in op.flag =>
                              Relocked(locked, op.ofs, op.ofs + op.blk)
    BY <1>2, <1>3, <1>6 DEF NStage
  <2>2. /\ Head(steps) \in Erasers => Ready(flash, locked, op.ofs, OpEnd)
        /\ Head(steps) = "LOCKING" => Relocked(locked, op.ofs, op.ofs + op.blk)
    BY <1>5, <1>6, <2>1
  <2>3. Head(steps) = "LOCKING" => Stored(flash, op.ofs, OpEnd)
    BY <1>1, <1>6, <2>1 DEF NInv, NStage
  <2>4. \/ Head(steps) = "UNLOCKING" /\ Head(steps') \in Erasers
        \/ Head(steps) \in Erasers /\ Head(steps') = "WRITING"
        \/ Head(steps) = "LOCKING" /\ Head(steps') = "DONE"
    <3>1. Follows("write", op.flag, Head(steps), Head(steps'))
      BY <1>3, <1>6, <2>1
    <3>. QED
      BY <1>2, <3>1 DEF Follows, Eraser, Erasers
  <2>. QED
    BY <2>2, <2>3, <2>4 DEF Erasers
<1>8. NErased'
  <2>1. SUFFICES ASSUME Clean', op.kind = "erase", Head(steps') = "DONE"
                 PROVE  \A a \in op.ofs .. OpEnd - 1 : flash[a] = "blank"
    BY <1>2, <1>3, <1>6 DEF NErased
  <2>2. Head(steps) \in Erasers
    <3>1. Follows("erase", op.flag, Head(steps), Head(steps'))
      BY <1>3, <1>6, <2>1
    <3>. QED
      BY <3>1 DEF Follows, Erasers
  <2>3. Ready(flash, locked, op.ofs, OpEnd)
    BY <1>5, <1>6, <2>1, <2>2
  <2>. QED
    BY <2>3 DEF Ready
<1>. QED
  BY <1>3, <1>4, <1>7, <1>8 DEF NInv

\* On to the next block, with what was done to this one.
LEMMA OnToNextInv ==
    ASSUME NInv, pc = "frob", ~FrobEnded(Geometry, w), OnToNext,
           UNCHANGED <<parts, shifted, buffered, op, pos>>,
           flash' \in [Bytes -> {"blank", "data", "junk"}], locked' \in [BlockStarts -> BOOLEAN],
           faults' \in Nat,
           Clean' => Clean /\ \A from \in Nat, b \in Blocks(Geometry) :
               b.start = FrobBlock(Geometry, w) /\ b.size = FrobBlockSize(Geometry, w) =>
                 /\ Head(steps) \in Erasers /\ Erased(flash, locked, from, b.start) =>
                       Erased(flash', locked', from, b.start + b.size)
                 /\ Head(steps) = "LOCKING" /\ Relocked(locked, from, b.start) =>
                       Relocked(locked', from, b.start + b.size),
           Head(steps) \notin Erasers => flash' = flash
    PROVE  NInv'
<1>1. w' = FrobNext(Geometry, w) /\ UNCHANGED <<steps, pc, result>>
  BY DEF OnToNext
<1>2. NTypes /\ NOp /\ pos \in Bytes /\ result = "none" /\ WellFormed(Geometry)
      /\ result \in {"none", "done", "error", "cut"}
  BY ChipFacts DEF NInv, NTypes
<1>3. NTypes' /\ NOp'
  BY <1>1, <1>2, OpGoesOn
<1>4. NSteps'
  BY <1>1 DEF NInv, NSteps
<1>5. PICK r \in StepRanges, x \in Boundaries(Geometry) :
              /\ r.ofs \in Nat /\ r.len \in Nat /\ x \in Nat
              /\ ~FrobRefuses(Geometry, r.ofs, r.len)
              /\ Walk(Geometry, r.ofs, r.len, x, w)
              /\ FrobBlock(Geometry, w) = x
              /\ Clean /\ Head(steps) \in Erasers => Erased(flash, locked, r.ofs, x)
              /\ Clean /\ Head(steps) = "LOCKING" => Relocked(locked, r.ofs, x)
  BY WalkFacts
<1> DEFINE s == FrobBlockSize(Geometry, w)
           b == [start |-> x, size |-> s]
<1>6. /\ b \in Blocks(Geometry) /\ b.start = x /\ b.size = s
      /\ x + s \in Boundaries(Geometry)
      /\ Walk(Geometry, r.ofs, r.len, x + s, FrobNext(Geometry, w))
  BY <1>2, <1>5, WalkHere
<1> HIDE DEF b, s
<1>7. ASSUME Clean'
      PROVE  /\ Head(steps) \in Erasers => Erased(flash', locked', r.ofs, x + s)
             /\ Head(steps) = "LOCKING" => Relocked(locked', r.ofs, x + s)
  BY <1>5, <1>6, <1>7 DEF s
<1>8. StepRanges' = StepRanges /\ OpEnd' = OpEnd
  BY <1>1, OpStays
<1>9. NWalk'
  BY <1>1, <1>5, <1>6, <1>7, <1>8 DEF NWalk
<1>10. NStage'
  <2>1. SUFFICES ASSUME Clean', op.kind = "write", Head(steps) \in {"VERIFYING", "LOCKING", "DONE"}
                 PROVE  Stored(flash', op.ofs, OpEnd)
    BY <1>1, <1>2, <1>8 DEF NStage
  <2>2. flash' = flash /\ Clean
    BY <2>1 DEF Erasers
  <2>. QED
    BY <2>1, <2>2 DEF NInv, NStage
<1>11. NErased'
  BY <1>1, <1>2 DEF NErased
<1>. QED
  BY <1>3, <1>4, <1>9, <1>10, <1>11 DEF NInv

LEMMA DoEraseOneblockInv ==
    ASSUME NInv, DoEraseOneblock
    PROVE  NInv'
<1> DEFINE x == FrobBlock(Geometry, w)
<1>1. /\ pc = "frob" /\ ~FrobEnded(Geometry, w) /\ Head(steps) \in Erasers
      /\ UNCHANGED <<locked, parts, shifted, buffered, op, pos>>
  BY DEF DoEraseOneblock, machine, Erasers
<1>2. \/ Fail /\ UNCHANGED <<flash, faults>>
      \/ ~locked[x] /\ Set(FrobBytes, "blank") /\ OnToNext /\ UNCHANGED faults
      \/ Set(FrobBytes, "junk") /\ Faulty /\ (OnToNext \/ Fail)
  BY DEF DoEraseOneblock
<1>3. /\ flash \in [Bytes -> {"blank", "data", "junk"}] /\ locked \in [BlockStarts -> BOOLEAN]
      /\ faults \in Nat
  BY DEF NInv, NTypes
<1>4. CASE Fail /\ UNCHANGED <<flash, faults>>
  BY <1>1, <1>3, <1>4, EndsBadly DEF Fail
<1>5. CASE ~locked[x] /\ Set(FrobBytes, "blank") /\ OnToNext /\ UNCHANGED faults
  <2>1. flash' = [a \in Bytes |-> IF a \in FrobBytes THEN "blank" ELSE flash[a]]
    BY <1>5 DEF Set
  <2>2. flash' \in [Bytes -> {"blank", "data", "junk"}]
    BY <1>3, <2>1
  <2>3. Clean' => Clean
    BY <1>1, <1>5, OpStays DEF Clean
  <2>4. ASSUME NEW from \in Nat, NEW b \in Blocks(Geometry),
               b.start = x, b.size = FrobBlockSize(Geometry, w), Erased(flash, locked, from, b.start)
        PROVE  Erased(flash', locked', from, b.start + b.size)
    <3>1. FrobBytes = b.start .. b.start + b.size - 1
      BY <2>4 DEF FrobBytes
    <3>2. b.start \in Nat
      BY ChipFacts, BlockFacts
    <3>3. ~locked[b.start]
      BY <1>5, <2>4
    <3>4. flash' = [a \in Bytes |-> IF a \in b.start .. b.start + b.size - 1 THEN "blank" ELSE flash[a]]
      BY <2>1, <3>1
    <3>5. Erased(flash', locked, from, b.start + b.size)
      BY <1>3, <2>4, <3>2, <3>3, <3>4, OneErased
    <3>. QED
      BY <1>1, <3>5
  <2>5. Head(steps) # "LOCKING"
    BY <1>1 DEF Erasers
  <2>6. faults' \in Nat /\ locked' \in [BlockStarts -> BOOLEAN]
    BY <1>1, <1>3, <1>5
  <2>. QED
    BY <1>1, <1>5, <2>2, <2>3, <2>4, <2>5, <2>6, OnToNextInv
<1>6. CASE Set(FrobBytes, "junk") /\ Faulty /\ (OnToNext \/ Fail)
  <2>1. flash' \in [Bytes -> {"blank", "data", "junk"}]
    BY <1>3, <1>6 DEF Set
  <2>2. faults' \in Nat /\ faults' # 0
    BY <1>3, <1>6 DEF Faulty
  <2>3. CASE Fail
    BY <1>1, <1>3, <2>1, <2>2, <2>3, EndsBadly DEF Fail
  <2>4. CASE OnToNext
    <3>1. ~Clean'
      BY <2>2 DEF Clean
    <3>2. locked' \in [BlockStarts -> BOOLEAN]
      BY <1>1, <1>3
    <3>. QED
      BY <1>1, <2>1, <2>2, <2>4, <3>1, <3>2, OnToNextInv
  <2>. QED
    BY <1>6, <2>3, <2>4
<1>. QED
  BY <1>2, <1>4, <1>5, <1>6

LEMMA DoXxlockOneblockInv ==
    ASSUME NInv, DoXxlockOneblock
    PROVE  NInv'
<1> DEFINE x == FrobBlock(Geometry, w)
<1>1. /\ pc = "frob" /\ ~FrobEnded(Geometry, w) /\ Head(steps) \in {"LOCKING", "UNLOCKING"}
      /\ UNCHANGED <<flash, parts, shifted, buffered, op, pos>>
  BY DEF DoXxlockOneblock, machine
<1>2. \/ /\ locked' = [locked EXCEPT ![x] = (Head(steps) = "LOCKING")]
         /\ OnToNext /\ UNCHANGED faults
      \/ Faulty /\ (OnToNext \/ Fail) /\ UNCHANGED locked
  BY DEF DoXxlockOneblock
<1>3. /\ flash \in [Bytes -> {"blank", "data", "junk"}] /\ locked \in [BlockStarts -> BOOLEAN]
      /\ faults \in Nat
  BY DEF NInv, NTypes
<1>4. Head(steps) \notin Erasers
  BY <1>1 DEF Erasers
<1>5. CASE /\ locked' = [locked EXCEPT ![x] = (Head(steps) = "LOCKING")]
           /\ OnToNext /\ UNCHANGED faults
  <2>1. locked' \in [BlockStarts -> BOOLEAN]
    BY <1>3, <1>5
  <2>2. Clean' => Clean
    BY <1>1, <1>5, OpStays DEF Clean
  <2>3. ASSUME NEW from \in Nat, NEW b \in Blocks(Geometry),
               b.start = x, Head(steps) = "LOCKING", Relocked(locked, from, b.start)
        PROVE  Relocked(locked', from, b.start + b.size)
    <3>1. b.start \in Nat
      BY ChipFacts, BlockFacts
    <3>2. locked' = [locked EXCEPT ![b.start] = TRUE]
      BY <1>5, <2>3
    <3>. QED
      BY <1>3, <2>3, <3>1, <3>2, OneRelocked
  <2>4. faults' \in Nat /\ flash' \in [Bytes -> {"blank", "data", "junk"}] /\ flash' = flash
    BY <1>1, <1>3, <1>5
  <2>. QED
    BY <1>1, <1>4, <1>5, <2>1, <2>2, <2>3, <2>4, OnToNextInv
<1>6. CASE Faulty /\ (OnToNext \/ Fail) /\ UNCHANGED locked
  <2>1. faults' \in Nat /\ faults' # 0
    BY <1>3, <1>6 DEF Faulty
  <2>2. CASE Fail
    BY <1>1, <1>3, <1>6, <2>1, <2>2, EndsBadly DEF Fail
  <2>3. CASE OnToNext
    <3>1. ~Clean'
      BY <2>1 DEF Clean
    <3>2. flash' = flash /\ flash' \in [Bytes -> {"blank", "data", "junk"}]
          /\ locked' \in [BlockStarts -> BOOLEAN]
      BY <1>1, <1>3, <1>6
    <3>. QED
      BY <1>1, <2>1, <2>3, <3>1, <3>2, OnToNextInv
  <2>. QED
    BY <1>6, <2>2, <2>3
<1>. QED
  BY <1>2, <1>5, <1>6

LEMMA WriteBeginInv ==
    ASSUME NInv, WriteBegin
    PROVE  NInv'
<1>1. /\ pc = "step" /\ Head(steps) = "WRITING" /\ pos' = op.ofs /\ pc' = "program"
      /\ UNCHANGED <<flash, locked, parts, shifted, buffered, op, steps, w, result, faults>>
  BY DEF WriteBegin, Stepping, chip, machine
<1>2. /\ NTypes /\ NOp /\ result = "none" /\ op.ofs \in Bytes /\ op.ofs \in Nat /\ op.len \in Nat
      /\ flash \in [Bytes -> {"blank", "data", "junk"}] /\ locked \in [BlockStarts -> BOOLEAN]
      /\ faults \in Nat /\ pc # "idle"
  BY <1>1, ChipFacts DEF NInv, NTypes
<1>3. NTypes' /\ NOp'
  BY <1>1, <1>2, OpGoesOn
<1>4. NSteps'
  BY <1>1, <1>2 DEF NInv, NSteps, Running, OpEnd
<1>5. NWalk' /\ NErased'
  BY <1>1, <1>2 DEF NWalk, NErased
<1>6. NStage'
  <2>1. (Clean' => Clean) /\ OpEnd' = OpEnd
    BY <1>1, OpStays DEF Clean
  <2>2. Stored(flash, op.ofs, op.ofs)
    BY <1>2 DEF Stored
  <2>. QED
    BY <1>1, <1>2, <2>1, <2>2 DEF NInv, NStage
<1>. QED
  BY <1>3, <1>4, <1>5, <1>6 DEF NInv

\* n bytes more are programmed.
LEMMA WrittenInv ==
    ASSUME NInv, pc = "program", NEW n \in Nat, n <= Left, pos + n <= FlashSize(Geometry),
           Written(n), UNCHANGED <<locked, parts, shifted, buffered, op>>,
           flash' \in [Bytes -> {"blank", "data", "junk"}], faults' \in Nat,
           Clean' /\ op.kind = "write" =>
              Stored(flash', op.ofs, pos + n) /\ Ready(flash', locked, pos + n, OpEnd)
    PROVE  NInv'
<1>1. /\ NTypes /\ NOp /\ NSteps /\ result = "none" /\ pc # "idle" /\ pc \in Running
      /\ op.ofs \in Nat /\ op.len \in Nat /\ pos \in Nat /\ pos \in Bytes
      /\ Head(steps) = "WRITING" /\ op.ofs <= pos /\ pos <= OpEnd /\ OpEnd \in Nat
      /\ locked' \in [BlockStarts -> BOOLEAN]
  BY ChipFacts DEF NInv, NTypes, NSteps, OpEnd, Running
<1>2. StepList(steps, op.kind, op.flag, shifted) /\ FlashSize(Geometry) \in Nat
  BY <1>1, ChipFacts DEF NSteps
<1>3. /\ Clean' => Sane /\ shifted
      /\ OpEnd' = OpEnd /\ Left = OpEnd - pos
  <2>1. (Clean' => Sane) /\ OpEnd' = OpEnd
    BY OpStays
  <2>2. Sane => shifted
    BY DEF Sane
  <2>3. Left = OpEnd - pos
    BY <1>1 DEF OpEnd, Left, NInv, NTypes
  <2>. QED
    BY <2>1, <2>2, <2>3
<1>4. CASE /\ Left = n \/ pos + n = FlashSize(Geometry)
           /\ Succeed /\ UNCHANGED pos
  <2>1. /\ NSteps' /\ NWalk' /\ pc' = "step" /\ result' = result
        /\ shifted => Follows(op.kind, op.flag, Head(steps), Head(steps'))
    BY <1>1, <1>4, StepDone
  <2>2. NTypes' /\ NOp'
    BY <1>1, <1>4, <2>1, OpGoesOn
  <2>3. Clean' => op.kind = "write" /\ Head(steps') = "VERIFYING"
    BY <1>1, <1>3, <2>1 DEF Follows, Eraser
  <2>4. ASSUME Clean' PROVE Stored(flash', op.ofs, OpEnd)
    <3>1. OpEnd <= FlashSize(Geometry)
      BY <1>3, <2>3, <2>4 DEF Sane, WellPlaced, OpEnd
    <3>2. pos + n = OpEnd
      BY <1>1, <1>2, <1>3, <1>4, <3>1
    <3>. QED
      BY <2>3, <2>4, <3>2
  <2>5. NStage' /\ NErased'
    BY <1>1, <1>3, <2>1, <2>3, <2>4 DEF NStage, NErased
  <2>. QED
    BY <2>1, <2>2, <2>5 DEF NInv
<1>5. CASE /\ ~(Left = n \/ pos + n = FlashSize(Geometry))
           /\ pos' = pos + n /\ UNCHANGED <<steps, pc, result>>
  <2>1. pos' \in Bytes /\ op.ofs <= pos' /\ pos' <= OpEnd
    BY <1>1, <1>2, <1>3, <1>5, ChipFacts
  <2>2. NTypes' /\ NOp'
    BY <1>1, <1>5, <2>1, OpGoesOn
  <2>3. NSteps' /\ NWalk'
    BY <1>1, <1>3, <1>5, <2>1 DEF NSteps, NWalk
  <2>4. NStage' /\ NErased'
    BY <1>1, <1>3, <1>5 DEF NStage, NErased
  <2>. QED
    BY <2>2, <2>3, <2>4 DEF NInv
<1>. QED
  BY <1>4, <1>5 DEF Written

\* How many bytes one program takes: no more than are left, or are there.
LEMMA ProgramCounts ==
    ASSUME NInv, pc = "program"
    PROVE  /\ pos \in Bytes /\ Left \in Nat /\ Left = OpEnd - pos
           /\ Min({Left, WordBytes}) \in Nat /\ Min({Left, WordBytes}) <= Left
           /\ pos + Min({Left, WordBytes}) <= FlashSize(Geometry)
           /\ Min({Left, WordBytes}) = 0 => Left = 0
           /\ ChunkSize \in Nat /\ ChunkSize <= Left
           /\ pos + ChunkSize <= FlashSize(Geometry)
           /\ Min({Left, ChunkSize}) \in Nat /\ Min({Left, ChunkSize}) <= Left
<1> DEFINE n == FlashSize(Geometry)
<1>1. /\ op.ofs \in Nat /\ op.len \in Nat /\ pos \in Nat /\ pos \in Bytes /\ pos < n /\ n \in Nat
      /\ op.ofs <= pos /\ pos <= OpEnd /\ OpEnd = op.ofs + op.len
      /\ BusWidth \in Nat \ {0} /\ WBufSize \in Nat \ {0}
  BY ChipFacts DEF NInv, NTypes, NSteps, OpEnd
<1>2. Left \in Nat /\ Left = OpEnd - pos
  BY <1>1 DEF Left
<1>3. n % WBufSize = 0 /\ n % BusWidth = 0
  BY WholeBuffers
<1> HIDE DEF n
<1>4. WordBytes \in Nat /\ WordBytes >= 1 /\ pos + WordBytes <= n
  <2>1. BusWidth - (pos % BusWidth) \in 1 .. BusWidth /\ pos + (BusWidth - (pos % BusWidth)) <= n
    BY <1>1, <1>3, NextMultiple
  <2>2. WordBytes \in 1 .. BusWidth /\ pos + WordBytes <= n
    BY <2>1 DEF WordBytes
  <2>. QED
    BY <1>1, <2>2
<1>5. /\ Min({Left, WordBytes}) \in {Left, WordBytes}
      /\ Min({Left, WordBytes}) <= Left /\ Min({Left, WordBytes}) <= WordBytes
  <2>1. {Left, WordBytes} \in SUBSET Nat /\ {Left, WordBytes} # {}
    BY <1>2, <1>4
  <2>. QED
    BY <2>1, MinIs
<1> DEFINE size == WBufSize - (pos % WBufSize)
<1>6. size \in Nat /\ size >= 1 /\ pos + size <= n
  <2>1. WBufSize - (pos % WBufSize) \in 1 .. WBufSize /\ pos + (WBufSize - (pos % WBufSize)) <= n
    BY <1>1, <1>3, NextMultiple
  <2>2. size \in 1 .. WBufSize /\ pos + size <= n
    BY <2>1
  <2> HIDE DEF size
  <2>. QED
    BY <1>1, <2>2
<1>7. ChunkSize = IF size > Left THEN Left - (Left % BusWidth) ELSE size
  BY DEF ChunkSize
<1>8. Left % BusWidth \in Nat /\ Left % BusWidth <= Left
  <2>1. /\ Left \div BusWidth \in Nat /\ Left % BusWidth \in 0 .. BusWidth - 1
        /\ Left = (Left \div BusWidth) * BusWidth + (Left % BusWidth)
    BY <1>1, <1>2, DivMod
  <2>2. (Left \div BusWidth) * BusWidth \in Nat
    BY <1>1, <2>1, SMT
  <2>. QED
    BY <1>1, <2>1, <2>2
<1> HIDE DEF size
<1>9. ChunkSize \in Nat /\ ChunkSize <= Left /\ pos + ChunkSize <= n
  BY <1>1, <1>2, <1>6, <1>7, <1>8
<1>10. Min({Left, ChunkSize}) \in {Left, ChunkSize} /\ Min({Left, ChunkSize}) <= Left
  <2>1. {Left, ChunkSize} \in SUBSET Nat /\ {Left, ChunkSize} # {}
    BY <1>2, <1>9
  <2>. QED
    BY <2>1, MinIs
<1>11. /\ Min({Left, WordBytes}) \in Nat /\ pos + Min({Left, WordBytes}) <= n
       /\ Min({Left, WordBytes}) = 0 => Left = 0
  BY <1>1, <1>2, <1>4, <1>5
<1>. QED
  BY <1>1, <1>2, <1>5, <1>9, <1>10, <1>11 DEF n

\* Where the next byte goes, the block is unlocked.
LEMMA ReadyUnlocked ==
    ASSUME NEW f, NEW l, NEW from \in Bytes, NEW to \in Nat, from < to, Ready(f, l, from, to)
    PROVE  ~l[BlockOf(from).start]
<1>1. /\ BlockOf(from) \in Blocks(Geometry)
      /\ BlockOf(from).start <= from /\ from < BlockOf(from).start + BlockOf(from).size
  BY BlockOfIs
<1>2. BlockOf(from).start \in Nat /\ from \in Nat
  BY <1>1, ChipFacts, BlockFacts
<1>3. BlockOf(from).start < to
  BY <1>1, <1>2
<1>. QED
  BY <1>1, <1>3 DEF Ready

LEMMA BurnStores ==
    ASSUME NEW f \in [Bytes -> {"blank", "data", "junk"}], NEW l, NEW h,
           NEW o \in Nat, NEW p \in Bytes, NEW n \in Nat, NEW e \in Nat,
           Stored(f, o, p), Ready(f, l, p, e), o <= p, p + n <= e, e <= FlashSize(Geometry),
           h = [a \in Bytes |-> IF a \in p .. p + n - 1 /\ f[a] = "blank" THEN "data" ELSE f[a]]
    PROVE  Stored(h, o, p + n) /\ Ready(h, l, p + n, e)
<1>1. Bytes = 0 .. FlashSize(Geometry) - 1 /\ FlashSize(Geometry) \in Nat /\ p \in Nat
  BY ChipFacts
<1>2. /\ \A a \in o .. p - 1 : f[a] = "data"
      /\ \A a \in p .. e - 1 : f[a] = "blank"
      /\ \A b \in Blocks(Geometry) : b.start < e /\ p < b.start + b.size => ~l[b.start]
  BY DEF Stored, Ready
<1>3. ASSUME NEW a \in o .. p + n - 1 PROVE h[a] = "data"
  <2>1. a \in Bytes
    BY <1>1
  <2>2. CASE a < p
    <3>1. a \in o .. p - 1
      BY <1>1, <2>2
    <3>. QED
      BY <1>2, <2>1, <3>1
  <2>3. CASE ~(a < p)
    <3>1. a \in p .. e - 1 /\ a \in p .. p + n - 1
      BY <1>1, <2>3
    <3>. QED
      BY <1>2, <2>1, <3>1
  <2>. QED
    BY <2>2, <2>3
<1>4. ASSUME NEW a \in p + n .. e - 1 PROVE h[a] = "blank"
  <2>1. a \in Bytes /\ a \in p .. e - 1 /\ a \notin p .. p + n - 1
    BY <1>1
  <2>. QED
    BY <1>2, <2>1
<1>5. ASSUME NEW b \in Blocks(Geometry), b.start < e, p + n < b.start + b.size PROVE ~l[b.start]
  <2>1. b.start \in Nat /\ b.size \in Nat
    BY ChipFacts, BlockFacts
  <2>2. p < b.start + b.size
    BY <1>1, <1>5, <2>1
  <2>. QED
    BY <1>2, <1>5, <2>2
<1>6. Stored(h, o, p + n)
  <2>1. o .. p + n - 1 = o .. (p + n) - 1
    BY <1>1
  <2>. QED
    BY <1>3, <2>1 DEF Stored
<1>7. Ready(h, l, p + n, e)
  BY <1>4, <1>5 DEF Ready
<1>. QED
  BY <1>6, <1>7

LEMMA DoWriteOnewordInv ==
    ASSUME NInv, DoWriteOneword
    PROVE  NInv'
<1> DEFINE n == Min({Left, WordBytes})
           bytes == pos .. pos + n - 1
           blk == BlockOf(pos).start
<1>1. pc = "program" /\ UNCHANGED <<locked, parts, shifted, buffered, op>>
  BY DEF DoWriteOneword, machine
<1>2. \/ locked[blk] /\ Written(n) /\ UNCHANGED <<flash, faults>>
      \/ Burn(bytes) /\ Written(n) /\ UNCHANGED faults
      \/ Set(bytes, "junk") /\ Faulty /\ Written(n)
      \/ Set(bytes, "junk") /\ Faulty /\ Fail /\ UNCHANGED pos
  BY DEF DoWriteOneword
<1>3. /\ n \in Nat /\ n <= Left /\ pos + n <= FlashSize(Geometry)
      /\ n = 0 => Left = 0
      /\ pos \in Bytes /\ pos \in Nat /\ Left \in Nat /\ Left = OpEnd - pos
  BY <1>1, ProgramCounts, ChipFacts
<1> HIDE DEF n
<1>4. /\ flash \in [Bytes -> {"blank", "data", "junk"}] /\ locked \in [BlockStarts -> BOOLEAN]
      /\ faults \in Nat /\ pc # "idle" /\ op.ofs \in Nat /\ op.ofs <= pos /\ OpEnd \in Nat
  BY <1>1, ChipFacts DEF NInv, NTypes, NSteps, OpEnd
<1>5. ASSUME Clean, op.kind = "write"
      PROVE  /\ Stored(flash, op.ofs, pos) /\ Ready(flash, locked, pos, OpEnd)
             /\ OpEnd <= FlashSize(Geometry)
             /\ locked[blk] => n = 0
  <2>1. Stored(flash, op.ofs, pos) /\ Ready(flash, locked, pos, OpEnd)
    BY <1>1, <1>5 DEF NInv, NStage
  <2>2. OpEnd <= FlashSize(Geometry)
    BY <1>5 DEF Clean, Sane, WellPlaced, OpEnd
  <2>3. ASSUME n # 0 PROVE ~locked[blk]
    <3>1. pos < OpEnd
      BY <1>3, <1>4, <2>3
    <3>. QED
      BY <1>3, <1>4, <2>1, <3>1, ReadyUnlocked
  <2>. QED
    BY <2>1, <2>2, <2>3
<1>6. CASE locked[blk] /\ Written(n) /\ UNCHANGED <<flash, faults>>
  <2>1. Clean' => Clean
    BY <1>1, <1>6, OpStays DEF Clean
  <2>2. ASSUME Clean', op.kind = "write"
        PROVE  Stored(flash', op.ofs, pos + n) /\ Ready(flash', locked, pos + n, OpEnd)
    <3>1. pos + n = pos /\ flash' = flash
      BY <1>3, <1>5, <1>6, <2>1, <2>2
    <3>. QED
      BY <1>5, <2>1, <2>2, <3>1
  <2>3. flash' \in [Bytes -> {"blank", "data", "junk"}] /\ faults' \in Nat
    BY <1>4, <1>6
  <2>. QED
    BY <1>1, <1>3, <1>6, <2>2, <2>3, WrittenInv
<1>7. CASE Burn(bytes) /\ Written(n) /\ UNCHANGED faults
  <2>1. flash' = [a \in Bytes |-> IF a \in bytes /\ flash[a] = "blank" THEN "data" ELSE flash[a]]
    BY <1>7 DEF Burn
  <2>2. flash' \in [Bytes -> {"blank", "data", "junk"}] /\ faults' \in Nat
    BY <1>4, <1>7, <2>1
  <2>3. Clean' => Clean
    BY <1>1, <1>7, OpStays DEF Clean
  <2>4. ASSUME Clean', op.kind = "write"
        PROVE  Stored(flash', op.ofs, pos + n) /\ Ready(flash', locked, pos + n, OpEnd)
    <3>1. pos + n <= OpEnd
      BY <1>3, <1>4
    <3>2. /\ Stored(flash, op.ofs, pos) /\ Ready(flash, locked, pos, OpEnd)
          /\ OpEnd <= FlashSize(Geometry)
      BY <1>5, <2>3, <2>4
    <3>. QED
      BY <1>3, <1>4, <2>1, <3>1, <3>2, BurnStores
  <2>. QED
    BY <1>1, <1>3, <1>7, <2>2, <2>4, WrittenInv
<1>8. CASE Set(bytes, "junk") /\ Faulty
  <2>1. flash' \in [Bytes -> {"blank", "data", "junk"}]
    BY <1>4, <1>8 DEF Set
  <2>2. faults' \in Nat /\ faults' # 0
    BY <1>4, <1>8 DEF Faulty
  <2>3. ~Clean'
    BY <2>2 DEF Clean
  <2>4. CASE Written(n)
    BY <1>1, <1>3, <2>1, <2>2, <2>3, <2>4, WrittenInv
  <2>5. CASE Fail /\ UNCHANGED pos
    <3>1. locked' \in [BlockStarts -> BOOLEAN]
      BY <1>1, <1>4
    <3>. QED
      BY <1>1, <1>4, <2>1, <2>2, <2>5, <3>1, EndsBadly DEF Fail
  <2>. QED
    BY <1>2, <1>6, <1>7, <2>4, <2>5
<1>. QED
  BY <1>2, <1>6, <1>7, <1>8

LEMMA DoWriteBufferInv ==
    ASSUME NInv, DoWriteBuffer
    PROVE  NInv'
<1>1. pc = "program" /\ buffered /\ UNCHANGED <<locked, parts, shifted, buffered, op>>
  BY DEF DoWriteBuffer, UsesBuffer, machine
<1>2. \/ Fail /\ UNCHANGED <<flash, pos, faults>>
      \/ /\ \E right : flash' =
               [a \in Bytes |-> IF a \notin pos .. pos + ChunkSize - 1 THEN flash[a]
                                ELSE IF a \in right /\ flash[a] = "blank" THEN "data" ELSE "junk"]
         /\ \/ Written(ChunkSize) /\ UNCHANGED faults
            \/ Faulty /\ pc' = "hung" /\ UNCHANGED <<pos, steps, result>>
  BY DEF DoWriteBuffer
<1>3. /\ ChunkSize \in Nat /\ ChunkSize <= Left /\ pos + ChunkSize <= FlashSize(Geometry)
  BY <1>1, ProgramCounts
<1>4. /\ flash \in [Bytes -> {"blank", "data", "junk"}] /\ locked \in [BlockStarts -> BOOLEAN]
      /\ faults \in Nat /\ pc # "idle"
  BY <1>1 DEF NInv, NTypes
<1>5. CASE Fail /\ UNCHANGED <<flash, pos, faults>>
  BY <1>1, <1>4, <1>5, EndsBadly DEF Fail
<1>6. CASE \E right : flash' =
              [a \in Bytes |-> IF a \notin pos .. pos + ChunkSize - 1 THEN flash[a]
                               ELSE IF a \in right /\ flash[a] = "blank" THEN "data" ELSE "junk"]
  <2>1. flash' \in [Bytes -> {"blank", "data", "junk"}]
    BY <1>4, <1>6
  <2>2. ~Clean'
    BY <1>1 DEF Clean
  <2>3. CASE Written(ChunkSize) /\ UNCHANGED faults
    <3>1. faults' \in Nat
      BY <1>4, <2>3
    <3>. QED
      BY <1>1, <1>3, <2>1, <2>2, <2>3, <3>1, WrittenInv
  <2>4. CASE Faulty /\ pc' = "hung" /\ UNCHANGED <<pos, steps, result>>
    <3>1. faults' \in Nat
      BY <1>4, <2>4 DEF Faulty
    <3>. QED
      BY <1>1, <1>4, <2>1, <2>4, <3>1, Hangs
  <2>. QED
    BY <1>2, <1>5, <2>3, <2>4
<1>. QED
  BY <1>2, <1>5, <1>6

LEMMA NorVerifyInv ==
    ASSUME NInv, NorVerify
    PROVE  NInv'
<1>1. /\ pc = "step" /\ Head(steps) = "VERIFYING"
      /\ UNCHANGED <<flash, locked, parts, shifted, buffered, op, pos, faults>>
      /\ Succeed \/ Fail
  BY DEF NorVerify, Stepping, chip, machine
<1>2. /\ NTypes /\ NOp /\ NSteps /\ result = "none" /\ pc # "idle" /\ pc \in Running
      /\ flash \in [Bytes -> {"blank", "data", "junk"}] /\ locked \in [BlockStarts -> BOOLEAN]
      /\ faults \in Nat /\ pos \in Bytes
  BY <1>1 DEF NInv, NTypes, Running
<1>3. CASE Fail
  BY <1>1, <1>2, <1>3, EndsBadly DEF Fail
<1>4. CASE Succeed
  <2>1. /\ NSteps' /\ NWalk' /\ pc' = "step" /\ result' = result
        /\ shifted => Follows(op.kind, op.flag, Head(steps), Head(steps'))
    BY <1>1, <1>2, <1>4, StepDone
  <2>2. NTypes' /\ NOp'
    BY <1>1, <1>2, <2>1, OpGoesOn
  <2>3. (Clean' => Clean /\ shifted) /\ OpEnd' = OpEnd
    BY <1>1, OpStays DEF Clean, Sane
  <2>4. ASSUME Clean'
        PROVE  /\ op.kind = "write" /\ Stored(flash, op.ofs, OpEnd)
               /\ Head(steps') = "LOCKING" \/ (Head(steps') = "DONE" /\ "MF_LOCKED" \notin op.flag)
    <3>1. Follows(op.kind, op.flag, "VERIFYING", Head(steps'))
      BY <1>1, <2>1, <2>3, <2>4
    <3>2. /\ op.kind = "write"
          /\ Head(steps') = "LOCKING" \/ (Head(steps') = "DONE" /\ "MF_LOCKED" \notin op.flag)
      BY <3>1 DEF Follows, Eraser
    <3>. QED
      BY <1>1, <2>3, <2>4, <3>2 DEF NInv, NStage
  <2>5. NStage' /\ NErased'
    BY <1>1, <1>2, <2>1, <2>3, <2>4 DEF NStage, NErased
  <2>. QED
    BY <2>1, <2>2, <2>5 DEF NInv
<1>. QED
  BY <1>1, <1>3, <1>4

LEMMA WriteDoneInv ==
    ASSUME NInv, WriteDone
    PROVE  NInv'
<1>1. /\ pc = "step" /\ Head(steps) = "DONE" /\ pc' = "idle" /\ result' = "done"
      /\ UNCHANGED <<flash, locked, parts, shifted, buffered, op, pos, faults>>
  BY DEF WriteDone, Stepping, chip, machine
<1>2. /\ NTypes /\ NOp /\ pc # "idle"
      /\ flash \in [Bytes -> {"blank", "data", "junk"}] /\ locked \in [BlockStarts -> BOOLEAN]
      /\ faults \in Nat /\ pos \in Bytes
  BY <1>1 DEF NInv, NTypes
<1>3. NTypes' /\ NOp'
  BY <1>1, <1>2, OpGoesOn
<1>4. NSteps' /\ NWalk'
  BY <1>1 DEF NSteps, NWalk, Running
<1>5. (Clean' => Clean) /\ OpEnd' = OpEnd
  BY <1>1, OpStays DEF Clean
<1>6. NStage' /\ NErased'
  BY <1>1, <1>5 DEF NInv, NStage, NErased
<1>. QED
  BY <1>3, <1>4, <1>6 DEF NInv

LEMMA PowerCutInv ==
    ASSUME NInv, PowerCut
    PROVE  NInv'
<1>1. /\ pc # "idle" /\ pc' = "idle" /\ result' = "cut"
      /\ UNCHANGED flash \/ Set(InProgress, "junk")
      /\ UNCHANGED locked \/ locked' = [b \in BlockStarts |-> TRUE]
      /\ UNCHANGED <<parts, shifted, buffered, op, pos, faults>>
  BY DEF PowerCut, machine
<1>2. /\ flash \in [Bytes -> {"blank", "data", "junk"}] /\ locked \in [BlockStarts -> BOOLEAN]
      /\ faults \in Nat
  BY DEF NInv, NTypes
<1>3. flash' \in [Bytes -> {"blank", "data", "junk"}]
  BY <1>1, <1>2 DEF Set
<1>4. locked' \in [BlockStarts -> BOOLEAN]
  BY <1>1, <1>2
<1>. QED
  BY <1>1, <1>2, <1>3, <1>4, EndsBadly

LEMMA NorInit ==
    ASSUME Init
    PROVE  NInv
<1>1. NTypes
  BY ChipFacts DEF Init, NTypes
<1>2. NOp /\ NSteps /\ NWalk
  BY DEF Init, NOp, NSteps, NWalk, Running
<1>3. NStage /\ NErased
  BY DEF Init, NStage, NErased
<1>. QED
  BY <1>1, <1>2, <1>3 DEF NInv

LEMMA NorNext ==
    ASSUME NInv, [Next]_vars
    PROVE  NInv'
<1>1. CASE CommandLoadFlash \/ CommandErase \/ CommandLock \/ CommandUnlock
  BY <1>1, CommandsInv
<1>2. CASE FrobBegin
  BY <1>2, FrobBeginInv
<1>3. CASE DoEraseOneblock
  BY <1>3, DoEraseOneblockInv
<1>4. CASE DoXxlockOneblock
  BY <1>4, DoXxlockOneblockInv
<1>5. CASE FrobFinish
  BY <1>5, FrobFinishInv
<1>6. CASE WriteBegin
  BY <1>6, WriteBeginInv
<1>7. CASE DoWriteOneword
  BY <1>7, DoWriteOnewordInv
<1>8. CASE DoWriteBuffer
  BY <1>8, DoWriteBufferInv
<1>9. CASE NorVerify
  BY <1>9, NorVerifyInv
<1>10. CASE WriteDone
  BY <1>10, WriteDoneInv
<1>11. CASE WriteError
  <2>1. /\ pc = "step" /\ Fail
        /\ UNCHANGED <<flash, locked, parts, shifted, buffered, op, pos, faults>>
    BY <1>11 DEF WriteError, Stepping, chip, machine
  <2>2. /\ flash \in [Bytes -> {"blank", "data", "junk"}] /\ locked \in [BlockStarts -> BOOLEAN]
        /\ faults \in Nat
    BY DEF NInv, NTypes
  <2>. QED
    BY <2>1, <2>2, EndsBadly DEF Fail
<1>12. CASE PowerCut
  BY <1>12, PowerCutInv
<1>13. CASE UNCHANGED vars
  <2>1. UNCHANGED <<flash, locked, parts, shifted, buffered, op, steps, pc, w, pos, result, faults>>
    BY <1>13 DEF vars
  <2>2. NTypes' /\ NOp' /\ NSteps'
    BY <2>1 DEF NInv, NTypes, NOp, NSteps, OpEnd
  <2>3. (Clean' => Clean) /\ OpEnd' = OpEnd /\ StepRanges' = StepRanges
    BY <2>1, OpStays DEF Clean
  <2>4. NWalk' /\ NStage' /\ NErased'
    BY <2>1, <2>3 DEF NInv, NWalk, NStage, NErased
  <2>. QED
    BY <2>2, <2>4 DEF NInv
<1>. QED
  BY <1>1, <1>2, <1>3, <1>4, <1>5, <1>6, <1>7, <1>8, <1>9, <1>10, <1>11, <1>12, <1>13
  DEF Next, Advance

------------------------------------------------------------------------------
(***************************************************************************)
(* What NInv gives.                                                        *)
(***************************************************************************)
LEMMA NorTypeOK ==
    ASSUME NInv
    PROVE  TypeOK
<1>1. ASSUME pc = "frob", ~FrobEnded(Geometry, w) PROVE FrobBlock(Geometry, w) \in BlockStarts
  <2>1. PICK r \in StepRanges, x \in Boundaries(Geometry) :
              /\ r.ofs \in Nat /\ r.len \in Nat
              /\ ~FrobRefuses(Geometry, r.ofs, r.len)
              /\ Walk(Geometry, r.ofs, r.len, x, w)
              /\ FrobBlock(Geometry, w) = x
    BY <1>1, WalkFacts
  <2>2. [start |-> x, size |-> FrobBlockSize(Geometry, w)] \in Blocks(Geometry)
    BY <1>1, <2>1, ChipFacts, WalkHere
  <2>. QED
    BY <2>1, <2>2 DEF BlockStarts
<1>2. ASSUME pc = "step" PROVE Head(steps) \in StepNames
  BY <1>2, StepListHead DEF NInv, NSteps, Running
<1>. QED
  BY <1>1, <1>2 DEF NInv, NTypes, TypeOK

LEMMA NorDoneStored ==
    ASSUME NInv
    PROVE  CleanDoneStored
<1>1. SUFFICES ASSUME result = "done", Clean
               PROVE  /\ op.kind = "write" => \A a \in op.ofs .. op.ofs + op.len - 1 : flash[a] = "data"
                      /\ op.kind = "erase" => \A a \in Reach : flash[a] = "blank"
  BY DEF CleanDoneStored
<1>2. op.ofs \in Nat /\ op.len \in Nat
  BY ChipFacts DEF NInv, NTypes
<1>3. op.ofs .. OpEnd - 1 = op.ofs .. op.ofs + op.len - 1
  BY <1>2 DEF OpEnd
<1>4. op.kind = "write" => \A a \in op.ofs .. OpEnd - 1 : flash[a] = "data"
  BY <1>1 DEF NInv, NStage, Stored
<1>5. op.kind = "erase" => \A a \in op.ofs .. OpEnd - 1 : flash[a] = "blank"
  BY <1>1 DEF NInv, NErased
<1>6. op.kind = "erase" => Reach = op.ofs .. op.ofs + op.len - 1
  BY DEF Reach
<1>. QED
  BY <1>3, <1>4, <1>5, <1>6

LEMMA NorRelocked ==
    ASSUME NInv
    PROVE  RelockedOnDone
<1>1. SUFFICES ASSUME result = "done", op.kind = "write", "MF_LOCKED" \in op.flag, Clean,
                      NEW b \in Covering(Geometry, op.ofs, op.len)
               PROVE  locked[b.start]
  BY DEF RelockedOnDone
<1>2. Relocked(locked, op.ofs, op.ofs + op.blk)
  BY <1>1 DEF NInv, NStage
<1>3. op.ofs \in Nat /\ op.len \in Nat /\ WellFormed(Geometry)
  BY ChipFacts DEF NInv, NTypes
<1>4. WellPlaced(Geometry, op.ofs, op.len) /\ op.blk = FindEraseSize(Geometry, op.ofs, op.len)
  BY <1>1 DEF Clean, Sane, NInv, NOp
<1>5. b \in Blocks(Geometry)
  BY DEF Covering
<1>6. op.ofs <= b.start /\ b.start < op.ofs + op.blk
  BY <1>1, <1>3, <1>4, <1>5, ErasedIsCovered
<1>. QED
  BY <1>2, <1>5, <1>6 DEF Relocked

\* The block a walk is at belongs to the operation.
LEMMA WalkInReach ==
    ASSUME NInv, pc = "frob", ~FrobEnded(Geometry, w), Sane
    PROVE  FrobBytes \subseteq Reach /\ FrobBlock(Geometry, w) \in Reach
<1>1. PICK r \in StepRanges, x \in Boundaries(Geometry) :
           /\ r.ofs \in Nat /\ r.len \in Nat /\ r.ofs <= x
           /\ ~FrobRefuses(Geometry, r.ofs, r.len)
           /\ Walk(Geometry, r.ofs, r.len, x, w)
           /\ FrobBlock(Geometry, w) = x
  BY WalkFacts
<1>2. /\ x \in Nat /\ FrobBlockSize(Geometry, w) \in Nat \ {0}
      /\ x + FrobBlockSize(Geometry, w) <= r.ofs + r.len
  BY <1>1, ChipFacts, WalkHere
<1>3. StepList(steps, op.kind, op.flag, shifted) /\ NTypes /\ NOp /\ pc # "idle"
  BY DEF NInv, NSteps, Running
<1>4. r.ofs .. r.ofs + r.len - 1 \subseteq Reach
  BY <1>3, StepRange
<1>5. /\ FrobBytes \subseteq r.ofs .. r.ofs + r.len - 1
      /\ FrobBlock(Geometry, w) \in r.ofs .. r.ofs + r.len - 1
  <2> DEFINE s == FrobBlockSize(Geometry, w)
  <2>1. FrobBytes = x .. x + s - 1
    BY <1>1 DEF FrobBytes
  <2> HIDE DEF s
  <2>2. s \in Nat \ {0} /\ x + s <= r.ofs + r.len
    BY <1>2 DEF s
  <2>3. x .. x + s - 1 \subseteq r.ofs .. r.ofs + r.len - 1 /\ x \in r.ofs .. r.ofs + r.len - 1
    BY <1>1, <1>2, <2>2
  <2>. QED
    BY <1>1, <2>1, <2>3
<1>. QED
  BY <1>4, <1>5

\* So do the next bytes to program, if there are any.
LEMMA ProgramInReach ==
    ASSUME NInv, pc = "program", Sane, NEW n \in Nat, n <= Left
    PROVE  pos .. pos + n - 1 \subseteq Reach
<1>1. /\ op.ofs \in Nat /\ op.len \in Nat /\ pos \in Nat /\ op.ofs <= pos
      /\ Left = OpEnd - pos /\ WellFormed(Geometry) /\ pc # "idle"
  BY ChipFacts, ProgramCounts DEF NInv, NTypes, NSteps
<1>2. op.kind = "write"
  <2>1. StepList(steps, op.kind, op.flag, TRUE) /\ Head(steps) = "WRITING"
    BY DEF NInv, NSteps, Running, Sane
  <2>. QED
    BY <2>1, StepListKind
<1>3. op.blk = FindEraseSize(Geometry, op.ofs, op.len) /\ WellPlaced(Geometry, op.ofs, op.len)
      /\ op.blk \in Nat
  BY <1>2 DEF NInv, NTypes, NOp, Sane
<1>4. /\ op.ofs .. op.ofs + op.blk - 1 = CoveredBytes(Geometry, op.ofs, op.len)
      /\ op.ofs + op.len <= op.ofs + op.blk
  BY <1>1, <1>3, ErasedIsCovered
<1>5. pos .. pos + n - 1 \subseteq op.ofs .. op.ofs + op.blk - 1
  BY <1>1, <1>3, <1>4 DEF OpEnd
<1>6. CoveredBytes(Geometry, op.ofs, op.len) \subseteq Reach
  BY <1>2 DEF Reach
<1>. QED
  BY <1>4, <1>5, <1>6

\* OutsideUntouched of one step.
Untouched ==
    /\ \A a \in Bytes : flash'[a] # flash[a] /\ Sane => a \in Reach
    /\ \A b \in BlockStarts :
          locked'[b] # locked[b] /\ Sane /\ result' # "cut" => b \in Reach

LEMMA NorUntouched ==
    ASSUME NInv, Next, pc # "idle"
    PROVE  Untouched
<1>0. flash \in [Bytes -> {"blank", "data", "junk"}] /\ locked \in [BlockStarts -> BOOLEAN]
  BY DEF NInv, NTypes
<1>1. CASE CommandLoadFlash \/ CommandErase \/ CommandLock \/ CommandUnlock
  BY <1>1 DEF CommandLoadFlash, CommandErase, CommandLock, CommandUnlock, Start
<1>2. CASE UNCHANGED <<flash, locked>>
  BY <1>2 DEF Untouched
<1>3. CASE FrobBegin \/ FrobFinish \/ WriteBegin \/ NorVerify \/ WriteDone \/ WriteError
  BY <1>2, <1>3 DEF FrobBegin, FrobFinish, WriteBegin, NorVerify, WriteDone, WriteError, chip
<1>4. CASE DoEraseOneblock
  <2>1. pc = "frob" /\ ~FrobEnded(Geometry, w) /\ UNCHANGED locked
    BY <1>4 DEF DoEraseOneblock
  <2>2. UNCHANGED flash \/ Set(FrobBytes, "blank") \/ Set(FrobBytes, "junk")
    BY <1>4 DEF DoEraseOneblock
  <2>3. \A a \in Bytes : flash'[a] # flash[a] => a \in FrobBytes
    BY <1>0, <2>2 DEF Set
  <2>4. Sane => FrobBytes \subseteq Reach
    BY <2>1, WalkInReach
  <2>. QED
    BY <2>1, <2>3, <2>4 DEF Untouched
<1>5. CASE DoXxlockOneblock
  <2>1. pc = "frob" /\ ~FrobEnded(Geometry, w) /\ UNCHANGED flash
    BY <1>5 DEF DoXxlockOneblock
  <2>2. UNCHANGED locked
        \/ locked' = [locked EXCEPT ![FrobBlock(Geometry, w)] = (Head(steps) = "LOCKING")]
    BY <1>5 DEF DoXxlockOneblock
  <2>3. \A b \in BlockStarts : locked'[b] # locked[b] => b = FrobBlock(Geometry, w)
    BY <1>0, <2>2
  <2>4. Sane => FrobBlock(Geometry, w) \in Reach
    BY <2>1, WalkInReach
  <2>. QED
    BY <2>1, <2>3, <2>4 DEF Untouched
<1>6. CASE DoWriteOneword
  <2> DEFINE n == Min({Left, WordBytes})
             bytes == pos .. pos + n - 1
  <2>1. /\ pc = "program" /\ UNCHANGED locked
        /\ UNCHANGED flash \/ Burn(bytes) \/ Set(bytes, "junk")
    BY <1>6 DEF DoWriteOneword
  <2>2. n \in Nat /\ n <= Left
    BY <2>1, ProgramCounts
  <2> HIDE DEF n
  <2>3. Sane => bytes \subseteq Reach
    BY <2>1, <2>2, ProgramInReach
  <2> HIDE DEF bytes
  <2>4. \A a \in Bytes : flash'[a] # flash[a] => a \in bytes
    BY <1>0, <2>1 DEF Set, Burn
  <2>. QED
    BY <2>1, <2>3, <2>4 DEF Untouched
<1>7. CASE DoWriteBuffer
  <2> DEFINE bytes == pos .. pos + ChunkSize - 1
  <2>1. /\ pc = "program" /\ UNCHANGED locked
        /\ UNCHANGED flash \/ \E right : flash' =
               [a \in Bytes |-> IF a \notin bytes THEN flash[a]
                                ELSE IF a \in right /\ flash[a] = "blank" THEN "data" ELSE "junk"]
    BY <1>7 DEF DoWriteBuffer
  <2>2. ChunkSize \in Nat /\ ChunkSize <= Left
    BY <2>1, ProgramCounts
  <2>3. Sane => bytes \subseteq Reach
    BY <2>1, <2>2, ProgramInReach
  <2> HIDE DEF bytes
  <2>4. \A a \in Bytes : flash'[a] # flash[a] => a \in bytes
    BY <1>0, <2>1
  <2>. QED
    BY <2>1, <2>3, <2>4 DEF Untouched
<1>8. CASE PowerCut
  <2>1. result' = "cut" /\ (UNCHANGED flash \/ Set(InProgress, "junk"))
    BY <1>8 DEF PowerCut
  <2>2. \A a \in Bytes : flash'[a] # flash[a] => a \in InProgress
    BY <1>0, <2>1 DEF Set
  <2>3. ASSUME Sane PROVE InProgress \subseteq Reach
    <3>1. CASE pc = "frob" /\ ~FrobEnded(Geometry, w) /\ Head(steps) \in {"ERASING", "FM_JFFS2"}
      <4>1. InProgress \subseteq FrobBytes
        BY <3>1 DEF InProgress
      <4>. QED
        BY <2>3, <3>1, <4>1, WalkInReach
    <3>2. CASE pc = "program" /\ ~locked[BlockOf(pos).start]
      <4> DEFINE n == Min({Left, IF UsesBuffer THEN ChunkSize ELSE WordBytes})
      <4>1. InProgress = pos .. pos + n - 1
        BY <3>2 DEF InProgress
      <4>2. n \in Nat /\ n <= Left
        BY <3>2, ProgramCounts
      <4> HIDE DEF n
      <4>. QED
        BY <2>3, <3>2, <4>1, <4>2, ProgramInReach
    <3>3. CASE /\ ~(pc = "frob" /\ ~FrobEnded(Geometry, w) /\ Head(steps) \in {"ERASING", "FM_JFFS2"})
               /\ ~(pc = "program" /\ ~locked[BlockOf(pos).start])
      BY <3>3 DEF InProgress
    <3>. QED
      BY <3>1, <3>2, <3>3
  <2>. QED
    BY <2>1, <2>2, <2>3 DEF Untouched
<1>. QED
  BY <1>1, <1>3, <1>4, <1>5, <1>6, <1>7, <1>8 DEF Next, Advance

(***************************************************************************)
(* The inductive invariant of a write: which steps are left, where a walk  *)
(* is in its range, and at each stage which bytes are blank, which hold    *)
(* the data and which blocks are locked.                                   *)
(***************************************************************************)
THEOREM NorInvariant == Spec => []NInv
<1>1. Init => NInv
  BY NorInit
<1>2. NInv /\ [Next]_vars => NInv'
  BY NorNext
<1>. QED
  BY <1>1, <1>2, PTL DEF Spec

(***************************************************************************)
(* Whatever the chip, its faults and the power, each walk of write_to_nor  *)
(* is at a block of the flash, a program within it, and the list of steps  *)
(* never runs out.                                                         *)
(***************************************************************************)
THEOREM NorWriteTypes == Spec => []TypeOK
<1>1. NInv => TypeOK
  BY NorTypeOK
<1>. QED
  BY <1>1, NorInvariant, PTL

(***************************************************************************)
(* On any chip programmed by words that does as it is told, a write that   *)
(* write_to_nor ends well has stored all of its data, and an erase has     *)
(* left blank bytes, whatever the operations before it left behind.        *)
(***************************************************************************)
THEOREM DoneIsStored == Spec => []CleanDoneStored
<1>1. NInv => CleanDoneStored
  BY NorDoneStored
<1>. QED
  BY <1>1, NorInvariant, PTL

(***************************************************************************)
(* There, a write to a partition kept locked ends well only with all its   *)
(* blocks locked.                                                          *)
(***************************************************************************)
THEOREM DoneIsRelocked == Spec => []RelockedOnDone
<1>1. NInv => RelockedOnDone
  BY NorRelocked
<1>. QED
  BY <1>1, NorInvariant, PTL

(***************************************************************************)
(* On any chip, no step of a well placed operation, nor the loss of power  *)
(* during one, changes a byte or (the loss apart) a lock outside the       *)
(* blocks the operation is for.                                            *)
(***************************************************************************)
THEOREM NothingElseTouched == Spec => OutsideUntouched
<1>1. NInv /\ [Next]_vars =>
         [pc # "idle" =>
             /\ \A a \in Bytes : flash'[a] # flash[a] /\ Sane => a \in Reach
             /\ \A b \in BlockStarts :
                   locked'[b] # locked[b] /\ Sane /\ result' # "cut" => b \in Reach]_vars
  BY NorUntouched DEF Untouched
<1>. QED
  BY <1>1, NorInvariant, PTL DEF Spec, OutsideUntouched

------------------------------------------------------------------------------
(***************************************************************************)
(* VarsizeFrob: the walk on its own.                                       *)
(***************************************************************************)
\* The calls v were for the blocks of geo from the byte o on below the byte y.
Visits(geo, o, v, y) ==
    /\ v \in Seq(Blocks(geo))
    /\ \A i \in 1 .. Len(v) : o <= v[i].start /\ v[i].start < y
    /\ \A i, j \in 1 .. Len(v) : i < j => v[i].start < v[j].start
    /\ \A b \in Blocks(geo) : o <= b.start /\ b.start < y => \E i \in 1 .. Len(v) : v[i] = b

\* The calls so far are for the blocks from the start of the range to where
\* the walk is, which is at a boundary of the range.
VInv ==
    /\ WellFormed(mtd) /\ frobOfs \in Nat /\ frobLen \in Nat
    /\ frobPc \in {"check", "walk", "refused", "failed", "done"}
    /\ frobPc \in {"check", "refused"} => frobAt = FrobStart(mtd, 0, 0) /\ visited = <<>>
    /\ frobPc = "refused" => FrobRefuses(mtd, frobOfs, frobLen)
    /\ frobPc \in {"walk", "failed", "done"} =>
          /\ ~FrobRefuses(mtd, frobOfs, frobLen)
          /\ \E x \in Nat, y \in Nat :
                /\ Walk(mtd, frobOfs, frobLen, x, frobAt)
                /\ Visits(mtd, frobOfs, visited, y) /\ y <= frobOfs + frobLen
                /\ frobPc = "walk" => y = x
                /\ frobPc = "done" => y = frobOfs + frobLen

LEMMA VisitsNone ==
    ASSUME NEW geo, WellFormed(geo), NEW o \in Nat
    PROVE  Visits(geo, o, <<>>, o)
<1>1. \A b \in Blocks(geo) : b.start \in Nat
  BY BlockFacts
<1>. QED
  BY <1>1 DEF Visits

LEMMA VisitsOne ==
    ASSUME NEW geo, WellFormed(geo), NEW o \in Nat, NEW v, NEW x \in Nat, Visits(geo, o, v, x),
           NEW b \in Blocks(geo), b.start = x, o <= x
    PROVE  Visits(geo, o, Append(v, b), x + b.size)
<1> DEFINE u == Append(v, b)
           n == Len(v)
<1>1. v \in Seq(Blocks(geo)) /\ n \in Nat
  BY DEF Visits
<1>2. /\ \A i \in 1 .. n : o <= v[i].start /\ v[i].start < x
      /\ \A i, j \in 1 .. n : i < j => v[i].start < v[j].start
      /\ \A c \in Blocks(geo) : o <= c.start /\ c.start < x => \E i \in 1 .. n : v[i] = c
  BY DEF Visits
<1>3. b.size \in Nat \ {0} /\ \A c \in Blocks(geo) : c.start \in Nat
  BY BlockFacts
<1>4. u \in Seq(Blocks(geo)) /\ Len(u) = n + 1 /\ u[n + 1] = b /\ \A i \in 1 .. n : u[i] = v[i]
  BY <1>1
<1>5. \A i \in 1 .. n : v[i] \in Blocks(geo) /\ v[i].start \in Nat
  <2>1. \A i \in 1 .. n : v[i] \in Blocks(geo)
    BY <1>1
  <2>. QED
    BY <1>3, <2>1
<1> HIDE DEF u, n
<1>6. ASSUME NEW i \in 1 .. n + 1 PROVE o <= u[i].start /\ u[i].start < x + b.size
  <2>1. CASE i = n + 1
    BY <1>3, <1>4, <2>1
  <2>2. CASE i # n + 1
    <3>1. i \in 1 .. n
      BY <1>1, <2>2
    <3>. QED
      BY <1>2, <1>3, <1>4, <1>5, <3>1
  <2>. QED
    BY <2>1, <2>2
<1>7. ASSUME NEW i \in 1 .. n + 1, NEW j \in 1 .. n + 1, i < j PROVE u[i].start < u[j].start
  <2>1. i \in 1 .. n
    BY <1>1, <1>7
  <2>2. CASE j = n + 1
    BY <1>2, <1>4, <2>1, <2>2
  <2>3. CASE j # n + 1
    <3>1. j \in 1 .. n
      BY <1>1, <2>3
    <3>. QED
      BY <1>2, <1>4, <1>7, <2>1, <3>1
  <2>. QED
    BY <2>2, <2>3
<1>8. ASSUME NEW c \in Blocks(geo), o <= c.start, c.start < x + b.size
      PROVE  \E i \in 1 .. n + 1 : u[i] = c
  <2>1. CASE c.start < x
    <3>1. PICK i \in 1 .. n : v[i] = c
      BY <1>2, <1>8, <2>1
    <3>2. i \in 1 .. n + 1
      BY <1>1
    <3>. QED
      BY <1>4, <3>1, <3>2
  <2>2. CASE ~(c.start < x)
    <3>1. c.start \in Nat /\ c.size \in Nat \ {0}
      BY BlockFacts
    <3>2. c = b
      <4>1. c.start <= c.start /\ c.start < c.start + c.size /\ b.start <= c.start /\ c.start < b.start + b.size
        BY <1>8, <2>2, <3>1
      <4>. QED
        BY <3>1, <4>1, SameBlock
    <3>3. n + 1 \in 1 .. n + 1
      BY <1>1
    <3>. QED
      BY <1>4, <3>2, <3>3
  <2>. QED
    BY <2>1, <2>2
<1>. QED
  BY <1>4, <1>6, <1>7, <1>8 DEF Visits, u

LEMMA VInit ==
    ASSUME FrobInit
    PROVE  VInv
<1>1. /\ mtd \in Geometries /\ frobOfs \in 0 .. FlashSize(mtd) /\ frobLen \in 0 .. FlashSize(mtd) + 1
      /\ frobPc = "check" /\ frobAt = FrobStart(mtd, 0, 0) /\ visited = <<>>
  BY DEF FrobInit
<1>2. WellFormed(mtd) /\ FlashSize(mtd) \in Nat
  BY <1>1, GeometriesAssumption, Regions DEF RegionFacts
<1>. QED
  BY <1>1, <1>2 DEF VInv

LEMMA VNext ==
    ASSUME VInv, [FrobStep]_frobVars
    PROVE  VInv'
<1>0. /\ WellFormed(mtd) /\ frobOfs \in Nat /\ frobLen \in Nat
      /\ frobPc \in {"check", "walk", "refused", "failed", "done"}
  BY DEF VInv
<1>1. CASE FrobCheck
  <2>1. /\ frobPc = "check" /\ UNCHANGED <<mtd, frobOfs, frobLen, visited>>
        /\ IF FrobRefuses(mtd, frobOfs, frobLen)
           THEN frobPc' = "refused" /\ UNCHANGED frobAt
           ELSE frobPc' = "walk" /\ frobAt' = FrobStart(mtd, frobOfs, frobLen)
    BY <1>1 DEF FrobCheck
  <2>2. frobAt = FrobStart(mtd, 0, 0) /\ visited = <<>>
    BY <2>1 DEF VInv
  <2>3. CASE FrobRefuses(mtd, frobOfs, frobLen)
    BY <1>0, <2>1, <2>2, <2>3 DEF VInv
  <2>4. CASE ~FrobRefuses(mtd, frobOfs, frobLen)
    <3>1. Walk(mtd, frobOfs, frobLen, frobOfs, FrobStart(mtd, frobOfs, frobLen))
      BY <1>0, <2>4, WalkStart
    <3>2. Visits(mtd, frobOfs, visited, frobOfs)
      BY <1>0, <2>2, VisitsNone
    <3>3. Walk(mtd', frobOfs', frobLen', frobOfs, frobAt') /\ Visits(mtd', frobOfs', visited', frobOfs)
      BY <2>1, <2>4, <3>1, <3>2 DEF Visits
    <3>4. frobOfs <= frobOfs' + frobLen' /\ frobOfs \in Nat
      BY <1>0, <2>1
    <3>5. \E x \in Nat, y \in Nat :
             /\ Walk(mtd', frobOfs', frobLen', x, frobAt') /\ Visits(mtd', frobOfs', visited', y) /\ y <= frobOfs' + frobLen'
             /\ frobPc' = "walk" => y = x
             /\ frobPc' = "done" => y = frobOfs' + frobLen'
      BY <2>1, <2>4, <3>3, <3>4
    <3>. QED
      BY <1>0, <2>1, <2>4, <3>5 DEF VInv
  <2>. QED
    BY <2>3, <2>4
<1>2. CASE FrobVisit
  <2> DEFINE b == [start |-> FrobBlock(mtd, frobAt), size |-> FrobBlockSize(mtd, frobAt)]
  <2>1. /\ frobPc = "walk" /\ ~FrobEnded(mtd, frobAt) /\ UNCHANGED <<mtd, frobOfs, frobLen>>
        /\ visited' = Append(visited, b)
        /\ \/ frobAt' = FrobNext(mtd, frobAt) /\ UNCHANGED frobPc
           \/ frobPc' = "failed" /\ UNCHANGED frobAt
    BY <1>2 DEF FrobVisit
  <2>2. ~FrobRefuses(mtd, frobOfs, frobLen)
        /\ \E x \in Nat : Walk(mtd, frobOfs, frobLen, x, frobAt) /\ Visits(mtd, frobOfs, visited, x)
    BY <2>1 DEF VInv
  <2>3. PICK x \in Nat : Walk(mtd, frobOfs, frobLen, x, frobAt) /\ Visits(mtd, frobOfs, visited, x)
    BY <2>2
  <2> DEFINE s == FrobBlockSize(mtd, frobAt)
  <2>4. /\ FrobBlock(mtd, frobAt) = x /\ [start |-> x, size |-> s] \in Blocks(mtd)
        /\ s \in Nat \ {0} /\ x + s <= frobOfs + frobLen
        /\ Walk(mtd, frobOfs, frobLen, x + s, FrobNext(mtd, frobAt))
    BY <1>0, <2>1, <2>2, <2>3, WalkHere
  <2>5. b \in Blocks(mtd) /\ b.start = x /\ b.size = s
    BY <2>4
  <2>6. frobOfs <= x
    BY <2>3 DEF Walk
  <2> HIDE DEF b, s
  <2>7. Visits(mtd', frobOfs', visited', x + b.size)
    <3>1. Visits(mtd, frobOfs, Append(visited, b), x + b.size)
      BY <1>0, <2>3, <2>5, <2>6, VisitsOne
    <3>. QED
      BY <2>1, <3>1
  <2>8. Visits(mtd', frobOfs', visited', x + s)
    BY <2>5, <2>7
  <2>9. x + s \in Nat /\ x + s <= frobOfs' + frobLen'
    BY <2>1, <2>4
  <2>10. CASE frobAt' = FrobNext(mtd, frobAt) /\ UNCHANGED frobPc
    <3>1. Walk(mtd', frobOfs', frobLen', x + s, frobAt')
      BY <2>1, <2>4, <2>10
    <3>2. \E y \in Nat : Walk(mtd', frobOfs', frobLen', y, frobAt') /\ Visits(mtd', frobOfs', visited', x + s) /\ y = x + s
      BY <2>8, <2>9, <3>1
    <3>3. \E y \in Nat, z \in Nat :
             /\ Walk(mtd', frobOfs', frobLen', y, frobAt') /\ Visits(mtd', frobOfs', visited', z) /\ z <= frobOfs' + frobLen'
             /\ frobPc' = "walk" => z = y
             /\ frobPc' = "done" => z = frobOfs' + frobLen'
      BY <2>1, <2>8, <2>9, <2>10, <3>1
    <3>. QED
      BY <1>0, <2>1, <2>2, <2>10, <3>3 DEF VInv
  <2>11. CASE frobPc' = "failed" /\ UNCHANGED frobAt
    <3>1. Walk(mtd', frobOfs', frobLen', x, frobAt')
      BY <2>1, <2>3, <2>11
    <3>2. \E y \in Nat, z \in Nat :
             /\ Walk(mtd', frobOfs', frobLen', y, frobAt') /\ Visits(mtd', frobOfs', visited', z) /\ z <= frobOfs' + frobLen'
             /\ frobPc' = "walk" => z = y
             /\ frobPc' = "done" => z = frobOfs' + frobLen'
      BY <2>8, <2>9, <2>11, <3>1
    <3>. QED
      BY <1>0, <2>1, <2>2, <2>11, <3>2 DEF VInv
  <2>. QED
    BY <2>1, <2>10, <2>11
<1>3. CASE FrobReturn
  <2>1. /\ frobPc = "walk" /\ FrobEnded(mtd, frobAt) /\ frobPc' = "done"
        /\ UNCHANGED <<mtd, frobOfs, frobLen, frobAt, visited>>
    BY <1>3 DEF FrobReturn
  <2>2. ~FrobRefuses(mtd, frobOfs, frobLen)
        /\ \E x \in Nat : Walk(mtd, frobOfs, frobLen, x, frobAt) /\ Visits(mtd, frobOfs, visited, x) /\ x <= frobOfs + frobLen
    BY <2>1 DEF VInv
  <2>3. PICK x \in Nat : Walk(mtd, frobOfs, frobLen, x, frobAt) /\ Visits(mtd, frobOfs, visited, x) /\ x <= frobOfs + frobLen
    BY <2>2
  <2>4. x = frobOfs + frobLen
    BY <1>0, <2>1, <2>2, <2>3, WalkHere
  <2>5. Visits(mtd', frobOfs', visited', x)
    BY <2>1, <2>3 DEF Visits
  <2>. QED
    BY <1>0, <2>1, <2>2, <2>3, <2>4, <2>5 DEF VInv
<1>4. CASE UNCHANGED frobVars
  <2>1. UNCHANGED <<mtd, frobOfs, frobLen, frobPc, frobAt, visited>>
    BY <1>4 DEF frobVars
  <2>. QED
    BY <2>1 DEF VInv, Visits
<1>. QED
  BY <1>1, <1>2, <1>3, <1>4 DEF FrobStep

LEMMA VTypeOK ==
    ASSUME VInv
    PROVE  FrobTypeOK
<1>0. /\ WellFormed(mtd) /\ frobOfs \in Nat /\ frobLen \in Nat
      /\ frobPc \in {"check", "walk", "refused", "failed", "done"}
  BY DEF VInv
<1>1. CASE frobPc \in {"check", "refused"}
  <2>1. frobAt = FrobStart(mtd, 0, 0)
    BY <1>1 DEF VInv
  <2>2. At(mtd, 0, 0, frobAt) /\ 0 \in 0 .. FlashSize(mtd)
    BY <1>0, <2>1, AtStart, Regions DEF RegionFacts
  <2>3. frobAt.chip \in 0 .. mtd.numchips
    BY <1>0, <2>2, AtFacts
  <2>4. frobAt.left = 0
    BY <2>2 DEF At
  <2>5. FrobEnded(mtd, frobAt)
    BY <2>4 DEF FrobEnded
  <2>. QED
    BY <1>0, <2>3, <2>4, <2>5 DEF FrobTypeOK
<1>2. CASE frobPc \in {"walk", "failed", "done"}
  <2>1. ~FrobRefuses(mtd, frobOfs, frobLen) /\ \E x \in Nat : Walk(mtd, frobOfs, frobLen, x, frobAt)
    BY <1>2 DEF VInv
  <2>2. PICK x \in Nat : Walk(mtd, frobOfs, frobLen, x, frobAt)
    BY <2>1
  <2>3. /\ frobAt.left \in 0 .. frobLen /\ frobAt.chip \in 0 .. mtd.numchips
        /\ ~FrobEnded(mtd, frobAt) => frobAt.region \in DOMAIN mtd.regions
    BY <1>0, <2>1, <2>2, WalkHere
  <2>. QED
    BY <1>0, <2>3 DEF FrobTypeOK
<1>. QED
  BY <1>0, <1>1, <1>2

LEMMA VRefused ==
    ASSUME VInv
    PROVE  RefusedIffUnaligned
<1>0. WellFormed(mtd) /\ frobOfs \in Nat /\ frobLen \in Nat
      /\ frobPc \in {"check", "walk", "refused", "failed", "done"}
  BY DEF VInv
<1>1. FrobRefuses(mtd, frobOfs, frobLen) <=> {frobOfs, frobOfs + frobLen} \ Boundaries(mtd) # {}
  <2>1. FrobRefuses(mtd, frobOfs, frobLen) <=> ~(frobOfs \in Boundaries(mtd) /\ frobOfs + frobLen \in Boundaries(mtd))
    BY <1>0, RefusesIff
  <2>. QED
    BY <2>1
<1>2. frobPc # "check" => (frobPc = "refused" <=> FrobRefuses(mtd, frobOfs, frobLen))
  BY <1>0 DEF VInv
<1>. QED
  BY <1>1, <1>2 DEF RefusedIffUnaligned

LEMMA VVisits ==
    ASSUME VInv
    PROVE  VisitsTheRange
<1> DEFINE range == Covering(mtd, frobOfs, frobLen)
<1>0. WellFormed(mtd) /\ frobOfs \in Nat /\ frobLen \in Nat
      /\ frobPc \in {"check", "walk", "refused", "failed", "done"}
  BY DEF VInv
<1>1. VisitsTheRange <=>
         /\ \A i \in DOMAIN visited : visited[i] \in range
         /\ \A i, j \in DOMAIN visited : i < j => visited[i].start < visited[j].start
         /\ \A i \in DOMAIN visited : \A b \in range :
               b.start < visited[i].start => b \in ToSet(visited)
         /\ frobPc = "done" => range \subseteq ToSet(visited)
  BY DEF VisitsTheRange, ToSet, ToSet
<1>2. CASE frobPc \in {"check", "refused"}
  <2>1. visited = <<>>
    BY <1>2 DEF VInv
  <2>2. DOMAIN visited = {}
    BY <2>1
  <2>. QED
    BY <1>1, <1>2, <2>2
<1>3. CASE frobPc \in {"walk", "failed", "done"}
  <2>1. ~FrobRefuses(mtd, frobOfs, frobLen)
        /\ \E y \in Nat : Visits(mtd, frobOfs, visited, y) /\ y <= frobOfs + frobLen /\ (frobPc = "done" => y = frobOfs + frobLen)
    BY <1>3 DEF VInv
  <2>2. PICK y \in Nat : Visits(mtd, frobOfs, visited, y) /\ y <= frobOfs + frobLen /\ (frobPc = "done" => y = frobOfs + frobLen)
    BY <2>1
  <2>3. frobOfs \in Boundaries(mtd)
    BY <1>0, <2>1, RefusesIff
  <2>4. ASSUME NEW b \in Blocks(mtd) PROVE b \in range <=> frobOfs <= b.start /\ b.start < frobOfs + frobLen
    BY <1>0, <2>3, CoveringIs
  <2>5. /\ visited \in Seq(Blocks(mtd))
        /\ \A i \in 1 .. Len(visited) : frobOfs <= visited[i].start /\ visited[i].start < y
        /\ \A i, j \in 1 .. Len(visited) : i < j => visited[i].start < visited[j].start
        /\ \A b \in Blocks(mtd) : frobOfs <= b.start /\ b.start < y => \E i \in 1 .. Len(visited) : visited[i] = b
    BY <2>2 DEF Visits
  <2>6. DOMAIN visited = 1 .. Len(visited) /\ \A i \in 1 .. Len(visited) : visited[i] \in Blocks(mtd)
    BY <2>5
  <2>7. \A b \in Blocks(mtd) : b.start \in Nat
    BY <1>0, BlockFacts
  <2>8. ASSUME NEW i \in DOMAIN visited PROVE visited[i] \in range
    <3>1. visited[i] \in Blocks(mtd) /\ visited[i].start \in Nat
          /\ frobOfs <= visited[i].start /\ visited[i].start < y
      BY <2>5, <2>6, <2>7
    <3>2. visited[i].start < frobOfs + frobLen
      BY <1>0, <2>2, <3>1
    <3>. QED
      BY <2>4, <3>1, <3>2
  <2>9. \A b \in range : b \in Blocks(mtd)
    BY DEF Covering
  <2>10. ASSUME NEW b \in range, b.start < y PROVE b \in ToSet(visited)
    <3>1. \E i \in 1 .. Len(visited) : visited[i] = b
      BY <2>4, <2>5, <2>9, <2>10
    <3>. QED
      BY <2>6, <3>1 DEF ToSet
  <2>11. ASSUME NEW i \in DOMAIN visited, NEW b \in range, b.start < visited[i].start
         PROVE  b \in ToSet(visited)
    <3>1. visited[i].start < y /\ visited[i].start \in Nat /\ b.start \in Nat
      BY <2>5, <2>6, <2>7, <2>9
    <3>. QED
      BY <2>10, <2>11, <3>1
  <2>12. ASSUME frobPc = "done", NEW b \in range PROVE b \in ToSet(visited)
    BY <2>2, <2>4, <2>9, <2>10, <2>12
  <2> HIDE DEF range
  <2>. QED
    BY <1>1, <2>5, <2>6, <2>8, <2>11, <2>12
<1>. QED
  BY <1>0, <1>2, <1>3

LEMMA VEraseSize ==
    ASSUME VInv
    PROVE  EraseSizeCovers
<1>0. WellFormed(mtd) /\ frobOfs \in Nat /\ frobLen \in Nat
  BY DEF VInv
<1>1. WellPlaced(mtd, frobOfs, frobLen) =>
         frobOfs .. frobOfs + FindEraseSize(mtd, frobOfs, frobLen) - 1 = CoveredBytes(mtd, frobOfs, frobLen)
  BY <1>0, ErasedIsCovered
<1>. QED
  BY <1>1 DEF EraseSizeCovers

LEMMA VInvariant == FrobSpec => []VInv
<1>1. FrobInit => VInv
  BY VInit
<1>2. VInv /\ [FrobStep]_frobVars => VInv'
  BY VNext
<1>. QED
  BY <1>1, <1>2, PTL DEF FrobSpec

(***************************************************************************)
(* On any chips, the walk of cfi_intelext_varsize_frob stays within their  *)
(* regions, and what it has left never goes below zero.                    *)
(***************************************************************************)
THEOREM FrobTypes == FrobSpec => []FrobTypeOK
<1>1. VInv => FrobTypeOK
  BY VTypeOK
<1>. QED
  BY <1>1, VInvariant, PTL

(***************************************************************************)
(* It refuses a range exactly if the range leaves the flash, or starts or  *)
(* ends within a block.                                                    *)
(***************************************************************************)
THEOREM FrobRefusesUnaligned == FrobSpec => []RefusedIffUnaligned
<1>1. VInv => RefusedIffUnaligned
  BY VRefused
<1>. QED
  BY <1>1, VInvariant, PTL

(***************************************************************************)
(* It goes to every block of its range, in order and to no other, from     *)
(* region to region and from chip to chip.                                 *)
(***************************************************************************)
THEOREM FrobVisitsAll == FrobSpec => []VisitsTheRange
<1>1. VInv => VisitsTheRange
  BY VVisits
<1>. QED
  BY <1>1, VInvariant, PTL

(***************************************************************************)
(* find_erase_size gives a well placed range the blocks that it touches.   *)
(***************************************************************************)
THEOREM EraseSizeIsExact == FrobSpec => []EraseSizeCovers
<1>1. VInv => EraseSizeCovers
  BY VEraseSize
<1>. QED
  BY <1>1, VInvariant, PTL
==============================================================================
