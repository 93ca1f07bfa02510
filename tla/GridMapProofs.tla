--------------------------- MODULE GridMapProofs ---------------------------
(***************************************************************************)
(* Proofs about the sliding occupancy map, for every number of dimensions, *)
(* size, inflation and sensor path.                                        *)
(*                                                                         *)
(* First the ring buffer: an address and the cell stored there determine   *)
(* each other, and a cell that stays in the map keeps its address.  Then   *)
(* the counts: Good is the relation between the two buffers that every     *)
(* operation preserves, GoodInv says it of the variables.                  *)
(***************************************************************************)
EXTENDS GridMap, FiniteSetTheorems, TLAPS

----------------------------------------------------------------------------
(* One axis of the ring.                                                   *)

\* A residue and a quotient determine their number.
LEMMA RemainderUnique ==
  ASSUME NEW N \in Nat \ {0}, NEW q \in Int, NEW a \in 0 .. N - 1
  PROVE (N * q + a) % N = a
  BY SMT

\* A number is its quotient and its residue.
LEMMA Division ==
  ASSUME NEW N \in Nat \ {0}, NEW m \in Int
  PROVE /\ m \div N \in Int
        /\ m % N \in 0 .. N - 1
        /\ m = N * (m \div N) + (m % N)
  BY SMT

\* The residue of a difference of two residues.
LEMMA Wrap ==
  ASSUME NEW N \in Nat \ {0}, NEW x \in (1 - N) .. N - 1
  PROVE x % N = IF x < 0 THEN x + N ELSE x
<1>1. CASE x < 0
  <2>1. x = N * (-1) + (x + N) /\ x + N \in 0 .. N - 1 BY <1>1, SMT
  <2>2. (N * (-1) + (x + N)) % N = x + N BY <2>1, RemainderUnique
  <2> QED BY <1>1, <2>1, <2>2
<1>2. CASE ~(x < 0)
  <2>1. x = N * 0 + x /\ x \in 0 .. N - 1 BY <1>2, SMT
  <2>2. (N * 0 + x) % N = x BY <2>1, RemainderUnique
  <2> QED BY <1>2, <2>1, <2>2
<1> QED BY <1>1, <1>2

\* Where hashIdToGlobalIndex puts an address, the ring index is that address.
LEMMA AddressOfIndex ==
  ASSUME NEW N \in Nat \ {0}, NEW m \in Int, NEW a \in 0 .. N - 1
  PROVE LET c == m + ((a - (m % N)) % N)
        IN c \in m .. m + N - 1 /\ c % N = a
<1> DEFINE r == m % N
           q == m \div N
           x == a - r
<1>1. q \in Int /\ r \in 0 .. N - 1 /\ m = N * q + r BY Division
<1>2. x \in (1 - N) .. N - 1 BY <1>1, SMT
<1>3. x % N = IF x < 0 THEN x + N ELSE x BY <1>2, Wrap
<1> HIDE DEF r, q
<1>4. CASE x < 0
  <2>1. m + (x % N) = N * (q + 1) + a BY <1>1, <1>3, <1>4, SMT
  <2>2. (N * (q + 1) + a) % N = a BY <1>1, RemainderUnique
  <2>3. m + (x % N) \in m .. m + N - 1 BY <1>1, <1>3, <1>4, SMT
  <2> QED BY <2>1, <2>2, <2>3 DEF r
<1>5. CASE ~(x < 0)
  <2>1. m + (x % N) = N * q + a BY <1>1, <1>3, <1>5, SMT
  <2>2. (N * q + a) % N = a BY <1>1, RemainderUnique
  <2>3. m + (x % N) \in m .. m + N - 1 BY <1>1, <1>3, <1>5, SMT
  <2> QED BY <2>1, <2>2, <2>3 DEF r
<1> QED BY <1>4, <1>5

\* Two indices of a window as long as the ring with one ring index are the same.
LEMMA WindowInjective ==
  ASSUME NEW N \in Nat \ {0}, NEW m \in Int,
         NEW c \in m .. m + N - 1, NEW d \in m .. m + N - 1, c % N = d % N
  PROVE c = d
<1> DEFINE p == c \div N
           q == d \div N
           r == c % N
<1>1. p \in Int /\ q \in Int /\ r \in 0 .. N - 1 /\ c = N * p + r /\ d = N * q + r
  BY Division
<1> HIDE DEF p, q, r
<1>2. CASE p = q BY <1>1, <1>2
<1>3. CASE p > q
  <2>1. N * (p - q) >= N BY <1>1, <1>3, SMT
  <2> QED BY <1>1, <2>1, SMT
<1>4. CASE p < q
  <2>1. N * (q - p) >= N BY <1>1, <1>4, SMT
  <2> QED BY <1>1, <2>1, SMT
<1> QED BY <1>1, <1>2, <1>3, <1>4

----------------------------------------------------------------------------
(* The ring.                                                               *)

\* The lowest cell of the map is a vector.
LEMMA BoundMinType ==
  ASSUME NEW o \in Vector, NEW i \in Axes
  PROVE BoundMin(o)[i] \in Int
<1>1. o[i] \in Int BY DEF Vector
<1>2. map_voxel_num[i] \in Nat BY DimensionsAssumption
<1>3. map_voxel_num[i] \div 2 \in Int BY <1>2, SMT
<1> QED BY <1>1, <1>3 DEF BoundMin

\* The addresses are the vectors of ring indices.
LEMMA AddressType ==
  ASSUME NEW a
  PROVE a \in Addresses <=> /\ a = [i \in Axes |-> a[i]]
                            /\ \A i \in Axes : a[i] \in 0 .. map_voxel_num[i] - 1
<1>1. \A i \in Axes : map_voxel_num[i] \in Nat \ {0} BY DimensionsAssumption
<1>2. ASSUME a \in Addresses, NEW i \in Axes
      PROVE a[i] \in 0 .. map_voxel_num[i] - 1
  <2>1. PICK j \in Axes : a[i] \in 0 .. map_voxel_num[j] - 1 BY <1>2 DEF Addresses
  <2>2. a[i] < map_voxel_num[i] BY <1>2 DEF Addresses
  <2> QED BY <1>1, <2>1, <2>2, SMT
<1>3. ASSUME a \in Addresses PROVE a = [i \in Axes |-> a[i]]
  BY <1>3 DEF Addresses
<1>4. ASSUME a = [i \in Axes |-> a[i]],
             \A i \in Axes : a[i] \in 0 .. map_voxel_num[i] - 1
      PROVE a \in Addresses
  <2>1. \A i \in Axes : a[i] < map_voxel_num[i] BY <1>1, <1>4, SMT
  <2>2. a \in [Axes -> UNION {0 .. map_voxel_num[i] - 1 : i \in Axes}] BY <1>4
  <2> QED BY <2>1, <2>2 DEF Addresses
<1> QED BY <1>2, <1>3, <1>4

\* The cell of an address is in the map, and the address is the one of the cell.
LEMMA RingIsInverse ==
  ASSUME NEW o \in Vector, NEW a \in Addresses
  PROVE /\ hashIdToGlobalIndex(o, a) \in Vector
        /\ isInMap(o, hashIdToGlobalIndex(o, a))
        /\ toAddress(hashIdToGlobalIndex(o, a)) = a
<1> DEFINE c == hashIdToGlobalIndex(o, a)
<1>1. ASSUME NEW i \in Axes
      PROVE /\ c[i] \in Int
            /\ c[i] \in BoundMin(o)[i] .. BoundMin(o)[i] + map_voxel_num[i] - 1
            /\ c[i] % map_voxel_num[i] = a[i]
  <2> DEFINE N == map_voxel_num[i]
             m == BoundMin(o)[i]
  <2>1. N \in Nat \ {0} /\ m \in Int /\ a[i] \in 0 .. N - 1
    BY DimensionsAssumption, BoundMinType, AddressType
  <2>2. c[i] = m + ((a[i] - (m % N)) % N) BY DEF hashIdToGlobalIndex
  <2> HIDE DEF N, m
  <2>3. c[i] \in m .. m + N - 1 /\ c[i] % N = a[i] BY <2>1, <2>2, AddressOfIndex
  <2>4. c[i] \in Int BY <2>1, <2>3
  <2> QED BY <2>3, <2>4 DEF N, m
<1>2. c \in Vector BY <1>1 DEF hashIdToGlobalIndex, Vector
<1>3. toAddress(c) = a BY <1>1, AddressType DEF toAddress
<1> QED BY <1>1, <1>2, <1>3 DEF isInMap

\* A vector inside the bounds is the cell of its address.
LEMMA CellOfAddress ==
  ASSUME NEW o \in Vector, NEW c \in Vector, isInMap(o, c)
  PROVE toAddress(c) \in Addresses /\ hashIdToGlobalIndex(o, toAddress(c)) = c
<1> DEFINE a == toAddress(c)
           d == hashIdToGlobalIndex(o, a)
<1>1. ASSUME NEW i \in Axes PROVE a[i] \in 0 .. map_voxel_num[i] - 1
  <2>1. a[i] = c[i] % map_voxel_num[i] BY DEF toAddress
  <2>2. c[i] \in Int /\ map_voxel_num[i] \in Nat \ {0} BY DimensionsAssumption DEF Vector
  <2> QED BY <2>1, <2>2, Division
<1>2. a \in Addresses BY <1>1, AddressType DEF toAddress
<1>3. d \in Vector /\ isInMap(o, d) /\ toAddress(d) = a BY <1>2, RingIsInverse
<1>4. ASSUME NEW i \in Axes PROVE d[i] = c[i]
  <2> DEFINE N == map_voxel_num[i]
             m == BoundMin(o)[i]
  <2>1. N \in Nat \ {0} /\ m \in Int BY DimensionsAssumption, BoundMinType
  <2>2. c[i] \in m .. m + N - 1 /\ d[i] \in m .. m + N - 1 BY <1>3 DEF isInMap
  <2>3. toAddress(d)[i] = d[i] % N /\ a[i] = c[i] % N BY DEF toAddress
  <2>4. d[i] % N = c[i] % N BY <1>3, <2>3
  <2> HIDE DEF N, m, d, a
  <2> QED BY <2>1, <2>2, <2>4, WindowInjective
<1>5. d = c BY <1>3, <1>4 DEF Vector
<1> QED BY <1>2, <1>5

\* The cells of the map are the vectors inside its bounds.
LEMMA CellsAreInMap ==
  ASSUME NEW o \in Vector, NEW c \in Vector
  PROVE c \in Cells(o) <=> isInMap(o, c)
  BY RingIsInverse, CellOfAddress DEF Cells

\* An address whose slab does not leave holds the same cell after the slide, and
\* one whose slab leaves holds a cell the old map did not have.
LEMMA SlideMovesNothing ==
  ASSUME NEW o \in Vector, NEW new \in Vector, NEW a \in Addresses
  PROVE IF a \in ClearMask(o, Minus(new, o))
        THEN hashIdToGlobalIndex(new, a) \notin Cells(o)
        ELSE hashIdToGlobalIndex(new, a) = hashIdToGlobalIndex(o, a)
<1> DEFINE shift == Minus(new, o)
           c == hashIdToGlobalIndex(o, a)
           d == hashIdToGlobalIndex(new, a)
<1>1. c \in Vector /\ isInMap(o, c) /\ toAddress(c) = a BY RingIsInverse
<1>2. d \in Vector /\ isInMap(new, d) /\ toAddress(d) = a BY RingIsInverse
<1>3. a \in ClearMask(o, shift) <=> ~isInMap(new, c)
  <2>1. ASSUME NEW i \in Axes
        PROVE LET first == BoundMin(o)[i]
                  last == first + map_voxel_num[i] - 1
              IN ~ (\/ shift[i] > 0 /\ c[i] < first + shift[i]
                    \/ shift[i] < 0 /\ c[i] > last + shift[i])
                 <=> c[i] \in BoundMin(new)[i] .. BoundMin(new)[i] + map_voxel_num[i] - 1
    <3> DEFINE first == BoundMin(o)[i]
    <3>1. BoundMin(new)[i] = first + shift[i] /\ shift[i] \in Int
      <4>1. o[i] \in Int /\ new[i] \in Int BY DEF Vector
      <4>2. map_voxel_num[i] \div 2 \in Int BY DimensionsAssumption, SMT
      <4>3. shift[i] = new[i] - o[i] BY DEF Minus
      <4>4. first = o[i] - map_voxel_num[i] \div 2 BY DEF BoundMin
      <4>5. BoundMin(new)[i] = new[i] - map_voxel_num[i] \div 2 BY DEF BoundMin
      <4> QED BY <4>1, <4>2, <4>3, <4>4, <4>5, SMT
    <3>2. first \in Int BY BoundMinType
    <3>3. c[i] \in first .. first + map_voxel_num[i] - 1 BY <1>1 DEF isInMap
    <3>4. map_voxel_num[i] \in Nat BY DimensionsAssumption
    <3> HIDE DEF first, shift, c
    <3>5. ~ (\/ shift[i] > 0 /\ c[i] < first + shift[i]
             \/ shift[i] < 0 /\ c[i] > first + map_voxel_num[i] - 1 + shift[i])
          <=> c[i] \in first + shift[i] .. first + shift[i] + map_voxel_num[i] - 1
      BY <3>1, <3>2, <3>3, <3>4, SMT
    <3> QED BY <3>1, <3>5 DEF first
  <2> QED BY <2>1 DEF ClearMask, isInMap
<1>4. CASE a \in ClearMask(o, shift)
  <2>1. SUFFICES ASSUME d \in Cells(o) PROVE FALSE BY <1>4
  <2>2. isInMap(o, d) BY <1>2, <2>1, CellsAreInMap
  <2>3. hashIdToGlobalIndex(o, toAddress(d)) = d BY <1>2, <2>2, CellOfAddress
  <2>4. c = d BY <1>2, <2>3
  <2> QED BY <1>2, <1>3, <1>4, <2>4
<1>5. CASE a \notin ClearMask(o, shift)
  <2>1. isInMap(new, c) BY <1>3, <1>5
  <2>2. hashIdToGlobalIndex(new, toAddress(c)) = c BY <1>1, <2>1, CellOfAddress
  <2> QED BY <1>1, <1>5, <2>2
<1> QED BY <1>4, <1>5

\* The buffers are finite.
LEMMA AddressesFinite == IsFiniteSet(Addresses)
<1> DEFINE I(i) == 0 .. map_voxel_num[i] - 1
           R == UNION {I(i) : i \in Axes}
           F == [a \in Addresses |-> {<<i, a[i]>> : i \in Axes}]
<1>1. IsFiniteSet(R)
  <2>1. IsFiniteSet({I(i) : i \in Axes})
    <3>1. IsFiniteSet(Axes) BY DimensionsAssumption
    <3>2. [i \in Axes |-> I(i)] \in Surjection(Axes, {I(i) : i \in Axes})
      BY DEF Surjection
    <3> QED BY <3>1, <3>2, FS_Surjection
  <2>2. \A S \in {I(i) : i \in Axes} : IsFiniteSet(S)
    <3>1. ASSUME NEW i \in Axes PROVE IsFiniteSet(I(i))
      <4>1. 0 \in Int /\ map_voxel_num[i] - 1 \in Int BY DimensionsAssumption
      <4> QED BY <4>1, FS_Interval
    <3> QED BY <3>1
  <2> QED BY <2>1, <2>2, FS_UNION
<1>2. IsFiniteSet(SUBSET (Axes \X R))
  <2>1. IsFiniteSet(Axes \X R) BY <1>1, DimensionsAssumption, FS_Product
  <2> QED BY <2>1, FS_SUBSET
<1>3. F \in Injection(Addresses, SUBSET (Axes \X R))
  <2>1. ASSUME NEW a \in Addresses PROVE F[a] \in SUBSET (Axes \X R)
    BY DEF Addresses
  <2>2. ASSUME NEW a \in Addresses, NEW b \in Addresses, F[a] = F[b] PROVE a = b
    <3>1. ASSUME NEW i \in Axes PROVE a[i] = b[i]
      <4>1. <<i, a[i]>> \in F[b] BY <2>2
      <4>2. PICK j \in Axes : <<i, a[i]>> = <<j, b[j]>> BY <4>1
      <4> QED BY <4>2
    <3> QED BY <3>1, AddressType
  <2> QED BY <2>1, <2>2 DEF Injection, IsInjective
<1> QED BY <1>2, <1>3, FS_Injection

----------------------------------------------------------------------------
(* The counts.                                                             *)

\* The addresses of the occupied cells that ought to inflate the cell of a.
SourceSet(o, occ, a) ==
  {d \in Addresses : /\ Occupied(occ[d])
                     /\ Covers(hashIdToGlobalIndex(o, d), hashIdToGlobalIndex(o, a))}

\* The counts are bounded by the sources, and exact outside the cells of S.
Counted(o, b, S, a) ==
  /\ b.inflate_cnt[a] <= Cardinality(SourceSet(o, b.occupancy, a))
  /\ hashIdToGlobalIndex(o, a) \notin S =>
       b.inflate_cnt[a] = Cardinality(SourceSet(o, b.occupancy, a))

Good(o, b, S) ==
  /\ b = Buffers(b.occupancy, b.inflate_cnt)
  /\ b.occupancy \in [Addresses -> Levels]
  /\ b.inflate_cnt \in [Addresses -> Nat]
  /\ \A a \in Addresses : Counted(o, b, S, a)

\* Sources are finitely many.
LEMMA SourceSetFinite ==
  ASSUME NEW o, NEW occ, NEW a
  PROVE /\ IsFiniteSet(SourceSet(o, occ, a))
        /\ Cardinality(SourceSet(o, occ, a)) \in Nat
<1>1. SourceSet(o, occ, a) \subseteq Addresses BY DEF SourceSet
<1>2. IsFiniteSet(SourceSet(o, occ, a)) BY <1>1, AddressesFinite, FS_Subset
<1> QED BY <1>2, FS_CardinalityType

\* The levels are integers.
LEMMA LevelFacts ==
  /\ Unknown \in Levels /\ clamp_min_log \in Levels
  /\ Levels \subseteq Int
  /\ ~Occupied(Unknown)
  BY LogOddsAssumption, SMT DEF Unknown, clamp_min_log, Levels, Occupied

\* Setting the level of a cell of the map keeps the counts.
LEMMA applyKeepsGood ==
  ASSUME NEW o \in Vector, NEW S, NEW b, Good(o, b, S),
         NEW k \in Addresses, NEW level \in Levels
  PROVE Good(o, applyOccupancyUpdate(o, b, hashIdToGlobalIndex(o, k), level), S)
<1> DEFINE c == hashIdToGlobalIndex(o, k)
           was == Occupied(b.occupancy[k])
           now == Occupied(level)
           occ == [b.occupancy EXCEPT ![k] = level]
           cnt == IF was = now THEN b.inflate_cnt
                  ELSE updateInflation(o, b.inflate_cnt, c, IF now THEN 1 ELSE -1)
           Old(a) == SourceSet(o, b.occupancy, a)
           New(a) == SourceSet(o, occ, a)
<1>1. applyOccupancyUpdate(o, b, c, level) = Buffers(occ, cnt)
  <2>1. toAddress(c) = k BY RingIsInverse
  <2> QED BY <2>1 DEF applyOccupancyUpdate
<1>2. occ \in [Addresses -> Levels] BY DEF Good
<1>3. \A d \in Addresses : occ[d] = IF d = k THEN level ELSE b.occupancy[d]
  BY DEF Good
<1>4. was \in BOOLEAN /\ now \in BOOLEAN BY DEF Occupied
<1>5. ASSUME NEW a \in Addresses
      PROVE /\ b.inflate_cnt[a] \in Nat
            /\ Cardinality(Old(a)) \in Nat /\ IsFiniteSet(Old(a))
            /\ b.inflate_cnt[a] <= Cardinality(Old(a))
            /\ hashIdToGlobalIndex(o, a) \notin S => b.inflate_cnt[a] = Cardinality(Old(a))
  BY SourceSetFinite DEF Good, Counted
<1>6. ASSUME NEW a \in Addresses
      PROVE /\ cnt[a] \in Nat
            /\ cnt[a] <= Cardinality(New(a))
            /\ hashIdToGlobalIndex(o, a) \notin S => cnt[a] = Cardinality(New(a))
  <2> DEFINE hit == Covers(c, hashIdToGlobalIndex(o, a))
  <2>1. CASE (was <=> now) \/ ~hit
    <3>1. New(a) = Old(a)
      <4>1. ASSUME NEW d \in Addresses PROVE d \in New(a) <=> d \in Old(a)
        <5>1. CASE d = k BY <1>3, <2>1, <5>1 DEF SourceSet
        <5>2. CASE d # k BY <1>3, <5>2 DEF SourceSet
        <5> QED BY <5>1, <5>2
      <4> QED BY <4>1 DEF SourceSet
    <3>2. cnt[a] = b.inflate_cnt[a]
      <4>1. CASE was <=> now BY <1>4, <4>1
      <4>2. CASE ~(was <=> now) BY <1>4, <2>1, <4>2 DEF updateInflation
      <4> QED BY <4>1, <4>2
    <3> HIDE DEF New, Old, cnt
    <3> QED BY <1>5, <3>1, <3>2
  <2>2. CASE now /\ ~was /\ hit
    <3>1. New(a) = Old(a) \cup {k} /\ k \notin Old(a)
      BY <1>3, <2>2 DEF SourceSet
    <3>2. Cardinality(New(a)) = Cardinality(Old(a)) + 1
      BY <1>5, <3>1, FS_AddElement
    <3>3. cnt[a] = NotNegative(b.inflate_cnt[a] + 1)
      BY <1>4, <2>2 DEF updateInflation
    <3> HIDE DEF New, Old, cnt
    <3> QED BY <1>5, <3>2, <3>3, SMT DEF NotNegative
  <2>3. CASE was /\ ~now /\ hit
    <3>1. New(a) = Old(a) \ {k} /\ k \in Old(a)
      BY <1>3, <2>3 DEF SourceSet
    <3>2. Cardinality(New(a)) = Cardinality(Old(a)) - 1
      BY <1>5, <3>1, FS_RemoveElement
    <3>3. cnt[a] = NotNegative(b.inflate_cnt[a] + (-1))
      BY <1>4, <2>3 DEF updateInflation
    <3>4. Cardinality(New(a)) \in Nat BY SourceSetFinite
    <3> HIDE DEF New, Old, cnt
    <3> QED BY <1>5, <3>2, <3>3, <3>4, SMT DEF NotNegative
  <2> QED BY <2>1, <2>2, <2>3
<1>7. cnt \in [Addresses -> Nat]
  <2>1. cnt = [a \in Addresses |-> cnt[a]]
    <3>1. CASE was <=> now BY <1>4, <3>1 DEF Good
    <3>2. CASE ~(was <=> now) BY <1>4, <3>2 DEF updateInflation
    <3> QED BY <3>1, <3>2
  <2> HIDE DEF cnt
  <2> QED BY <1>6, <2>1
<1> HIDE DEF occ, cnt
<1> QED BY <1>1, <1>2, <1>6, <1>7 DEF Good, Counted, Buffers

\* So does the update of a voxel, near the sensor or not.
LEMMA updateVoxelKeepsGood ==
  ASSUME NEW o \in Vector, NEW S, NEW b, Good(o, b, S),
         NEW k \in Addresses, NEW hit \in BOOLEAN
  PROVE Good(o, updateVoxel(o, b, hashIdToGlobalIndex(o, k), hit), S)
<1> DEFINE c == hashIdToGlobalIndex(o, k)
           update == IF hit THEN prob_hit_log ELSE prob_miss_log
           near == IF InLocalRange(c) THEN b ELSE applyOccupancyUpdate(o, b, c, clamp_min_log)
           level == Clamped(near.occupancy[toAddress(c)] + update)
<1>1. toAddress(c) = k BY RingIsInverse
<1>2. Good(o, applyOccupancyUpdate(o, b, c, clamp_min_log), S)
  BY applyKeepsGood, LevelFacts
<1>3. Good(o, near, S) BY <1>2
<1>4. level \in Levels
  <2>1. near.occupancy[k] \in Int BY <1>3, LevelFacts DEF Good
  <2>2. update \in Int BY LogOddsAssumption
  <2> HIDE DEF near, update
  <2> QED BY <1>1, <2>1, <2>2, LogOddsAssumption, SMT
          DEF Clamped, Levels, Unknown, clamp_min_log
<1>5. Good(o, applyOccupancyUpdate(o, near, c, level), S)
  BY <1>3, <1>4, applyKeepsGood
<1> QED BY <1>2, <1>5 DEF updateVoxel

\* A slide keeps the counts; the cells it brings in are exempt from exactness.
LEMMA slideKeepsGood ==
  ASSUME NEW o \in Vector, NEW new \in Vector, NEW S, NEW b, Good(o, b, S)
  PROVE Good(new, Slide(o, b, new), (S \cap Cells(new)) \cup (Cells(new) \ Cells(o)))
<1> DEFINE mask == ClearMask(o, Minus(new, o))
           Leaving(a) == {d \in mask : /\ Occupied(b.occupancy[d])
                                       /\ Covers(hashIdToGlobalIndex(o, d),
                                                 hashIdToGlobalIndex(o, a))}
           occ == [a \in Addresses |-> IF a \in mask THEN Unknown ELSE b.occupancy[a]]
           cnt == [a \in Addresses |->
                     IF a \in mask THEN 0
                     ELSE NotNegative(b.inflate_cnt[a] - Cardinality(Leaving(a)))]
           T == (S \cap Cells(new)) \cup (Cells(new) \ Cells(o))
           Old(a) == SourceSet(o, b.occupancy, a)
           New(a) == SourceSet(new, occ, a)
<1>1. mask \subseteq Addresses BY DEF ClearMask
<1>2. Slide(o, b, new) = Buffers(occ, cnt)
  <2>1. \A a \in Addresses :
          ResetForSliding(o, b, mask)[a] = NotNegative(b.inflate_cnt[a] - Cardinality(Leaving(a)))
    BY DEF ResetForSliding
  <2> QED BY <2>1 DEF Slide
<1>3. occ \in [Addresses -> Levels] BY LevelFacts DEF Good
<1>4. \A a \in Addresses :
        IF a \in mask THEN hashIdToGlobalIndex(new, a) \notin Cells(o)
        ELSE hashIdToGlobalIndex(new, a) = hashIdToGlobalIndex(o, a)
  BY SlideMovesNothing
<1>5. ASSUME NEW a \in Addresses
      PROVE /\ cnt[a] \in Nat
            /\ cnt[a] <= Cardinality(New(a))
            /\ hashIdToGlobalIndex(new, a) \notin T => cnt[a] = Cardinality(New(a))
  <2>1. hashIdToGlobalIndex(new, a) \in Cells(new) BY DEF Cells
  <2>2. CASE a \in mask
    <3>1. hashIdToGlobalIndex(new, a) \in T BY <1>4, <2>1, <2>2
    <3>2. cnt[a] = 0 BY <2>2
    <3>3. Cardinality(New(a)) \in Nat BY SourceSetFinite
    <3> HIDE DEF cnt, New, T
    <3> QED BY <3>1, <3>2, <3>3, SMT
  <2>3. CASE a \notin mask
    <3>1. New(a) = Old(a) \ Leaving(a)
      <4>1. ASSUME NEW d \in Addresses
            PROVE d \in New(a) <=> d \in Old(a) /\ d \notin Leaving(a)
        <5>1. CASE d \in mask
          <6>1. occ[d] = Unknown BY <5>1
          <6>2. d \notin New(a) BY <6>1, LevelFacts DEF SourceSet
          <6>3. d \in Old(a) => d \in Leaving(a) BY <5>1 DEF SourceSet
          <6> QED BY <6>2, <6>3
        <5>2. CASE d \notin mask
          <6>1. occ[d] = b.occupancy[d] BY <5>2
          <6>2. /\ hashIdToGlobalIndex(new, d) = hashIdToGlobalIndex(o, d)
                /\ hashIdToGlobalIndex(new, a) = hashIdToGlobalIndex(o, a)
            BY <1>4, <2>3, <5>2
          <6>3. d \notin Leaving(a) BY <5>2
          <6> HIDE DEF Leaving, occ, mask
          <6> QED BY <6>1, <6>2, <6>3 DEF SourceSet
        <5> QED BY <5>1, <5>2
      <4> QED BY <4>1 DEF SourceSet
    <3>2. Leaving(a) \subseteq Old(a) BY <1>1 DEF SourceSet
    <3>3. IsFiniteSet(Old(a)) /\ Cardinality(Old(a)) \in Nat BY SourceSetFinite
    <3>4. IsFiniteSet(Leaving(a)) /\ Cardinality(Leaving(a)) \in Nat
      BY <3>2, <3>3, FS_Subset, FS_CardinalityType
    <3>5. Cardinality(New(a)) = Cardinality(Old(a)) - Cardinality(Leaving(a))
      <4>1. Old(a) \cap Leaving(a) = Leaving(a) BY <3>2
      <4>2. Cardinality(Old(a) \ Leaving(a))
              = Cardinality(Old(a)) - Cardinality(Old(a) \cap Leaving(a))
        BY <3>3, FS_Difference
      <4> QED BY <3>1, <4>1, <4>2
    <3>6. Cardinality(New(a)) \in Nat BY SourceSetFinite
    <3>7. /\ b.inflate_cnt[a] \in Nat
          /\ b.inflate_cnt[a] <= Cardinality(Old(a))
          /\ hashIdToGlobalIndex(o, a) \notin S => b.inflate_cnt[a] = Cardinality(Old(a))
      BY DEF Good, Counted
    <3>8. cnt[a] = NotNegative(b.inflate_cnt[a] - Cardinality(Leaving(a))) BY <2>3
    <3>9. hashIdToGlobalIndex(new, a) \notin T => hashIdToGlobalIndex(o, a) \notin S
      BY <1>4, <2>1, <2>3
    <3> HIDE DEF cnt, New, Old, Leaving, T
    <3> QED BY <3>3, <3>4, <3>5, <3>6, <3>7, <3>8, <3>9, SMT DEF NotNegative
  <2> QED BY <2>2, <2>3
<1>6. cnt \in [Addresses -> Nat]
  <2>1. cnt = [a \in Addresses |-> cnt[a]] OBVIOUS
  <2> HIDE DEF cnt
  <2> QED BY <1>5, <2>1
<1> HIDE DEF occ, cnt
<1> QED BY <1>2, <1>3, <1>5, <1>6 DEF Good, Counted, Buffers

\* An empty map counts nothing.
LEMMA emptyIsGood ==
  ASSUME NEW o, NEW S
  PROVE Good(o, Empty, S)
<1>1. ASSUME NEW a \in Addresses
      PROVE Cardinality(SourceSet(o, Empty.occupancy, a)) = 0
  <2>1. SourceSet(o, Empty.occupancy, a) = {} BY LevelFacts DEF SourceSet, Empty, Buffers
  <2> QED BY <2>1, FS_EmptySet
<1>2. \A a \in Addresses : Empty.inflate_cnt[a] = 0 BY DEF Empty, Buffers
<1>3. /\ Empty = Buffers(Empty.occupancy, Empty.inflate_cnt)
      /\ Empty.occupancy \in [Addresses -> Levels]
      /\ Empty.inflate_cnt \in [Addresses -> Nat]
  BY LevelFacts DEF Empty, Buffers
<1>4. \A a \in Addresses : Counted(o, Empty, S, a) BY <1>1, <1>2 DEF Counted
<1> QED BY <1>3, <1>4 DEF Good

----------------------------------------------------------------------------
(* The specification.                                                      *)

GoodInv ==
  /\ origin \in Vector /\ ray_pos \in Vector
  /\ has_ray_pose \in BOOLEAN
  /\ slid \subseteq Cells(origin)
  /\ TooSmall(Minus(ray_pos, origin))
  /\ Good(origin, Buffers(occupancy, inflate_cnt), slid)

\* A shift of nothing moves no map.
LEMMA NoShift ==
  ASSUME NEW o \in Vector
  PROVE TooSmall(Minus(o, o))
<1>1. ASSUME NEW i \in Axes PROVE Minus(o, o)[i] = 0
  <2>1. o[i] \in Int BY DEF Vector
  <2> QED BY <2>1 DEF Minus
<1>2. map_sliding_thresh_vox > 0 BY DimensionsAssumption
<1> QED BY <1>1, <1>2 DEF TooSmall, Abs

LEMMA InitGood == Init => GoodInv
<1> SUFFICES ASSUME Init PROVE GoodInv OBVIOUS
<1>1. origin \in Vector /\ ray_pos \in Vector BY DimensionsAssumption DEF Init
<1>2. TooSmall(Minus(ray_pos, origin)) BY <1>1, NoShift DEF Init
<1>3. Buffers(occupancy, inflate_cnt) = Empty BY DEF Init, Empty, Buffers
<1>4. Good(origin, Buffers(occupancy, inflate_cnt), slid) BY <1>3, emptyIsGood
<1> QED BY <1>1, <1>2, <1>4 DEF Init, GoodInv

\* A pose of the sensor, with the slide it causes.
LEMMA PoseKeepsGood ==
  ASSUME GoodInv, NEW pos \in RayCells, sensorPoseCallback(pos)
  PROVE GoodInv'
<1> DEFINE b == Buffers(occupancy, inflate_cnt)
<1>1. pos \in Vector BY DimensionsAssumption
<1>2. ray_pos' = pos /\ has_ray_pose' = TRUE /\ updateSlidingMap(pos)
  BY DEF sensorPoseCallback
<1>3. CASE /\ TooSmall(Minus(pos, origin))
           /\ UNCHANGED <<origin, occupancy, inflate_cnt, slid>>
  BY <1>1, <1>2, <1>3 DEF GoodInv
<1>4. CASE SetBuffers(Empty) /\ origin' = pos /\ slid' = {}
  <2>1. Buffers(occupancy', inflate_cnt') = Empty BY <1>4 DEF SetBuffers, Empty, Buffers
  <2>2. Good(origin', Buffers(occupancy', inflate_cnt'), slid') BY <2>1, emptyIsGood
  <2>3. TooSmall(Minus(ray_pos', origin')) BY <1>1, <1>2, <1>4, NoShift
  <2> QED BY <1>1, <1>2, <1>4, <2>2, <2>3 DEF GoodInv
<1>5. CASE /\ SetBuffers(Slide(origin, b, pos)) /\ origin' = pos
           /\ slid' = (slid \cap Cells(pos)) \cup (Cells(pos) \ Cells(origin))
  <2>1. Good(pos, Slide(origin, b, pos), slid') BY <1>1, <1>5, slideKeepsGood DEF GoodInv
  <2>2. Buffers(occupancy', inflate_cnt') = Slide(origin, b, pos)
    BY <1>5, <2>1 DEF SetBuffers, Good
  <2>3. TooSmall(Minus(ray_pos', origin')) BY <1>1, <1>2, <1>5, NoShift
  <2>4. slid' \subseteq Cells(origin') BY <1>5
  <2> QED BY <1>1, <1>2, <1>5, <2>1, <2>2, <2>3, <2>4 DEF GoodInv
<1> QED BY <1>2, <1>3, <1>4, <1>5 DEF updateSlidingMap

\* A voxel of a scan.
LEMMA ScanKeepsGood ==
  ASSUME GoodInv, NEW c \in Cells(origin), NEW hit \in BOOLEAN, raycastProcess(c, hit)
  PROVE GoodInv'
<1> DEFINE b == Buffers(occupancy, inflate_cnt)
<1>1. PICK k \in Addresses : c = hashIdToGlobalIndex(origin, k) BY DEF Cells
<1>2. Good(origin, updateVoxel(origin, b, c, hit), slid)
  BY <1>1, updateVoxelKeepsGood DEF GoodInv
<1>3. Buffers(occupancy', inflate_cnt') = updateVoxel(origin, b, c, hit)
  BY <1>2 DEF raycastProcess, SetBuffers, Good
<1>4. UNCHANGED <<origin, ray_pos, has_ray_pose, slid>> BY DEF raycastProcess
<1> QED BY <1>2, <1>3, <1>4 DEF GoodInv

LEMMA GoodInvariant == Spec => []GoodInv
<1>1. GoodInv /\ [Next]_vars => GoodInv'
  <2> SUFFICES ASSUME GoodInv, [Next]_vars PROVE GoodInv' OBVIOUS
  <2>1. CASE UNCHANGED vars BY <2>1 DEF vars, GoodInv
  <2>2. CASE Next BY <2>2, PoseKeepsGood, ScanKeepsGood DEF Next
  <2> QED BY <2>1, <2>2
<1> QED BY InitGood, <1>1, PTL DEF Spec

\* A cell of the map carries the number of its address.
LEMMA CellNumbers ==
  ASSUME GoodInv, NEW c \in Cells(origin)
  PROVE /\ InflatedBy(c) <= Cardinality(Sources(c))
        /\ c \notin slid => InflatedBy(c) = Cardinality(Sources(c))
<1>1. PICK a \in Addresses : c = hashIdToGlobalIndex(origin, a) BY DEF Cells
<1>2. toAddress(c) = a BY <1>1, RingIsInverse DEF GoodInv
<1>3. Sources(c) = SourceSet(origin, occupancy, a) BY <1>1 DEF Sources, SourceSet
<1>4. Counted(origin, Buffers(occupancy, inflate_cnt), slid, a) BY DEF GoodInv, Good
<1> QED BY <1>1, <1>2, <1>3, <1>4 DEF Counted, Buffers, InflatedBy

\* Every variable keeps its type, and the map stays around the sensor.
THEOREM TypeCorrect == Spec => []TypeOK
<1>1. GoodInv => TypeOK BY DEF GoodInv, Good, Buffers, TypeOK
<1> QED BY <1>1, GoodInvariant, PTL

\* No cell is inflated by obstacles that are gone, in maps of any dimension and size.
THEOREM NoGhosts == Spec => []NoGhostInflation
<1>1. GoodInv => NoGhostInflation BY CellNumbers DEF NoGhostInflation
<1> QED BY <1>1, GoodInvariant, PTL

\* Outside the cells that slides brought in, no obstacle is missing from a count.
THEOREM CountsExact == Spec => []CountsEveryObstacle
<1>1. GoodInv => CountsEveryObstacle BY CellNumbers DEF CountsEveryObstacle
<1> QED BY <1>1, GoodInvariant, PTL

\* A slide keeps the level of every cell that stays and knows none that enters.
THEOREM SlideCorrect == Spec => SlideKeepsCells
<1> DEFINE Kept == origin' # origin =>
              \A c \in Cells(origin') :
                occupancy'[toAddress(c)] = IF c \in Cells(origin) THEN Level(c) ELSE Unknown
<1>1. GoodInv /\ [Next]_vars => [Kept]_vars
  <2> SUFFICES ASSUME GoodInv, Next, origin' # origin,
                      NEW c \in Cells(origin')
               PROVE occupancy'[toAddress(c)]
                       = IF c \in Cells(origin) THEN Level(c) ELSE Unknown
    OBVIOUS
  <2>1. PICK pos \in RayCells : sensorPoseCallback(pos) BY DEF Next, raycastProcess
  <2>2. pos \in Vector /\ origin \in Vector BY DimensionsAssumption DEF GoodInv
  <2>3. origin' = pos BY <2>1 DEF sensorPoseCallback, updateSlidingMap
  <2>4. PICK a \in Addresses : c = hashIdToGlobalIndex(pos, a) BY <2>3 DEF Cells
  <2>5. toAddress(c) = a /\ c \in Vector /\ isInMap(pos, c) BY <2>2, <2>4, RingIsInverse
  <2>6. IF a \in ClearMask(origin, Minus(pos, origin))
        THEN c \notin Cells(origin) ELSE c = hashIdToGlobalIndex(origin, a)
    BY <2>2, <2>4, SlideMovesNothing
  <2>7. CASE LeavesNothing(Minus(pos, origin)) /\ SetBuffers(Empty)
    <3>1. occupancy'[a] = Unknown BY <2>7 DEF SetBuffers, Empty, Buffers
    <3>2. c \notin Cells(origin)
      <4>1. SUFFICES ASSUME c \in Cells(origin) PROVE FALSE OBVIOUS
      <4>2. isInMap(origin, c) BY <2>2, <2>5, <4>1, CellsAreInMap
      <4>3. PICK i \in Axes : Abs(Minus(pos, origin)[i]) >= map_voxel_num[i]
        BY <2>7 DEF LeavesNothing
      <4>4. /\ c[i] \in BoundMin(origin)[i] .. BoundMin(origin)[i] + map_voxel_num[i] - 1
            /\ c[i] \in BoundMin(pos)[i] .. BoundMin(pos)[i] + map_voxel_num[i] - 1
        BY <2>5, <4>2 DEF isInMap
      <4>5. pos[i] \in Int /\ origin[i] \in Int /\ map_voxel_num[i] \in Nat
            /\ map_voxel_num[i] \div 2 \in Int
        BY <2>2, DimensionsAssumption, SMT DEF Vector
      <4>6. /\ BoundMin(origin)[i] = origin[i] - map_voxel_num[i] \div 2
            /\ BoundMin(pos)[i] = pos[i] - map_voxel_num[i] \div 2
            /\ Minus(pos, origin)[i] = pos[i] - origin[i]
        BY DEF BoundMin, Minus
      <4> QED BY <4>3, <4>4, <4>5, <4>6, SMT DEF Abs
    <3> QED BY <2>5, <3>1, <3>2
  <2>8. CASE SetBuffers(Slide(origin, Buffers(occupancy, inflate_cnt), pos))
    <3>1. occupancy'[a] = IF a \in ClearMask(origin, Minus(pos, origin))
                          THEN Unknown ELSE occupancy[a]
      BY <2>8 DEF SetBuffers, Slide, Buffers
    <3>2. a \notin ClearMask(origin, Minus(pos, origin)) => c \in Cells(origin)
      BY <2>6 DEF Cells
    <3> QED BY <2>5, <2>6, <3>1, <3>2 DEF Level
  <2> QED BY <2>1, <2>7, <2>8 DEF sensorPoseCallback, updateSlidingMap
<1> QED BY <1>1, GoodInvariant, PTL DEF Spec, SlideKeepsCells
============================================================================
