---------------------------- MODULE UntilNProofs ----------------------------
(***************************************************************************)
(* What UntilN gives the match scanner, proved for every block, group and  *)
(* segment size, every input and every N.                                  *)
(***************************************************************************)
EXTENDS UntilN, FiniteSetTheorems, TLAPS

-----------------------------------------------------------------------------
(* Blocks *)

\* A whole number of blocks.
IsBlocks(n) == \E q \in Nat : n = q * BlockSize

\* Rounding down to a block gives whole blocks, less than a block below.
LEMMA FloorBounds ==
    ASSUME NEW n \in Nat
    PROVE  /\ BlockFloor(n) \in Nat /\ IsBlocks(BlockFloor(n))
           /\ BlockFloor(n) <= n /\ n < BlockFloor(n) + BlockSize
<1>. DEFINE q == n \div BlockSize
<1>1. /\ q \in Nat /\ n = BlockSize * q + (n % BlockSize)
      /\ n % BlockSize \in 0 .. BlockSize - 1
  BY UntilNAssumption
<1>2. BlockFloor(n) = q * BlockSize
  BY DEF BlockFloor
<1>. HIDE DEF q
<1>. QED
  BY <1>1, <1>2, UntilNAssumption DEF IsBlocks

\* There is only one such number.
LEMMA FloorIsUnique ==
    ASSUME NEW n \in Nat, NEW q \in Nat, q * BlockSize <= n, n < q * BlockSize + BlockSize
    PROVE  BlockFloor(n) = q * BlockSize
<1>1. PICK r \in Nat : BlockFloor(n) = r * BlockSize
  BY FloorBounds DEF IsBlocks
<1>2. BlockFloor(n) <= n /\ n < BlockFloor(n) + BlockSize
  BY FloorBounds
<1>3. ASSUME NEW a \in Nat, NEW b \in Nat, a < b
      PROVE  a * BlockSize + BlockSize <= b * BlockSize
  <2>1. PICK c \in Nat : b = a + 1 + c
    <3>1. b - a - 1 \in Nat /\ b = a + 1 + (b - a - 1)
      BY <1>3
    <3>. QED
      BY <3>1
  <2>2. b * BlockSize = a * BlockSize + BlockSize + c * BlockSize /\ c * BlockSize \in Nat
    BY <2>1, UntilNAssumption
  <2>. QED
    BY <2>2, UntilNAssumption
<1>4. q * BlockSize \in Nat /\ r * BlockSize \in Nat
  BY UntilNAssumption
<1>5. CASE q < r
  BY <1>1, <1>2, <1>3, <1>4, <1>5, UntilNAssumption
<1>6. CASE r < q
  BY <1>1, <1>2, <1>3, <1>4, <1>6, UntilNAssumption
<1>. QED
  BY <1>1, <1>5, <1>6

\* Whole blocks are their own rounding, up and down.
LEMMA WholeBlocks ==
    ASSUME NEW n \in Nat, IsBlocks(n)
    PROVE  BlockFloor(n) = n /\ BlockCeiling(n) = n
<1>1. PICK q \in Nat : n = q * BlockSize
  BY DEF IsBlocks
<1>2. n + BlockSize - 1 \in Nat /\ BlockSize \in Nat \ {0}
  BY UntilNAssumption
<1>3. BlockFloor(n) = n
  BY <1>1, <1>2, FloorIsUnique
<1>4. BlockFloor(n + BlockSize - 1) = n
  BY <1>1, <1>2, FloorIsUnique
<1>. QED
  BY <1>3, <1>4 DEF BlockCeiling

\* Rounding up covers the items, by a whole block for a part of one.
LEMMA CeilingBounds ==
    ASSUME NEW n \in Nat
    PROVE  /\ BlockCeiling(n) \in Nat /\ n <= BlockCeiling(n)
           /\ 0 < n /\ n < BlockSize => BlockCeiling(n) = BlockSize
<1>1. n + BlockSize - 1 \in Nat /\ BlockSize \in Nat \ {0}
  BY UntilNAssumption
<1>2. /\ BlockCeiling(n) \in Nat
      /\ n + BlockSize - 1 < BlockCeiling(n) + BlockSize
  BY <1>1, FloorBounds DEF BlockCeiling
<1>3. ASSUME 0 < n, n < BlockSize PROVE BlockCeiling(n) = BlockSize
  <2>1. 1 * BlockSize <= n + BlockSize - 1 /\ n + BlockSize - 1 < 1 * BlockSize + BlockSize
    BY <1>1, <1>3
  <2>2. BlockFloor(n + BlockSize - 1) = 1 * BlockSize
    BY <1>1, <2>1, FloorIsUnique
  <2>. QED
    BY <1>1, <2>2 DEF BlockCeiling
<1>. QED
  BY <1>1, <1>2, <1>3

\* Sums of whole blocks, and the segments, are whole blocks.
LEMMA BlocksAdd ==
    ASSUME NEW m \in Nat, NEW n \in Nat, IsBlocks(m), IsBlocks(n)
    PROVE  IsBlocks(m + n)
<1>1. PICK q \in Nat : m = q * BlockSize
  BY DEF IsBlocks
<1>2. PICK r \in Nat : n = r * BlockSize
  BY DEF IsBlocks
<1>3. q + r \in Nat /\ m + n = (q + r) * BlockSize
  BY <1>1, <1>2, UntilNAssumption
<1>. QED
  BY <1>3 DEF IsBlocks

\* A segment ends where the next begins, at a block.
LEMMA Segments ==
    /\ SegmentSize \in Nat \ {0} /\ IsBlocks(SegmentSize)
    /\ \A n \in Nat : /\ n * SegmentSize \in Nat /\ IsBlocks(n * SegmentSize)
                      /\ (n + 1) * SegmentSize = n * SegmentSize + SegmentSize
<1>1. SegmentBlocks \in Nat \ {0} /\ BlockSize \in Nat \ {0}
  BY UntilNAssumption
<1>2. SegmentSize \in Nat \ {0} /\ SegmentSize = SegmentBlocks * BlockSize
  BY <1>1 DEF SegmentSize
<1>3. ASSUME NEW n \in Nat
      PROVE  /\ n * SegmentSize \in Nat /\ IsBlocks(n * SegmentSize)
             /\ (n + 1) * SegmentSize = n * SegmentSize + SegmentSize
  <2>1. n * SegmentBlocks \in Nat /\ n * SegmentSize = (n * SegmentBlocks) * BlockSize
    BY <1>1, <1>2
  <2>2. n * SegmentSize \in Nat /\ (n + 1) * SegmentSize = n * SegmentSize + SegmentSize
    BY <1>2
  <2>. QED
    BY <2>1, <2>2 DEF IsBlocks
<1>. QED
  BY <1>1, <1>2, <1>3 DEF IsBlocks

\* The scan of an offset belongs to a group of at least a block.
LEMMA GroupBounds ==
    /\ GroupSize \in Nat /\ BlockSize <= GroupSize
    /\ \A n \in Nat : /\ GroupFloor(n) \in Nat /\ GroupFloor(n) <= n
                      /\ n < GroupFloor(n) + GroupSize
<1>1. BlocksPerGroup \in Nat \ {0} /\ BlockSize \in Nat \ {0}
  BY UntilNAssumption
<1>2. GroupSize = BlockSize + (BlocksPerGroup - 1) * BlockSize
      /\ (BlocksPerGroup - 1) * BlockSize \in Nat
  BY <1>1 DEF GroupSize
<1>3. GroupSize \in Nat \ {0} /\ BlockSize <= GroupSize
  BY <1>1, <1>2
<1>4. ASSUME NEW n \in Nat
      PROVE  /\ GroupFloor(n) \in Nat /\ GroupFloor(n) <= n
             /\ n < GroupFloor(n) + GroupSize
  <2>. DEFINE q == n \div GroupSize
  <2>1. /\ q \in Nat /\ n = GroupSize * q + (n % GroupSize)
        /\ n % GroupSize \in 0 .. GroupSize - 1
    BY <1>3
  <2>2. GroupFloor(n) = q * GroupSize
    BY DEF GroupFloor
  <2>. HIDE DEF q
  <2>. QED
    BY <1>3, <2>1, <2>2
<1>. QED
  BY <1>3, <1>4

-----------------------------------------------------------------------------
(* Counting the bits of a stream *)

\* The bits of a stream below an end.
Below(T, end) == {b \in T : b < end}

\* The bits of a part of a stream are as many as those below its two ends
\* differ by.
LEMMA CountsAdd ==
    ASSUME NEW T \in SUBSET Int, IsFiniteSet(T), NEW a \in Int, NEW c \in Int, a <= c
    PROVE  Cardinality(Below(T, c)) = Cardinality(Below(T, a))
                                      + Cardinality({b \in T : a <= b /\ b < c})
<1>. DEFINE part == {b \in T : a <= b /\ b < c}
<1>1. IsFiniteSet(Below(T, a)) /\ IsFiniteSet(part)
  BY FS_Subset DEF Below
<1>2. Below(T, c) = Below(T, a) \cup part /\ Below(T, a) \cap part = {}
  <2>1. \A b \in T : (b < c <=> b < a \/ (a <= b /\ b < c)) /\ ~(b < a /\ a <= b)
    OBVIOUS
  <2>. QED
    BY <2>1, Zenon DEF Below
<1>3. Cardinality(Below(T, a)) \in Nat /\ Cardinality(part) \in Nat
  BY <1>1, FS_CardinalityType
<1>. HIDE DEF part
<1>4. Cardinality(Below(T, c)) = Cardinality(Below(T, a)) + Cardinality(part) - Cardinality({})
  BY <1>1, <1>2, FS_Union
<1>. QED
  BY <1>3, <1>4, FS_EmptySet DEF part

\* How many bits a finite set has up to a position.
Rank(T, p) == Cardinality({b \in T : b <= p})

\* The rank is a number, that grows from a bit to the next.
LEMMA RankGrows ==
    ASSUME NEW T \in SUBSET Int, IsFiniteSet(T)
    PROVE  /\ \A p \in Int : Rank(T, p) \in Nat /\ Rank(T, p) <= Cardinality(T)
           /\ \A p \in T : Rank(T, p) >= 1
           /\ \A p \in Int : \A q \in T : p < q => Rank(T, p) < Rank(T, q)
<1>1. \A p \in Int : /\ IsFiniteSet({b \in T : b <= p})
                     /\ Rank(T, p) \in Nat /\ Rank(T, p) <= Cardinality(T)
  BY FS_Subset, FS_CardinalityType DEF Rank
<1>2. ASSUME NEW p \in T PROVE Rank(T, p) >= 1
  <2>1. p \in {b \in T : b <= p} /\ p \in Int
    OBVIOUS
  <2>2. Rank(T, p) # 0
    BY <1>1, <2>1, FS_EmptySet DEF Rank
  <2>3. Rank(T, p) \in Nat
    BY <1>1, <2>1
  <2>. QED
    BY <2>2, <2>3
<1>3. ASSUME NEW p \in Int, NEW q \in T, p < q PROVE Rank(T, p) < Rank(T, q)
  <2>. DEFINE P == {b \in T : b <= p}
              Q == {b \in T : b <= q}
  <2>1. q \in Int /\ \A b \in T : b \in Int
    OBVIOUS
  <2>2. P \in SUBSET Q /\ q \in Q /\ q \notin P
    <3>1. (\A b \in T : b <= p => b <= q) /\ q <= q /\ ~(q <= p)
      BY <1>3, <2>1
    <3>. QED
      BY <3>1, Zenon
  <2>3. /\ IsFiniteSet(Q) /\ Cardinality(P) = Rank(T, p) /\ Cardinality(Q) = Rank(T, q)
        /\ Rank(T, p) \in Nat /\ Rank(T, q) \in Nat
    BY <1>1, <2>1 DEF Rank
  <2>. HIDE DEF P, Q
  <2>4. Cardinality(P) <= Cardinality(Q) /\ (Cardinality(Q) = Cardinality(P) => Q = P)
    BY <2>2, <2>3, FS_Subset
  <2>. QED
    BY <2>2, <2>3, <2>4
<1>. QED
  BY <1>1, <1>2, <1>3

\* A set of at least n bits has an nth.
LEMMA NthExists ==
    ASSUME NEW T \in SUBSET Int, IsFiniteSet(T), NEW n \in 1 .. Cardinality(T)
    PROVE  \E p \in T : Rank(T, p) = n
<1>. DEFINE size  == Cardinality(T)
            ranks == [p \in T |-> Rank(T, p)]
<1>1. size \in Nat
  BY FS_CardinalityType
<1>2. IsFiniteSet(1 .. size) /\ Cardinality(1 .. size) = size
  BY <1>1, FS_Interval
<1>3. \A p \in T : Rank(T, p) \in 1 .. size
  BY <1>1, RankGrows
<1>4. \A p, q \in T : Rank(T, p) = Rank(T, q) => p = q
  <2>. SUFFICES ASSUME NEW p \in T, NEW q \in T, p < q PROVE Rank(T, p) # Rank(T, q)
    OBVIOUS
  <2>. QED
    BY <1>3, RankGrows
<1>. HIDE DEF size
<1>5. ranks \in Injection(T, 1 .. size)
  BY <1>3, <1>4 DEF Injection, IsInjective
<1>6. Cardinality(T) = Cardinality(1 .. size)
  BY <1>2 DEF size
<1>. HIDE DEF ranks
<1>7. ranks \in Surjection(T, 1 .. size)
  BY <1>2, <1>5, <1>6, FS_Injection
<1>8. PICK p \in T : ranks[p] = n
  BY <1>7 DEF Surjection, size
<1>. QED
  BY <1>8 DEF ranks

-----------------------------------------------------------------------------
(* What the logic does with some items *)

\* The counts, the scalars and the output buffer of the instance.
KernelType == [processed : 0 .. Length, produced : 0 .. Length,
               seenSoFar : Nat, signal : BOOLEAN, uptoN : SUBSET Positions]

\* The input is a finite set of positions.
LEMMA BitsAreFinite ==
    ASSUME TypeOK
    PROVE  /\ IsFiniteSet(bits) /\ bits \in SUBSET Int /\ bits \in SUBSET Nat
           /\ N \in Nat \ {0} /\ kernel \in KernelType
           /\ \A T \in SUBSET bits : /\ IsFiniteSet(T) /\ T \in SUBSET Int
                                     /\ Cardinality(T) \in Nat
<1>1. BlockCeiling(Length) \in Nat
  BY CeilingBounds, UntilNAssumption
<1>2. Positions \in SUBSET Nat /\ IsFiniteSet(Positions)
  BY <1>1, FS_Interval DEF Positions
<1>3. bits \in SUBSET Positions /\ N \in Nat \ {0}
  BY UntilNAssumption DEF TypeOK
<1>4. IsFiniteSet(bits) /\ bits \in SUBSET Nat
  BY <1>2, <1>3, FS_Subset
<1>5. kernel \in KernelType
  BY DEF TypeOK, KernelType
<1>6. \A T \in SUBSET bits : IsFiniteSet(T) /\ Cardinality(T) \in Nat
  BY <1>4, FS_Subset, FS_CardinalityType
<1>. QED
  BY <1>3, <1>4, <1>5, <1>6

\* The least and the greatest of one or two numbers.
LEMMA Extremes ==
    /\ \A a \in Int : Min({a}) = a /\ Max({a}) = a
    /\ \A a, b \in Int : /\ Min({a, b}) = IF a <= b THEN a ELSE b
                         /\ Max({a, b}) = IF a <= b THEN b ELSE a
<1>1. \A a \in Int : Min({a}) = a /\ Max({a}) = a
  BY DEF Min, Max
<1>2. ASSUME NEW a \in Int, NEW b \in Int, a <= b
      PROVE  Min({a, b}) = a /\ Max({a, b}) = b /\ Min({b, a}) = a /\ Max({b, a}) = b
  <2>1. {a, b} = {b, a}
    OBVIOUS
  <2>2. /\ \A x \in {a, b} : (\A y \in {a, b} : x <= y) <=> x = a
        /\ \A x \in {a, b} : (\A y \in {a, b} : x >= y) <=> x = b
    BY <1>2
  <2>3. Min({a, b}) = a
    BY <2>2 DEF Min
  <2>4. Max({a, b}) = b
    BY <2>2 DEF Max
  <2>. QED
    BY <2>1, <2>3, <2>4
<1>. QED
  BY <1>1, <1>2

\* Among some items, there is at most one Nth bit.
LEMMA NthIsOne ==
    ASSUME TypeOK, NEW st \in KernelType, NEW items \in Nat
    PROVE  /\ \A p \in Nth(st, items) :
                 /\ p \in bits /\ p \in Nat
                 /\ st.processed <= p /\ p < st.processed + BlockCeiling(items)
                 /\ Nth(st, items) = {p}
           /\ Looked(st, items) \in SUBSET bits
<1>. DEFINE T == Looked(st, items)
<1>1. T \in SUBSET bits
  BY DEF Looked
<1>2. T \in SUBSET Int /\ IsFiniteSet(T)
  BY <1>1, BitsAreFinite
<1>3. Nth(st, items) = {p \in T : st.seenSoFar + Rank(T, p) = N}
  BY DEF Nth, Rank
<1>4. \A p \in T : Rank(T, p) \in Nat
  BY <1>2, RankGrows
<1>5. \A p \in T : \A q \in T : p < q => Rank(T, p) < Rank(T, q)
  BY <1>2, RankGrows
<1>6. st.seenSoFar \in Nat /\ st.processed \in Nat /\ BlockCeiling(items) \in Nat
  BY CeilingBounds, UntilNAssumption DEF KernelType
<1>7. \A p \in T : st.processed <= p /\ p < st.processed + BlockCeiling(items)
  <2>1. \A p \in T : p \in st.processed .. st.processed + BlockCeiling(items) - 1
    BY DEF Looked
  <2>. QED
    BY <1>6, <2>1
<1>8. \A p \in T : p \in bits /\ p \in Nat
  BY <1>1, BitsAreFinite
<1>. HIDE DEF T
<1>9. ASSUME NEW p \in Nth(st, items), NEW q \in Nth(st, items) PROVE p = q
  <2>1. /\ p \in T /\ q \in T /\ p \in Nat /\ q \in Nat
        /\ st.seenSoFar + Rank(T, p) = N /\ st.seenSoFar + Rank(T, q) = N
    BY <1>3, <1>8
  <2>2. Rank(T, p) = Rank(T, q)
    BY <1>4, <1>6, <2>1
  <2>3. ~(p < q) /\ ~(q < p)
    BY <1>4, <1>5, <2>1, <2>2
  <2>. QED
    BY <2>1, <2>3
<1>. QED
  BY <1>1, <1>3, <1>7, <1>8, <1>9 DEF T

\* The position after the Nth bit ends the output only inside the items.
LEMMA PosnIsInside ==
    ASSUME TypeOK, NEW st \in KernelType, NEW items \in Nat,
           PosnAfterNth(st, items) # {}
    PROVE  \E p \in bits :
              /\ Nth(st, items) = {p} /\ p \in Nat /\ st.processed <= p
              /\ p + 1 - st.processed \in 1 .. items - 1
              /\ PosnAfterNth(st, items) = {p + 1 - st.processed}
              /\ Max(PosnAfterNth(st, items)) = p + 1 - st.processed
<1>1. PICK p \in Nth(st, items) : p + 1 - st.processed < items
  BY DEF PosnAfterNth
<1>2. p \in bits /\ p \in Nat /\ st.processed <= p /\ Nth(st, items) = {p}
  BY NthIsOne
<1>3. st.processed \in Nat
  BY DEF KernelType
<1>4. p + 1 - st.processed \in 1 .. items - 1
  BY <1>1, <1>2, <1>3
<1>5. PosnAfterNth(st, items) = {p + 1 - st.processed}
  BY <1>1, <1>2 DEF PosnAfterNth
<1>6. Max({p + 1 - st.processed}) = p + 1 - st.processed
  BY <1>4, Extremes
<1>. QED
  BY <1>2, <1>4, <1>5, <1>6

\* The blocks that are copied hold the Nth bit, and all the items if there is
\* none; those that are overwritten go up to the position after it.
LEMMA StoredSpans ==
    ASSUME TypeOK, NEW st \in KernelType, NEW items \in Nat
    PROVE  /\ CopiedItems(st, items) \in Nat /\ StoredItems(st, items) \in Nat
           /\ CopiedItems(st, items) <= StoredItems(st, items)
           /\ \A p \in Nth(st, items) : p - st.processed < CopiedItems(st, items)
           /\ Nth(st, items) = {} => CopiedItems(st, items) = BlockCeiling(items)
           /\ PosnAfterNth(st, items) = {} =>
                 StoredItems(st, items) = CopiedItems(st, items)
           /\ \A posn \in PosnAfterNth(st, items) : posn <= StoredItems(st, items)
<1>. DEFINE copied == CopiedItems(st, items)
            stored == StoredItems(st, items)
<1>1. BlockCeiling(items) \in Nat /\ st.processed \in Nat
  BY CeilingBounds DEF KernelType
<1>2. /\ copied \in Nat
      /\ \A p \in Nth(st, items) : p - st.processed < copied
      /\ Nth(st, items) = {} => copied = BlockCeiling(items)
  <2>1. CASE Nth(st, items) = {}
    <3>1. copied = Min({BlockCeiling(items)})
      BY <2>1 DEF CopiedItems
    <3>2. copied = BlockCeiling(items)
      BY <1>1, <3>1, Extremes
    <3>. HIDE DEF copied
    <3>. QED
      BY <1>1, <2>1, <3>2
  <2>2. ASSUME NEW p \in Nth(st, items)
        PROVE  copied \in Nat /\ p - st.processed < copied
    <3>. DEFINE end == GroupFloor(p - st.processed) + GroupSize
    <3>1. /\ Nth(st, items) = {p} /\ p - st.processed \in Nat
          /\ p - st.processed < BlockCeiling(items)
      BY <1>1, NthIsOne
    <3>2. end \in Nat /\ p - st.processed < end
      BY <3>1, GroupBounds
    <3>3. copied = Min({BlockCeiling(items), end})
      <4>1. {GroupFloor(q - st.processed) + GroupSize : q \in {p}} = {end}
        OBVIOUS
      <4>2. {BlockCeiling(items)} \cup {end} = {BlockCeiling(items), end}
        OBVIOUS
      <4>. HIDE DEF end
      <4>. QED
        BY <3>1, <4>1, <4>2 DEF CopiedItems
    <3>. HIDE DEF end, copied
    <3>4. copied = BlockCeiling(items) \/ copied = end
      BY <1>1, <3>2, <3>3, Extremes
    <3>. QED
      BY <1>1, <3>1, <3>2, <3>4
  <2>3. \A p \in Nth(st, items) : p - st.processed < copied
    BY <2>2
  <2>. HIDE DEF copied
  <2>. QED
    BY <2>1, <2>2, <2>3
<1>3. /\ stored \in Nat /\ copied <= stored
      /\ PosnAfterNth(st, items) = {} => stored = copied
      /\ \A posn \in PosnAfterNth(st, items) : posn <= stored
  <2>. HIDE DEF copied
  <2>1. CASE PosnAfterNth(st, items) = {}
    <3>1. stored = Max({copied})
      BY <2>1 DEF StoredItems, copied
    <3>2. stored = copied
      BY <1>2, <3>1, Extremes
    <3>. HIDE DEF stored
    <3>. QED
      BY <1>2, <2>1, <3>2
  <2>2. CASE PosnAfterNth(st, items) # {}
    <3>1. PICK posn \in Nat : PosnAfterNth(st, items) = {posn}
      <4>1. PICK p \in bits : /\ p + 1 - st.processed \in 1 .. items - 1
                              /\ PosnAfterNth(st, items) = {p + 1 - st.processed}
        BY <2>2, PosnIsInside
      <4>. QED
        BY <4>1
    <3>. DEFINE end == BlockFloor(posn) + BlockSize
    <3>2. end \in Nat /\ posn <= end
      BY FloorBounds, UntilNAssumption
    <3>3. stored = Max({copied, end})
      <4>1. {BlockFloor(x) + BlockSize : x \in {posn}} = {end}
        OBVIOUS
      <4>2. {copied} \cup {end} = {copied, end}
        OBVIOUS
      <4>. HIDE DEF end
      <4>. QED
        BY <3>1, <4>1, <4>2 DEF StoredItems, copied
    <3>. HIDE DEF end, stored
    <3>4. stored \in {copied, end} /\ copied <= stored /\ end <= stored
      BY <1>2, <3>2, <3>3, Extremes
    <3>. QED
      BY <1>2, <2>2, <3>1, <3>2, <3>4
  <2>. QED
    BY <2>1, <2>2
<1>. QED
  BY <1>2, <1>3

\* What the logic does to the counts.
LEMMA CalledCounts ==
    ASSUME TypeOK, NEW st \in KernelType, NEW items \in Nat,
           st.processed + items <= Length, st.produced + items <= Length,
           NEW after, after = Called(st, items)
    PROVE  /\ after \in KernelType /\ after.uptoN = st.uptoN
           /\ after.processed = st.processed + items
           /\ after.seenSoFar = SeenAfter(st, items)
           /\ \/ /\ PosnAfterNth(st, items) = {}
                 /\ after.produced = st.produced + items
                 /\ after.signal = st.signal
              \/ \E p \in bits :
                    /\ Nth(st, items) = {p} /\ st.processed <= p
                    /\ PosnAfterNth(st, items) = {p + 1 - st.processed}
                    /\ p + 1 - st.processed \in 1 .. items - 1
                    /\ after.produced = p + 1
                    /\ after.signal
<1>. DEFINE posns == PosnAfterNth(st, items)
            ended == IF posns = {} THEN st.produced + items ELSE st.processed + Max(posns)
<1>1. /\ st.processed \in 0 .. Length /\ st.produced \in 0 .. Length
      /\ st.seenSoFar \in Nat /\ st.signal \in BOOLEAN /\ st.uptoN \in SUBSET Positions
      /\ Length \in Nat
  BY UntilNAssumption DEF KernelType
<1>2. SeenAfter(st, items) \in Nat
  <2>1. {b \in Looked(st, items) :
            \A p \in Nth(st, items) : b < st.processed + GroupFloor(p - st.processed)}
          \in SUBSET bits
    BY NthIsOne
  <2>. QED
    BY <1>1, <2>1, BitsAreFinite DEF SeenAfter
<1>3. /\ after.processed = st.processed + items /\ after.produced = ended
      /\ after.seenSoFar = SeenAfter(st, items) /\ after.uptoN = st.uptoN
      /\ after.signal = (st.signal \/ posns # {})
      /\ after = [processed |-> st.processed + items, produced |-> ended,
                  seenSoFar |-> SeenAfter(st, items),
                  signal |-> (st.signal \/ posns # {}), uptoN |-> st.uptoN]
  <2>1. st = [processed |-> st.processed, produced |-> st.produced,
              seenSoFar |-> st.seenSoFar, signal |-> st.signal, uptoN |-> st.uptoN]
    BY DEF KernelType
  <2>2. after = [st EXCEPT !.processed = st.processed + items, !.produced = ended,
                           !.seenSoFar = SeenAfter(st, items),
                           !.signal = (st.signal \/ posns # {})]
    BY DEF Called
  <2>. HIDE DEF ended, posns
  <2>3. after = [processed |-> st.processed + items, produced |-> ended,
                 seenSoFar |-> SeenAfter(st, items),
                 signal |-> (st.signal \/ posns # {}), uptoN |-> st.uptoN]
    BY <2>1, <2>2
  <2>. QED
    BY <2>3
<1>4. CASE posns = {}
  <2>1. ended = st.produced + items /\ after.signal = st.signal
    BY <1>1, <1>3, <1>4
  <2>2. ended \in 0 .. Length /\ st.processed + items \in 0 .. Length
    BY <1>1, <2>1
  <2>. HIDE DEF ended
  <2>. QED
    BY <1>1, <1>2, <1>3, <1>4, <2>1, <2>2 DEF KernelType
<1>5. CASE posns # {}
  <2>1. PICK p \in bits : /\ Nth(st, items) = {p} /\ p \in Nat /\ st.processed <= p
                          /\ p + 1 - st.processed \in 1 .. items - 1
                          /\ posns = {p + 1 - st.processed}
                          /\ Max(posns) = p + 1 - st.processed
    BY <1>5, PosnIsInside
  <2>2. ended = p + 1 /\ after.signal
    <3>1. ended = st.processed + (p + 1 - st.processed)
      BY <1>5, <2>1
    <3>2. after.signal
      BY <1>3, <1>5
    <3>. HIDE DEF ended
    <3>. QED
      BY <1>1, <2>1, <3>1, <3>2
  <2>3. ended \in 0 .. Length /\ st.processed + items \in 0 .. Length
    <3>. HIDE DEF ended
    <3>. QED
      BY <1>1, <2>1, <2>2
  <2>4. after \in KernelType
    <3>. HIDE DEF ended
    <3>. QED
      BY <1>1, <1>2, <1>3, <2>3 DEF KernelType
  <2>. HIDE DEF ended
  <2>. QED
    BY <1>3, <2>1, <2>2, <2>4
<1>. QED
  BY <1>4, <1>5

\* The bits stored in the output area are bits of the input.
LEMMA StoredAreBits ==
    ASSUME TypeOK, NEW st \in KernelType, NEW items \in Nat,
           NEW o \in StoredBits(st, items)
    PROVE  o \in Nat /\ st.processed + o \in bits
<1>1. PICK b \in Looked(st, items) : o = b - st.processed
  BY DEF StoredBits
<1>2. st.processed \in Nat /\ BlockCeiling(items) \in Nat
  BY CeilingBounds DEF KernelType
<1>3. b \in bits /\ b \in st.processed .. st.processed + BlockCeiling(items) - 1
  BY DEF Looked
<1>4. b \in Nat /\ st.processed <= b
  BY <1>2, <1>3
<1>5. o \in Nat /\ st.processed + o = b
  BY <1>1, <1>2, <1>4
<1>. QED
  BY <1>3, <1>5

\* The first call ends at the last whole block.
LEMMA WholeBlocksCounts ==
    ASSUME TypeOK, NEW st \in KernelType, NEW avail \in Nat,
           st.produced = st.processed, IsBlocks(st.processed),
           st.processed <= avail, avail <= Length,
           NEW done, done = DoWholeBlocks(st, avail)
    PROVE  /\ done \in KernelType
           /\ done.processed = st.processed + BlockFloor(avail - st.processed)
           /\ \/ done.produced = done.processed /\ done.signal = st.signal
              \/ done.produced \in st.produced + 1 .. done.processed - 1 /\ done.signal
<1>. DEFINE items == BlockFloor(avail - st.processed)
            after == Called(st, items)
            n     == StoredItems(st, items)
            stored == StoredBits(st, items)
            upto  == Overwrite(st.uptoN, st.processed, n, stored)
<1>1. /\ st.processed \in Nat /\ st.uptoN \in SUBSET Positions /\ Length \in Nat
      /\ st.signal \in BOOLEAN
  BY UntilNAssumption DEF KernelType
<1>2. avail - st.processed \in Nat
  BY <1>1
<1>3. items \in Nat /\ items <= avail - st.processed
  BY <1>2, FloorBounds
<1>4. st.processed + items <= Length /\ st.produced + items <= Length
  BY <1>1, <1>3
<1>5. BlockFloor(st.produced) = st.processed
  BY <1>1, WholeBlocks
<1>6. CASE items = 0
  <2>1. done = st
    BY <1>6 DEF DoWholeBlocks
  <2>2. done.processed = st.processed + items
    BY <1>1, <1>6, <2>1
  <2>. QED
    BY <2>1, <2>2
<1>7. CASE items # 0
  <2>1. done = [after EXCEPT !.uptoN = Overwrite(@, BlockFloor(st.produced), n, stored)]
    BY <1>7 DEF DoWholeBlocks
  <2>2. upto \in SUBSET Positions
    <3>1. \A o \in stored : st.processed + o \in Positions
      <4>1. bits \in SUBSET Positions
        BY DEF TypeOK
      <4>. QED
        BY <1>3, <4>1, StoredAreBits
    <3>. HIDE DEF stored, n
    <3>. QED
      BY <1>1, <3>1 DEF Overwrite
  <2>. HIDE DEF items
  <2>3. /\ after \in KernelType /\ after.uptoN = st.uptoN
        /\ after.processed = st.processed + items
        /\ \/ after.produced = st.produced + items /\ after.signal = st.signal
           \/ \E p \in bits : /\ st.processed <= p
                              /\ p + 1 - st.processed \in 1 .. items - 1
                              /\ after.produced = p + 1 /\ after.signal
    BY <1>3, <1>4, CalledCounts
  <2>. HIDE DEF after, n, stored
  <2>4. done = [after EXCEPT !.uptoN = upto]
    BY <1>5, <2>1, <2>3
  <2>. HIDE DEF upto
  <2>5. /\ done \in KernelType /\ done.processed = after.processed
        /\ done.produced = after.produced /\ done.signal = after.signal
    BY <2>2, <2>3, <2>4 DEF KernelType
  <2>6. CASE after.produced = st.produced + items /\ after.signal = st.signal
    BY <2>3, <2>5, <2>6 DEF items
  <2>7. ASSUME NEW p \in bits, st.processed <= p, p + 1 - st.processed \in 1 .. items - 1,
               after.produced = p + 1, after.signal
        PROVE  done.produced \in st.produced + 1 .. done.processed - 1 /\ done.signal
    <3>1. p \in Nat
      BY BitsAreFinite
    <3>. QED
      BY <1>1, <1>3, <2>3, <2>5, <2>7, <3>1
  <2>8. done.processed = st.processed + BlockFloor(avail - st.processed)
    BY <2>3, <2>5 DEF items
  <2>. QED
    BY <2>3, <2>5, <2>6, <2>7, <2>8
<1>. QED
  BY <1>6, <1>7

\* The second ends at the end of the input.
LEMMA FinalBlockCounts ==
    ASSUME TypeOK, NEW st \in KernelType, NEW avail \in Nat,
           st.produced <= st.processed, st.processed <= avail, avail <= Length,
           NEW done \in DoFinalBlock(st, avail)
    PROVE  /\ done \in KernelType
           /\ done.processed = avail /\ done.signal
           /\ \/ done.produced = st.produced + (avail - st.processed)
              \/ done.produced \in st.processed + 1 .. avail - 1
<1>. DEFINE items == avail - st.processed
            after == Called(st, items)
            base  == BlockFloor(st.produced)
            n     == after.produced - base
<1>0. PICK beyond \in SUBSET (TempBlocks * BlockSize .. n - 1) :
        done = [after EXCEPT !.uptoN = Overwrite(@, base, n, TempBits(st, items) \cup beyond),
                             !.signal = TRUE]
  BY DEF DoFinalBlock
<1>. DEFINE temp == TempBits(st, items) \cup beyond
            upto == Overwrite(st.uptoN, base, n, temp)
<1>1. /\ st.processed \in Nat /\ st.uptoN \in SUBSET Positions /\ Length \in Nat
      /\ st.produced \in Nat
  BY UntilNAssumption DEF KernelType
<1>2. /\ items \in Nat /\ st.processed + items = avail
      /\ st.processed + items <= Length /\ st.produced + items <= Length
  BY <1>1
<1>3. base \in Nat /\ base <= st.produced
  BY <1>1, FloorBounds
<1>. HIDE DEF items
<1>4. /\ after \in KernelType /\ after.uptoN = st.uptoN
      /\ after.processed = st.processed + items
      /\ \/ after.produced = st.produced + items
         \/ \E p \in bits : /\ st.processed <= p
                            /\ p + 1 - st.processed \in 1 .. items - 1
                            /\ after.produced = p + 1
  BY <1>2, CalledCounts
<1>5. done = [after EXCEPT !.uptoN = Overwrite(@, base, n, temp), !.signal = TRUE]
  BY <1>0
<1>6. upto \in SUBSET Positions
  <2>1. after.produced \in 0 .. Length /\ n \in Int
    BY <1>3, <1>4 DEF KernelType
  <2>2. \A o \in temp : o \in Nat
    <3>1. \A o \in TempBits(st, items) : o \in Nat
      <4>1. CASE items = 0
        <5>1. TempBits(st, items) = {o - base : o \in st.uptoN \cap (base .. st.produced - 1)}
          BY <4>1 DEF TempBits
        <5>2. \A o \in base .. st.produced - 1 : o - base \in Nat
          BY <1>1, <1>3
        <5>. HIDE DEF base
        <5>. QED
          BY <5>1, <5>2
      <4>2. CASE items # 0
        <5>1. TempBits(st, items) = StoredBits(st, items)
          BY <4>2 DEF TempBits
        <5>. QED
          BY <1>2, <5>1, StoredAreBits
      <4>. QED
        BY <4>1, <4>2
    <3>2. \A o \in beyond : o \in Nat
      <4>1. TempBlocks * BlockSize \in Nat
        BY UntilNAssumption DEF TempBlocks
      <4>2. n - 1 \in Int
        BY <2>1
      <4>3. beyond \in SUBSET (TempBlocks * BlockSize .. n - 1)
        BY <1>0
      <4>. HIDE DEF n
      <4>. QED
        BY <4>1, <4>2, <4>3
    <3>. QED
      BY <3>1, <3>2
  <2>. HIDE DEF after, temp
  <2>3. ASSUME NEW o \in temp, o < n PROVE base + o \in Positions
    <3>1. Length <= BlockCeiling(Length) /\ BlockCeiling(Length) \in Nat
      BY <1>1, CeilingBounds
    <3>. HIDE DEF base
    <3>2. o \in Nat /\ base + o < Length
      BY <1>1, <1>3, <2>1, <2>2, <2>3
    <3>. QED
      BY <1>1, <1>3, <3>1, <3>2 DEF Positions
  <2>. HIDE DEF n, base
  <2>. QED
    BY <1>1, <2>3 DEF Overwrite
<1>. HIDE DEF after, temp, n, base
<1>7. done = [after EXCEPT !.uptoN = upto, !.signal = TRUE]
  BY <1>4, <1>5
<1>. HIDE DEF upto
<1>8. /\ done \in KernelType /\ done.processed = after.processed
      /\ done.produced = after.produced /\ done.signal
  BY <1>4, <1>6, <1>7 DEF KernelType
<1>9. ASSUME NEW p \in bits, st.processed <= p, p + 1 - st.processed \in 1 .. items - 1,
             after.produced = p + 1
      PROVE  done.produced \in st.processed + 1 .. avail - 1
  <2>1. p \in Nat
    BY BitsAreFinite
  <2>. QED
    BY <1>1, <1>2, <1>8, <1>9, <2>1
<1>. QED
  BY <1>2, <1>4, <1>8, <1>9 DEF items

-----------------------------------------------------------------------------
(* The counts from segment to segment *)

\* Until it signals, UntilN has processed and produced all the segments so far.
CountsInv ==
    ~kernel.signal => /\ kernel.processed = segNo * SegmentSize
                      /\ kernel.produced = kernel.processed
                      /\ kernel.processed <= Length

\* The items a call is given: the rest of the input in the final segment, one
\* whole segment in the others.
LEMMA SegmentItems ==
    ASSUME TypeOK, CountsInv, ~kernel.signal
    PROVE  /\ Avail \in Nat /\ Avail <= Length
           /\ kernel.processed \in Nat /\ IsBlocks(kernel.processed)
           /\ kernel.processed <= Avail
           /\ Final => Avail = Length
           /\ ~Final => /\ Avail = kernel.processed + SegmentSize
                        /\ Avail = (segNo + 1) * SegmentSize
                        /\ BlockFloor(Avail - kernel.processed) = SegmentSize
<1>1. /\ Length \in Nat /\ segNo \in Nat /\ kernel.processed = segNo * SegmentSize
      /\ kernel.processed <= Length
  BY UntilNAssumption DEF TypeOK, CountsInv
<1>2. /\ SegmentSize \in Nat /\ kernel.processed \in Nat /\ IsBlocks(kernel.processed)
      /\ (segNo + 1) * SegmentSize = kernel.processed + SegmentSize
      /\ BlockFloor(SegmentSize) = SegmentSize
  BY <1>1, Segments, WholeBlocks
<1>3. Avail = IF Length <= kernel.processed + SegmentSize
              THEN Length ELSE kernel.processed + SegmentSize
  BY <1>1, <1>2, Extremes DEF Avail
<1>4. Final <=> Length < kernel.processed + SegmentSize
  BY <1>2 DEF Final
<1>5. ~Final => Avail = kernel.processed + SegmentSize /\ Avail - kernel.processed = SegmentSize
  BY <1>1, <1>2, <1>3, <1>4
<1>. QED
  BY <1>1, <1>2, <1>3, <1>4, <1>5

\* A call processes the items it is given, and produces them all or signals.
LEMMA SegmentCounts ==
    ASSUME TypeOK, CountsInv, ~kernel.signal,
           NEW after \in DoSegmentResults(kernel)
    PROVE  /\ after \in KernelType /\ after.processed = Avail
           /\ Final => after.signal
           /\ \/ after.produced = Avail /\ after.signal = Final
              \/ after.produced \in kernel.produced + 1 .. Avail - 1 /\ after.signal
<1>. DEFINE done == DoWholeBlocks(kernel, Avail)
            rest == Avail - kernel.processed
<1>1. /\ kernel \in KernelType /\ kernel.produced = kernel.processed
      /\ kernel.signal = FALSE
  BY BitsAreFinite DEF CountsInv, KernelType
<1>2. /\ Avail \in Nat /\ Avail <= Length /\ kernel.processed \in Nat
      /\ IsBlocks(kernel.processed) /\ kernel.processed <= Avail
      /\ ~Final => BlockFloor(rest) = rest /\ kernel.processed + rest = Avail
  <2>1. SegmentSize \in Nat
    BY Segments
  <2>2. ~Final => Avail = kernel.processed + SegmentSize /\ BlockFloor(rest) = SegmentSize
    BY SegmentItems
  <2>3. kernel.processed \in Nat
    BY SegmentItems
  <2>4. ~Final => SegmentSize = rest
    BY <2>1, <2>2, <2>3
  <2>. HIDE DEF rest
  <2>. QED
    BY <2>2, <2>4, SegmentItems
<1>3. /\ done \in KernelType
      /\ done.processed = kernel.processed + BlockFloor(rest)
      /\ \/ done.produced = done.processed /\ done.signal = kernel.signal
         \/ /\ done.produced \in kernel.produced + 1 .. done.processed - 1
            /\ done.signal
  BY <1>1, <1>2, WholeBlocksCounts
<1>4. rest \in Nat /\ BlockFloor(rest) \in Nat /\ BlockFloor(rest) <= rest
  BY <1>2, FloorBounds
<1>5. Final \in BOOLEAN
  BY DEF Final
<1>. HIDE DEF done
<1>6. CASE ~Final
  <2>1. after = done
    BY <1>6 DEF DoSegmentResults, done
  <2>. HIDE DEF rest
  <2>. QED
    BY <1>1, <1>2, <1>3, <1>5, <1>6, <2>1
<1>7. CASE Final
  <2>1. after \in DoFinalBlock(done, Avail)
    BY <1>7 DEF DoSegmentResults, done
  <2>2. done.processed \in Nat /\ done.produced \in Nat /\ done.processed <= Avail
    BY <1>2, <1>3, <1>4 DEF KernelType
  <2>3. done.produced <= done.processed
    BY <1>3, <2>2
  <2>4. /\ after \in KernelType /\ after.processed = Avail /\ after.signal
        /\ \/ after.produced = done.produced + (Avail - done.processed)
           \/ after.produced \in done.processed + 1 .. Avail - 1
    BY <1>2, <1>3, <2>1, <2>2, <2>3, FinalBlockCounts
  <2>5. after.produced = Avail \/ after.produced \in kernel.produced + 1 .. Avail - 1
    BY <1>1, <1>2, <1>3, <1>4, <2>2, <2>4
  <2>6. after.signal = TRUE
    BY <2>4 DEF KernelType
  <2>. QED
    BY <1>5, <1>7, <2>4, <2>5, <2>6
<1>. QED
  BY <1>6, <1>7

\* Types and counts are kept by every step.
LEMMA CountsNext ==
    ASSUME TypeOK, CountsInv, [Next]_vars
    PROVE  TypeOK' /\ CountsInv'
<1>1. CASE DoSegment
  <2>1. /\ ~kernel.signal /\ kernel' \in DoSegmentResults(kernel) /\ segNo' = segNo + 1
        /\ N' = N /\ bits' = bits
    BY <1>1 DEF DoSegment
  <2>2. /\ kernel' \in KernelType /\ kernel'.processed = Avail
        /\ Final => kernel'.signal
        /\ \/ kernel'.produced = Avail /\ kernel'.signal = Final
           \/ kernel'.signal
    BY <2>1, SegmentCounts
  <2>3. TypeOK'
    BY <2>1, <2>2 DEF TypeOK, KernelType
  <2>4. ASSUME ~kernel'.signal PROVE CountsInv'
    <3>1. ~Final
      BY <2>2, <2>4
    <3>2. Avail = (segNo + 1) * SegmentSize /\ Avail <= Length
      BY <2>1, <3>1, SegmentItems
    <3>. QED
      BY <2>1, <2>2, <2>4, <3>2 DEF CountsInv
  <2>. QED
    BY <2>3, <2>4 DEF CountsInv
<1>2. CASE UNCHANGED vars
  BY <1>2 DEF vars, TypeOK, CountsInv
<1>. QED
  BY <1>1, <1>2 DEF Next, Terminated

\* They hold before the first segment.
LEMMA CountsInit ==
    ASSUME Init
    PROVE  TypeOK /\ CountsInv
<1>1. Length \in Nat /\ SegmentSize \in Nat
  BY UntilNAssumption, Segments
<1>2. 0 \in 0 .. Length /\ {} \in SUBSET Positions /\ 0 = 0 * SegmentSize
  BY <1>1
<1>. QED
  BY <1>1, <1>2 DEF Init, TypeOK, CountsInv

\* The counts of UntilN, the number of bits it has seen and its output buffer
\* have their types, whatever the sizes: no position it stores is outside the
\* blocks of the input (until_n.cpp:69-156, kernel.cpp:528-717).
THEOREM UntilNTypeCorrect == Spec => []TypeOK
<1>1. TypeOK /\ CountsInv /\ [Next]_vars => TypeOK' /\ CountsInv'
  BY CountsNext
<1>2. Init => TypeOK /\ CountsInv
  BY CountsInit
<1>. QED
  BY <1>1, <1>2, PTL DEF Spec

\* In its pipeline UntilN is kernel 1, which takes the only count it is told.
LEMMA PipelineResults ==
    ASSUME NEW st \in [processed : Nat, produced : Nat, signal : BOOLEAN],
           NEW avail \in Nat, NEW final \in BOOLEAN
    PROVE  /\ Pipeline!Advance(1, st, avail, final)
                \in Pipeline!DoSegmentResults(1, st, [b \in {0} |-> avail], final)
           /\ Pipeline!EarlyTermination(1, st, avail, final)
                \subseteq Pipeline!DoSegmentResults(1, st, [b \in {0} |-> avail], final)
<1>. DEFINE pos == [b \in {0} |-> avail]
<1>1. 1 \notin Pipeline!Sources
  BY DEF Pipeline!Sources
<1>2. Pipeline!Available(1, pos) = avail
  <2>1. Pipeline!InputSet(1) = {0}
    BY DEF Pipeline!InputSet
  <2>2. {pos[b] : b \in {0}} = {avail}
    OBVIOUS
  <2>3. Pipeline!Min({avail}) = avail
    BY DEF Pipeline!Min
  <2>4. Pipeline!Available(1, pos) = Pipeline!Min({pos[b] : b \in Pipeline!InputSet(1)})
    BY DEF Pipeline!Available
  <2>. HIDE DEF pos
  <2>. QED
    BY <2>1, <2>2, <2>3, <2>4
<1>. HIDE DEF pos
<1>3. Pipeline!DoSegmentResults(1, st, pos, final) =
        {Pipeline!Advance(1, st, avail, final)}
          \cup Pipeline!EarlyTermination(1, st, avail, final)
  BY <1>1, <1>2 DEF Pipeline!DoSegmentResults
<1>. QED
  BY <1>3 DEF pos

\* The counts after a call are those KernelSegments allows.
LEMMA CallAsInPipeline ==
    ASSUME TypeOK, CountsInv, DoSegment
    PROVE  Counts(kernel') \in
              Pipeline!DoSegmentResults(1, Counts(kernel), [b \in {0} |-> Avail], Final)
<1>. DEFINE st == Counts(kernel)
            normal == Pipeline!Advance(1, st, Avail, Final)
            allowed == Pipeline!DoSegmentResults(1, st, [b \in {0} |-> Avail], Final)
<1>1. ~kernel.signal /\ kernel' \in DoSegmentResults(kernel)
  BY DEF DoSegment
<1>2. /\ kernel' \in KernelType /\ kernel'.processed = Avail
      /\ Final => kernel'.signal
      /\ \/ kernel'.produced = Avail /\ kernel'.signal = Final
         \/ kernel'.produced \in kernel.produced + 1 .. Avail - 1 /\ kernel'.signal
  BY <1>1, SegmentCounts
<1>3. /\ kernel.processed \in Nat /\ Avail \in Nat /\ kernel.processed <= Avail
      /\ kernel.produced \in Nat /\ kernel.signal = FALSE /\ Final \in BOOLEAN
  BY <1>1, SegmentItems, BitsAreFinite DEF KernelType, Final
<1>4. /\ st = [processed |-> kernel.processed, produced |-> kernel.produced,
               signal |-> FALSE]
      /\ st \in [processed : Nat, produced : Nat, signal : BOOLEAN]
  BY <1>3 DEF Counts
<1>5. ~Final => kernel.processed + Pipeline!StrideItems(1, st, Avail) = Avail
  <2>1. Pipeline!StrideItems(1, st, Avail) = BlockFloor(Avail - kernel.processed)
    BY <1>4 DEF Pipeline!StrideItems, BlockFloor
  <2>. HIDE DEF st
  <2>. QED
    BY <1>1, <2>1, SegmentItems
<1>. HIDE DEF st
<1>a. /\ normal \in allowed
      /\ Pipeline!EarlyTermination(1, st, Avail, Final) \subseteq allowed
  BY <1>3, <1>4, PipelineResults
<1>6. normal = [processed |-> Avail, produced |-> Avail, signal |-> Final]
  BY <1>3, <1>4, <1>5 DEF Pipeline!Advance
<1>. HIDE DEF normal, allowed
<1>7. Counts(kernel') = [processed |-> Avail, produced |-> kernel'.produced,
                         signal |-> kernel'.signal]
  BY <1>2 DEF Counts
<1>8. CASE kernel'.produced = Avail /\ kernel'.signal = Final
  <2>1. Counts(kernel') = normal
    BY <1>6, <1>7, <1>8
  <2>. QED
    BY <1>a, <2>1 DEF allowed, st
<1>9. CASE kernel'.produced \in kernel.produced + 1 .. Avail - 1 /\ kernel'.signal
  <2>1. kernel'.signal = TRUE
    BY <1>2, <1>9 DEF KernelType
  <2>2. Counts(kernel') = [normal EXCEPT !.produced = kernel'.produced, !.signal = TRUE]
    <3>1. ASSUME NEW n, NEW st2, st2 = [normal EXCEPT !.produced = n, !.signal = TRUE]
          PROVE  st2 = [processed |-> Avail, produced |-> n, signal |-> TRUE]
      BY <1>6, <3>1
    <3>. QED
      BY <1>7, <2>1, <3>1, Zenon
  <2>3. kernel'.produced \in st.produced + 1 .. normal.processed - 1
    BY <1>4, <1>6, <1>9
  <2>4. Counts(kernel') \in Pipeline!EarlyTermination(1, st, Avail, Final)
    BY <2>2, <2>3 DEF Pipeline!EarlyTermination, normal
  <2>. QED
    BY <1>a, <2>4 DEF allowed, st
<1>. QED
  BY <1>2, <1>8, <1>9

\* UntilN is one of the kernels that the pipeline theorems are about: each
\* doSegment call leaves its counts where KernelSegments says a kernel that may
\* end the pipeline leaves them (kernel.cpp:528-717, until_n.cpp:173-189).
THEOREM UntilNAsInPipeline == Spec => AsInPipeline
<1>. DEFINE Allowed == Counts(kernel') \in
              Pipeline!DoSegmentResults(1, Counts(kernel), [b \in {0} |-> Avail], Final)
<1>1. TypeOK /\ CountsInv /\ [Next]_vars => TypeOK' /\ CountsInv'
  BY CountsNext
<1>2. Init => TypeOK /\ CountsInv
  BY CountsInit
<1>3. TypeOK /\ CountsInv /\ [Next]_vars => [Allowed]_vars
  BY CallAsInPipeline DEF Next, Terminated
<1>. QED
  BY <1>1, <1>2, <1>3, PTL DEF Spec, AsInPipeline

-----------------------------------------------------------------------------
(* The output: the Nth bit in the whole input and in a call *)

\* The Nth bit of the input: a set of at most one position.
NthBits == FirstBits(N) \ FirstBits(N - 1)

\* It is the bit of rank N, if that is not beyond the end of the input.
LEMMA NthBitsRank ==
    ASSUME TypeOK
    PROVE  /\ \A p : p \in NthBits <=> p \in bits /\ p < Length /\ Rank(bits, p) = N
           /\ \A p \in NthBits : N <= Cardinality(ValidBits)
           /\ \A p \in NthBits : FirstBits(N) = Below(bits, p + 1)
<1>1. Length \in Nat /\ bits \in SUBSET Nat /\ IsFiniteSet(bits) /\ N \in Nat \ {0}
  BY BitsAreFinite, UntilNAssumption
<1>2. \A p : p \in ValidBits <=> p \in bits /\ p < Length
  <2>1. \A p \in Nat : p \in 0 .. Length - 1 <=> p < Length
    BY <1>1
  <2>2. \A p \in 0 .. Length - 1 : p \in Nat
    OBVIOUS
  <2>. QED
    BY <1>1, <2>1, <2>2 DEF ValidBits
<1>3. ValidBits \in SUBSET Int /\ ValidBits \in SUBSET bits /\ IsFiniteSet(ValidBits)
  BY <1>1, <1>2, BitsAreFinite
<1>4. \A p \in ValidBits : Rank(ValidBits, p) = Rank(bits, p)
  <2>. SUFFICES ASSUME NEW p \in ValidBits PROVE Rank(ValidBits, p) = Rank(bits, p)
    OBVIOUS
  <2>1. p \in Nat /\ p < Length
    BY <1>1, <1>2
  <2>2. \A b \in bits : b <= p => b < Length
    BY <1>1, <2>1
  <2>3. {b \in ValidBits : b <= p} = {b \in bits : b <= p}
    BY <1>2, <2>2, Zenon
  <2>. QED
    BY <2>3 DEF Rank
<1>5. \A n : \A p : p \in FirstBits(n) <=> p \in ValidBits /\ Rank(bits, p) <= n
  BY <1>4 DEF FirstBits, Rank
<1>6. \A p \in bits : Rank(bits, p) \in Nat
  <2>1. bits \in SUBSET Int
    BY <1>1
  <2>2. \A p \in Int : Rank(bits, p) \in Nat
    BY <1>1, <2>1, RankGrows
  <2>. QED
    BY <2>1, <2>2
<1>7. ASSUME NEW p
      PROVE  p \in NthBits <=> p \in bits /\ p < Length /\ Rank(bits, p) = N
  <2>1. p \in NthBits <=> /\ p \in bits /\ p < Length
                          /\ Rank(bits, p) <= N /\ ~(Rank(bits, p) <= N - 1)
    BY <1>2, <1>5 DEF NthBits
  <2>2. p \in bits => (Rank(bits, p) <= N /\ ~(Rank(bits, p) <= N - 1) <=> Rank(bits, p) = N)
    BY <1>1, <1>6
  <2>. QED
    BY <2>1, <2>2
<1>8. ASSUME NEW p \in NthBits PROVE N <= Cardinality(ValidBits)
  <2>1. p \in ValidBits /\ p \in Int /\ Rank(ValidBits, p) = N
    BY <1>2, <1>3, <1>4, <1>7
  <2>. QED
    BY <1>3, <2>1, RankGrows
<1>9. ASSUME NEW p \in NthBits PROVE FirstBits(N) = Below(bits, p + 1)
  <2>1. p \in bits /\ p \in Nat /\ p < Length /\ Rank(bits, p) = N
    BY <1>1, <1>7
  <2>2. \A b \in bits : p < b => Rank(bits, p) < Rank(bits, b)
    BY <1>1, <2>1, RankGrows
  <2>3. \A b \in bits : b < p => Rank(bits, b) < Rank(bits, p)
    BY <1>1, <2>1, RankGrows
  <2>4. \A b \in bits : (b < Length /\ Rank(bits, b) <= N) <=> b < p + 1
    <3>. SUFFICES ASSUME NEW b \in bits
                  PROVE  (b < Length /\ Rank(bits, b) <= N) <=> b < p + 1
      OBVIOUS
    <3>1. b \in Nat /\ Rank(bits, b) \in Nat
      BY <1>1, <1>6
    <3>2. CASE b < p
      BY <1>1, <2>1, <2>3, <3>1, <3>2
    <3>3. CASE b = p
      BY <1>1, <2>1, <3>3
    <3>4. CASE p < b
      BY <1>1, <2>1, <2>2, <3>1, <3>4
    <3>. QED
      BY <2>1, <3>1, <3>2, <3>3, <3>4
  <2>. QED
    BY <1>2, <1>5, <2>4, Zenon DEF Below
<1>. QED
  BY <1>7, <1>8, <1>9

\* What is true of an instance that has passed on everything so far.
Kept(st) ==
    /\ st.produced = st.processed
    /\ st.seenSoFar = Cardinality(Below(bits, st.processed)) /\ st.seenSoFar < N
    /\ Below(st.uptoN, st.produced) = Below(bits, st.processed)

\* A bit of rank N from a position on, and before an end.
NthWithin(from, end) == {p \in bits : from <= p /\ p < end /\ Rank(bits, p) = N}

\* Such an instance finds the Nth bit of the input, if it is among the items.
LEMMA NthIsNthBit ==
    ASSUME TypeOK, NEW st \in KernelType, Kept(st), NEW items \in Nat
    PROVE  Nth(st, items) = NthWithin(st.processed, st.processed + BlockCeiling(items))
<1>. DEFINE T    == Looked(st, items)
            from == st.processed
            end  == st.processed + BlockCeiling(items)
<1>1. from \in Nat /\ end \in Nat /\ bits \in SUBSET Int /\ IsFiniteSet(bits)
  BY CeilingBounds, BitsAreFinite DEF KernelType
<1>2. \A p : p \in T <=> p \in bits /\ from <= p /\ p < end
  <2>1. \A p \in Int : p \in from .. end - 1 <=> from <= p /\ p < end
    BY <1>1
  <2>2. T = bits \cap (from .. end - 1)
    <3>1. st.processed + BlockCeiling(items) - 1 = end - 1
      BY <1>1, CeilingBounds
    <3>. HIDE DEF end
    <3>. QED
      BY <3>1 DEF Looked
  <2>3. \A p \in bits : p \in Int
    BY <1>1
  <2>. HIDE DEF T, from, end
  <2>. QED
    BY <2>1, <2>2, <2>3
<1>. HIDE DEF T, from, end
<1>3. ASSUME NEW p \in T
      PROVE  st.seenSoFar + Cardinality({b \in T : b <= p}) = Rank(bits, p)
  <2>1. p \in Int /\ from <= p /\ p < end
    BY <1>1, <1>2
  <2>2. Cardinality(Below(bits, p + 1)) =
           Cardinality(Below(bits, from)) + Cardinality({b \in bits : from <= b /\ b < p + 1})
    BY <1>1, <2>1, CountsAdd
  <2>3. \A b \in bits : (b < p + 1 <=> b <= p) /\ (b <= p => b < end)
    BY <1>1, <2>1
  <2>4. Below(bits, p + 1) = {b \in bits : b <= p}
    BY <2>3, Zenon DEF Below
  <2>5. {b \in bits : from <= b /\ b < p + 1} = {b \in T : b <= p}
    BY <1>2, <2>3, Zenon
  <2>6. st.seenSoFar = Cardinality(Below(bits, from))
    BY DEF Kept, from
  <2>. QED
    BY <2>2, <2>4, <2>5, <2>6 DEF Rank
<1>4. \A p : p \in Nth(st, items) <=> p \in T /\ Rank(bits, p) = N
  BY <1>3 DEF Nth, T
<1>. QED
  BY <1>2, <1>4, Zenon DEF NthWithin, from, end

\* Without it, fewer than N bits have been seen after the items too.
LEMMA StillFewer ==
    ASSUME TypeOK, NEW from \in Nat, NEW end \in Nat, from <= end,
           Cardinality(Below(bits, from)) < N, NthWithin(from, end) = {}
    PROVE  Cardinality(Below(bits, end)) < N
<1>. DEFINE T == Below(bits, end)
<1>1. /\ bits \in SUBSET Int /\ IsFiniteSet(bits) /\ N \in Nat \ {0}
      /\ Below(bits, from) \in SUBSET bits /\ T \in SUBSET bits
  BY BitsAreFinite DEF Below
<1>2. /\ IsFiniteSet(T) /\ T \in SUBSET Int /\ Cardinality(T) \in Nat
      /\ IsFiniteSet(Below(bits, from)) /\ Cardinality(Below(bits, from)) \in Nat
  BY <1>1, BitsAreFinite
<1>. SUFFICES ASSUME N <= Cardinality(T) PROVE FALSE
  BY <1>1, <1>2
<1>. HIDE DEF T
<1>3. PICK p \in T : Rank(T, p) = N
  <2>1. N \in 1 .. Cardinality(T)
    BY <1>1, <1>2
  <2>. QED
    BY <1>2, <2>1, NthExists
<1>4. p \in bits /\ p \in Int /\ p < end
  BY <1>1, <1>3 DEF T, Below
<1>5. Rank(bits, p) = N
  <2>1. \A b \in bits : b <= p => b < end
    BY <1>1, <1>4
  <2>2. {b \in T : b <= p} = {b \in bits : b <= p}
    BY <2>1, Zenon DEF T, Below
  <2>. QED
    BY <1>3, <2>2 DEF Rank
<1>6. p < from
  BY <1>4, <1>5 DEF NthWithin
<1>7. Rank(bits, p) <= Cardinality(Below(bits, from))
  <2>1. \A b \in bits : b <= p => b < from
    BY <1>1, <1>4, <1>6
  <2>2. {b \in bits : b <= p} \in SUBSET Below(bits, from)
    BY <2>1, Zenon DEF Below
  <2>. QED
    BY <1>2, <2>2, FS_Subset DEF Rank
<1>. QED
  BY <1>1, <1>2, <1>5, <1>7

-----------------------------------------------------------------------------
(* The output: what a call copies *)

\* Up to an end inside the items, the Nth bit and the copied blocks, the stored
\* bits are those of the input.
LEMMA StoredCopies ==
    ASSUME TypeOK, NEW st \in KernelType, NEW items \in Nat, NEW end \in Nat,
           end <= items, end <= CopiedItems(st, items),
           \A posn \in PosnAfterNth(st, items) : end <= posn /\ posn \in Nat
    PROVE  \A o \in Nat : o < end => (o \in StoredBits(st, items) <=> st.processed + o \in bits)
<1>. SUFFICES ASSUME NEW o \in Nat, o < end
              PROVE  o \in StoredBits(st, items) <=> st.processed + o \in bits
  OBVIOUS
<1>1. /\ st.processed \in Nat /\ items <= BlockCeiling(items)
      /\ BlockCeiling(items) \in Nat
      /\ CopiedItems(st, items) \in Nat
  BY CeilingBounds, StoredSpans DEF KernelType
<1>2. /\ st.processed + o \in st.processed .. st.processed + BlockCeiling(items) - 1
      /\ (st.processed + o) - st.processed = o /\ o < CopiedItems(st, items)
  BY <1>1
<1>3. \A posn \in PosnAfterNth(st, items) : ~(o >= posn)
  OBVIOUS
<1>4. ASSUME st.processed + o \in bits PROVE o \in StoredBits(st, items)
  <2>1. st.processed + o \in Looked(st, items)
    BY <1>2, <1>4 DEF Looked
  <2>2. o \in {b - st.processed : b \in Looked(st, items)}
    BY <1>2, <2>1
  <2>. QED
    BY <1>2, <1>3, <2>2, Zenon DEF StoredBits
<1>5. ASSUME o \in StoredBits(st, items) PROVE st.processed + o \in bits
  BY <1>5, StoredAreBits
<1>. QED
  BY <1>4, <1>5

\* Stored over a buffer that holds the input below its base, they make it hold
\* the input up to that end.
LEMMA OverwriteCopies ==
    ASSUME TypeOK, NEW old \in SUBSET Nat, NEW base \in Nat, NEW n \in Nat,
           NEW end \in Nat, end <= n, NEW stored \in SUBSET Nat,
           \A o \in Nat : o < end => (o \in stored <=> base + o \in bits),
           Below(old, base) = Below(bits, base)
    PROVE  Below(Overwrite(old, base, n, stored), base + end) = Below(bits, base + end)
<1>. DEFINE new == Overwrite(old, base, n, stored)
<1>1. \A b : b \in new <=> \/ b \in old /\ (b < base \/ b >= base + n)
                           \/ \E o \in stored : o < n /\ b = base + o
  BY DEF Overwrite
<1>. HIDE DEF new
<1>2. bits \in SUBSET Nat
  BY BitsAreFinite
<1>3. \A b : b \in new \/ b \in bits => b \in Nat
  <2>1. \A o \in stored : base + o \in Nat
    OBVIOUS
  <2>2. ASSUME NEW b \in new PROVE b \in Nat
    <3>1. b \in old \/ \E o \in stored : b = base + o
      BY <1>1, Zenon
    <3>. QED
      BY <2>1, <3>1
  <2>. QED
    BY <1>2, <2>2
<1>4. ASSUME NEW b \in Nat, b < base PROVE b \in new <=> b \in bits
  <2>1. \A o \in stored : b # base + o
    BY <1>4
  <2>2. b \in old <=> b \in bits
    BY <1>4 DEF Below
  <2>. QED
    BY <1>1, <1>4, <2>1, <2>2
<1>5. ASSUME NEW b \in Nat, base <= b, b < base + end PROVE b \in new <=> b \in bits
  <2>1. PICK o \in Nat : b = base + o
    <3>1. b - base \in Nat /\ b = base + (b - base)
      BY <1>5
    <3>. QED
      BY <3>1
  <2>2. o < end /\ o < n /\ ~(b < base) /\ ~(b >= base + n)
    BY <1>5, <2>1
  <2>3. \A x \in stored : b = base + x => x = o
    BY <2>1
  <2>4. b \in new <=> o \in stored
    BY <1>1, <2>1, <2>2, <2>3
  <2>. QED
    BY <2>1, <2>2, <2>4
<1>6. \A b \in Nat : b < base + end => (b \in new <=> b \in bits)
  BY <1>4, <1>5
<1>7. \A b : b \in Below(new, base + end) <=> b \in Below(bits, base + end)
  BY <1>3, <1>6 DEF Below
<1>. QED
  BY <1>7 DEF new, Below

\* The state that the call for some whole blocks leaves.
LEMMA WholeBlocksStored ==
    ASSUME TypeOK, NEW st \in KernelType, NEW avail \in Nat,
           st.produced = st.processed, IsBlocks(st.processed),
           st.processed <= avail, avail <= Length,
           NEW items \in Nat, items = BlockFloor(avail - st.processed), items # 0,
           NEW done, done = DoWholeBlocks(st, avail)
    PROVE  /\ done.processed = st.processed + items
           /\ done.seenSoFar = SeenAfter(st, items)
           /\ done.uptoN = Overwrite(st.uptoN, st.processed, StoredItems(st, items),
                                     StoredBits(st, items))
           /\ PosnAfterNth(st, items) = {} => /\ done.produced = done.processed
                                              /\ done.signal = st.signal
           /\ \A p \in Nth(st, items) :
                 p + 1 - st.processed < items => done.produced = p + 1 /\ done.signal
<1>. DEFINE after == Called(st, items)
            upto  == Overwrite(st.uptoN, st.processed, StoredItems(st, items),
                               StoredBits(st, items))
<1>1. st.processed \in Nat /\ Length \in Nat
  BY UntilNAssumption DEF KernelType
<1>2. avail - st.processed \in Nat
  BY <1>1
<1>3. items <= avail - st.processed
  BY <1>2, FloorBounds
<1>4. st.processed + items <= Length /\ st.produced + items <= Length
  BY <1>1, <1>3
<1>5. BlockFloor(st.produced) = st.processed
  BY <1>1, WholeBlocks
<1>6. done = [after EXCEPT !.uptoN = Overwrite(@, BlockFloor(st.produced),
                                               StoredItems(st, items),
                                               StoredBits(st, items))]
  BY DEF DoWholeBlocks
<1>7. /\ after \in KernelType /\ after.uptoN = st.uptoN
      /\ after.processed = st.processed + items
      /\ after.seenSoFar = SeenAfter(st, items)
      /\ \/ /\ PosnAfterNth(st, items) = {}
            /\ after.produced = st.produced + items
            /\ after.signal = st.signal
         \/ \E p \in bits :
               /\ Nth(st, items) = {p} /\ st.processed <= p
               /\ PosnAfterNth(st, items) = {p + 1 - st.processed}
               /\ p + 1 - st.processed \in 1 .. items - 1
               /\ after.produced = p + 1
               /\ after.signal
  BY <1>4, CalledCounts
<1>. HIDE DEF after
<1>8. done = [after EXCEPT !.uptoN = upto]
  BY <1>5, <1>6, <1>7
<1>. HIDE DEF upto
<1>9. /\ done.processed = after.processed /\ done.seenSoFar = after.seenSoFar
      /\ done.produced = after.produced /\ done.signal = after.signal
      /\ done.uptoN = upto
  BY <1>7, <1>8 DEF KernelType
<1>10. ASSUME NEW p \in Nth(st, items), p + 1 - st.processed < items
       PROVE  done.produced = p + 1 /\ done.signal
  <2>1. p + 1 - st.processed \in PosnAfterNth(st, items)
    BY <1>10 DEF PosnAfterNth
  <2>2. PICK q \in bits : Nth(st, items) = {q} /\ after.produced = q + 1 /\ after.signal
    BY <1>7, <2>1
  <2>. QED
    BY <1>9, <2>2
<1>. QED
  BY <1>7, <1>9, <1>10 DEF upto

\* The counts and the output of such an instance.
LEMMA KeptState ==
    ASSUME NEW st \in KernelType, Kept(st)
    PROVE  /\ st.processed \in Nat /\ st.uptoN \in SUBSET Nat
           /\ st.produced = st.processed
           /\ Below(st.uptoN, st.processed) = Below(bits, st.processed)
           /\ st.seenSoFar = Cardinality(Below(bits, st.processed)) /\ st.seenSoFar < N
<1>1. Length \in Nat /\ BlockCeiling(Length) \in Nat
  BY CeilingBounds, UntilNAssumption
<1>2. \A p \in Positions : p \in Nat
  BY <1>1 DEF Positions
<1>3. st.processed \in 0 .. Length /\ st.uptoN \in SUBSET Positions
  BY DEF KernelType
<1>4. st.processed \in Nat /\ st.uptoN \in SUBSET Nat
  BY <1>1, <1>2, <1>3
<1>. QED
  BY <1>4, Zenon DEF Kept

\* Without the Nth bit, whole blocks are passed on as they are.
LEMMA WholeBlocksKept ==
    ASSUME TypeOK, NEW st \in KernelType, Kept(st), NEW avail \in Nat,
           IsBlocks(st.processed), st.processed <= avail, avail <= Length,
           NEW items \in Nat, items = BlockFloor(avail - st.processed),
           NthWithin(st.processed, st.processed + items) = {},
           NEW done, done = DoWholeBlocks(st, avail)
    PROVE  Kept(done) /\ done.processed = st.processed + items /\ done.signal = st.signal
<1>1. /\ st.processed \in Nat /\ st.uptoN \in SUBSET Nat /\ st.produced = st.processed
      /\ Below(st.uptoN, st.processed) = Below(bits, st.processed)
      /\ st.seenSoFar = Cardinality(Below(bits, st.processed)) /\ st.seenSoFar < N
  BY KeptState
<1>2. CASE items = 0
  <2>1. done = st
    BY <1>2 DEF DoWholeBlocks
  <2>2. done.processed = st.processed + items
    BY <1>1, <1>2, <2>1
  <2>. QED
    BY <2>1, <2>2
<1>3. CASE items # 0
  <2>1. BlockCeiling(items) = items
    <3>1. avail - st.processed \in Nat
      BY <1>1
    <3>2. IsBlocks(items)
      BY <3>1, FloorBounds
    <3>. QED
      BY <3>2, WholeBlocks
  <2>2. Nth(st, items) = {}
    BY <2>1, NthIsNthBit
  <2>3. PosnAfterNth(st, items) = {}
    BY <2>2 DEF PosnAfterNth
  <2>4. CopiedItems(st, items) = items /\ StoredItems(st, items) = items
    BY <2>1, <2>2, <2>3, StoredSpans
  <2>5. /\ done.processed = st.processed + items
        /\ done.seenSoFar = SeenAfter(st, items)
        /\ done.uptoN = Overwrite(st.uptoN, st.processed, items, StoredBits(st, items))
        /\ done.produced = done.processed /\ done.signal = st.signal
    BY <1>1, <1>3, <2>3, <2>4, WholeBlocksStored
  <2>6. Below(done.uptoN, st.processed + items) = Below(bits, st.processed + items)
    <3>1. \A o \in Nat : o < items =>
             (o \in StoredBits(st, items) <=> st.processed + o \in bits)
      BY <2>3, <2>4, StoredCopies
    <3>2. StoredBits(st, items) \in SUBSET Nat
      BY StoredAreBits
    <3>. QED
      BY <1>1, <2>5, <3>1, <3>2, OverwriteCopies
  <2>7. SeenAfter(st, items) = Cardinality(Below(bits, st.processed + items))
    <3>. DEFINE from == st.processed
                end  == st.processed + items
    <3>1. SeenAfter(st, items) = st.seenSoFar + Cardinality(Looked(st, items))
      <4>1. {b \in Looked(st, items) : \A p \in Nth(st, items) :
                b < st.processed + GroupFloor(p - st.processed)} = Looked(st, items)
        BY <2>2
      <4>. QED
        BY <4>1 DEF SeenAfter
    <3>2. Looked(st, items) = {b \in bits : from <= b /\ b < end}
      <4>1. \A b \in bits : b \in st.processed .. st.processed + BlockCeiling(items) - 1
                               <=> from <= b /\ b < end
        <5>1. \A b \in bits : b \in Int
          BY BitsAreFinite
        <5>. QED
          BY <1>1, <2>1, <5>1
      <4>. HIDE DEF from, end
      <4>. QED
        BY <4>1, Zenon DEF Looked
    <3>3. Cardinality(Below(bits, end)) =
             Cardinality(Below(bits, from)) + Cardinality({b \in bits : from <= b /\ b < end})
      <4>1. from \in Int /\ end \in Int /\ from <= end
        BY <1>1
      <4>2. bits \in SUBSET Int /\ IsFiniteSet(bits)
        BY BitsAreFinite
      <4>. HIDE DEF from, end
      <4>. QED
        BY <4>1, <4>2, CountsAdd
    <3>4. st.seenSoFar = Cardinality(Below(bits, from))
      BY <1>1
    <3>. HIDE DEF from
    <3>. QED
      BY <3>1, <3>2, <3>3, <3>4 DEF end
  <2>8. Cardinality(Below(bits, st.processed + items)) < N
    <3>1. st.processed + items \in Nat /\ st.processed <= st.processed + items
      BY <1>1
    <3>2. Cardinality(Below(bits, st.processed)) < N
      BY <1>1
    <3>. QED
      BY <1>1, <3>1, <3>2, StillFewer
  <2>. QED
    BY <2>5, <2>6, <2>7, <2>8 DEF Kept
<1>. QED
  BY <1>2, <1>3

\* With it before their end, the output ends with it.
LEMMA WholeBlocksEnd ==
    ASSUME TypeOK, NEW st \in KernelType, Kept(st), NEW avail \in Nat,
           IsBlocks(st.processed), st.processed <= avail, avail <= Length,
           NEW items \in Nat, items = BlockFloor(avail - st.processed),
           NEW p \in NthWithin(st.processed, st.processed + items),
           p + 1 # st.processed + items,
           NEW done, done = DoWholeBlocks(st, avail)
    PROVE  /\ Below(done.uptoN, done.produced) = Below(bits, p + 1)
           /\ done.signal
<1>. DEFINE end == p + 1 - st.processed
<1>1. /\ st.processed \in Nat /\ st.uptoN \in SUBSET Nat /\ st.produced = st.processed
      /\ Below(st.uptoN, st.processed) = Below(bits, st.processed)
  BY KeptState
<1>2. p \in bits /\ p \in Nat /\ st.processed <= p /\ p < st.processed + items
  BY BitsAreFinite DEF NthWithin
<1>3. end \in Nat /\ end < items /\ items # 0 /\ st.processed + end = p + 1
      /\ p - st.processed \in Nat /\ end = (p - st.processed) + 1
  BY <1>1, <1>2
<1>4. BlockCeiling(items) = items
  <2>1. avail - st.processed \in Nat
    BY <1>1
  <2>2. IsBlocks(items)
    BY <2>1, FloorBounds
  <2>. QED
    BY <2>2, WholeBlocks
<1>5. p \in Nth(st, items)
  BY <1>4, NthIsNthBit
<1>6. PosnAfterNth(st, items) = {end}
  <2>1. Nth(st, items) = {p}
    BY <1>5, NthIsOne
  <2>. QED
    BY <1>3, <2>1 DEF PosnAfterNth
<1>. HIDE DEF end
<1>7. /\ end <= CopiedItems(st, items) /\ end <= StoredItems(st, items)
      /\ StoredItems(st, items) \in Nat
  <2>1. CopiedItems(st, items) \in Nat /\ p - st.processed < CopiedItems(st, items)
    BY <1>5, StoredSpans
  <2>2. end <= StoredItems(st, items) /\ StoredItems(st, items) \in Nat
    BY <1>6, StoredSpans
  <2>. QED
    BY <1>3, <2>1, <2>2
<1>8. /\ done.uptoN = Overwrite(st.uptoN, st.processed, StoredItems(st, items),
                                StoredBits(st, items))
      /\ done.produced = p + 1 /\ done.signal
  <2>1. p + 1 - st.processed < items
    BY <1>3 DEF end
  <2>. QED
    BY <1>1, <1>3, <1>5, <2>1, WholeBlocksStored
<1>9. \A o \in Nat : o < end => (o \in StoredBits(st, items) <=> st.processed + o \in bits)
  <2>1. \A posn \in PosnAfterNth(st, items) : end <= posn /\ posn \in Nat
    BY <1>3, <1>6
  <2>2. end <= items
    BY <1>3
  <2>. QED
    BY <1>3, <1>7, <2>1, <2>2, StoredCopies
<1>10. StoredBits(st, items) \in SUBSET Nat
  BY StoredAreBits
<1>11. Below(done.uptoN, st.processed + end) = Below(bits, st.processed + end)
  BY <1>1, <1>3, <1>7, <1>8, <1>9, <1>10, OverwriteCopies
<1>. QED
  BY <1>3, <1>8, <1>11

\* Without the Nth bit before the end of the input, the final block is passed on
\* up to that end.
LEMMA FinalBlockKept ==
    ASSUME TypeOK, NEW st \in KernelType, Kept(st), IsBlocks(st.processed),
           st.processed <= Length, Length < st.processed + BlockSize,
           NthWithin(st.processed, Length) = {},
           NEW done \in DoFinalBlock(st, Length)
    PROVE  /\ done.processed = Length /\ done.produced = Length
           /\ Below(done.uptoN, Length) = Below(bits, Length)
<1>. DEFINE items == Length - st.processed
            after == Called(st, items)
<1>1. /\ st.processed \in Nat /\ st.uptoN \in SUBSET Nat /\ st.produced = st.processed
      /\ Below(st.uptoN, st.processed) = Below(bits, st.processed)
      /\ Length \in Nat
  BY KeptState, UntilNAssumption
<1>2. /\ items \in Nat /\ st.processed + items = Length
      /\ st.processed + items <= Length /\ st.produced + items <= Length
  BY <1>1
<1>3. BlockFloor(st.produced) = st.processed
  BY <1>1, WholeBlocks
<1>. HIDE DEF items
<1>4. \A p \in Nth(st, items) : p \in Nat /\ Length <= p
  <2>1. \A p \in Nth(st, items) : p \in NthWithin(st.processed, st.processed + BlockCeiling(items))
    BY <1>2, NthIsNthBit
  <2>2. \A p \in Nth(st, items) : /\ p \in bits /\ p \in Nat /\ st.processed <= p
                                  /\ Rank(bits, p) = N
    BY <2>1, BitsAreFinite DEF NthWithin
  <2>3. \A p \in bits : st.processed <= p /\ Rank(bits, p) = N => ~(p < Length)
    BY DEF NthWithin
  <2>. QED
    BY <1>1, <2>2, <2>3
<1>5. PosnAfterNth(st, items) = {}
  <2>. SUFFICES ASSUME NEW p \in Nth(st, items), p + 1 - st.processed < items PROVE FALSE
    BY DEF PosnAfterNth
  <2>. QED
    BY <1>1, <1>2, <1>4
<1>6. items <= CopiedItems(st, items)
  <2>1. CopiedItems(st, items) \in Nat /\ items <= BlockCeiling(items)
    BY <1>2, StoredSpans, CeilingBounds
  <2>2. CASE Nth(st, items) = {}
    BY <1>2, <2>1, <2>2, StoredSpans
  <2>3. ASSUME NEW p \in Nth(st, items) PROVE items <= CopiedItems(st, items)
    <3>1. p - st.processed < CopiedItems(st, items)
      BY <1>2, StoredSpans
    <3>. QED
      BY <1>1, <1>2, <1>4, <2>1, <3>1
  <2>. QED
    BY <2>2, <2>3
<1>7. /\ after \in KernelType /\ after.uptoN = st.uptoN
      /\ after.processed = Length /\ after.produced = Length
  <2>1. /\ after \in KernelType /\ after.uptoN = st.uptoN
        /\ after.processed = st.processed + items
        /\ \/ after.produced = st.produced + items
           \/ \E p : PosnAfterNth(st, items) = {p + 1 - st.processed}
    BY <1>2, CalledCounts
  <2>. HIDE DEF after
  <2>. QED
    BY <1>1, <1>2, <1>5, <2>1
<1>8. PICK beyond \in SUBSET (TempBlocks * BlockSize .. after.produced - st.processed - 1) :
        done = [after EXCEPT
                   !.uptoN = Overwrite(@, st.processed, after.produced - st.processed,
                                       TempBits(st, items) \cup beyond),
                   !.signal = TRUE]
  BY <1>3 DEF DoFinalBlock, items
<1>. DEFINE temp == TempBits(st, items) \cup beyond
            upto == Overwrite(st.uptoN, st.processed, items, temp)
<1>. HIDE DEF after
<1>9. after.produced - st.processed = items
  BY <1>7 DEF items
<1>10. /\ done = [after EXCEPT !.uptoN = upto, !.signal = TRUE]
       /\ beyond \in SUBSET (TempBlocks * BlockSize .. items - 1)
  BY <1>7, <1>8, <1>9
<1>b. temp = TempBits(st, items)
  <2>1. items < TempBlocks * BlockSize /\ TempBlocks * BlockSize \in Nat
    BY <1>1, <1>2, UntilNAssumption DEF TempBlocks
  <2>2. TempBlocks * BlockSize .. items - 1 = {}
    BY <1>2, <2>1
  <2>. QED
    BY <1>10, <2>2
<1>. HIDE DEF temp
<1>11. temp \in SUBSET Nat
       /\ \A o \in Nat : o < items => (o \in temp <=> st.processed + o \in bits)
  <2>1. CASE items = 0
    <3>1. temp = {o - st.processed : o \in st.uptoN \cap (st.processed .. st.processed - 1)}
      BY <1>1, <1>3, <1>b, <2>1 DEF TempBits
    <3>2. st.processed .. st.processed - 1 = {}
      BY <1>1
    <3>3. temp = {}
      BY <3>1, <3>2
    <3>. QED
      BY <2>1, <3>3
  <2>2. CASE items # 0
    <3>1. temp = StoredBits(st, items)
      BY <1>b, <2>2 DEF TempBits
    <3>2. \A o \in Nat : o < items => (o \in StoredBits(st, items) <=> st.processed + o \in bits)
      BY <1>2, <1>5, <1>6, StoredCopies
    <3>3. StoredBits(st, items) \in SUBSET Nat
      BY <1>2, StoredAreBits
    <3>. QED
      BY <3>1, <3>2, <3>3
  <2>. QED
    BY <2>1, <2>2
<1>12. Below(upto, Length) = Below(bits, Length)
  <2>1. Below(upto, st.processed + items) = Below(bits, st.processed + items)
    BY <1>1, <1>2, <1>11, OverwriteCopies
  <2>. QED
    BY <1>2, <2>1
<1>. HIDE DEF upto
<1>13. done.processed = Length /\ done.produced = Length /\ done.uptoN = upto
  BY <1>7, <1>10 DEF KernelType
<1>. QED
  BY <1>12, <1>13

-----------------------------------------------------------------------------
(* The output from segment to segment *)

\* A segment's end is a multiple of the segment size.
LEMMA SegmentEnds ==
    ASSUME NEW n \in Nat, NEW p \in Nat, p + 1 = n * SegmentSize
    PROVE  EndsSegment(p)
<1>. DEFINE q == (p + 1) \div SegmentSize
            r == (p + 1) % SegmentSize
<1>1. SegmentSize \in Nat \ {0}
  BY Segments
<1>2. q \in Nat /\ r \in 0 .. SegmentSize - 1 /\ p + 1 = SegmentSize * q + r
  BY <1>1
<1>. HIDE DEF q, r
<1>3. r = (n - q) * SegmentSize
  BY <1>1, <1>2
<1>4. n - q \in Int /\ r < SegmentSize /\ r >= 0
  BY <1>1, <1>2
<1>5. ASSUME NEW k \in Int, k >= 1 PROVE k * SegmentSize >= SegmentSize
  BY <1>1, <1>5
<1>6. ASSUME NEW k \in Int, k <= -1 PROVE k * SegmentSize < 0
  BY <1>1, <1>6
<1>7. n - q = 0
  <2>. DEFINE k == n - q
  <2>1. k \in Int /\ r = k * SegmentSize
    BY <1>3, <1>4
  <2>. HIDE DEF k
  <2>2. ~(k >= 1) /\ ~(k <= -1)
    BY <1>1, <1>4, <1>5, <1>6, <2>1
  <2>3. k = 0
    BY <2>1, <2>2
  <2>. QED
    BY <2>3 DEF k
<1>8. r = 0
  BY <1>1, <1>3, <1>7
<1>. QED
  BY <1>8 DEF r, EndsSegment

\* The Nth bit is not the last item of a segment.
NoneEndsSegment == \A p \in NthBits : ~EndsSegment(p)

\* The inductive invariant: until it signals, UntilN has passed on everything.
OutputInv ==
    /\ NoneEndsSegment /\ ~kernel.signal => Kept(kernel)
    /\ AllOfFewer
    /\ FirstNOfMore

\* The bits before an end of the input, and those of the Nth before it.
LEMMA BeforeTheEnd ==
    ASSUME TypeOK, NEW end \in Nat, end <= Length
    PROVE  /\ {b \in ValidBits : b < end} = Below(bits, end)
           /\ \A from : NthWithin(from, end) \subseteq NthBits
           /\ Cardinality(ValidBits) < N => NthBits = {}
<1>1. Length \in Nat /\ bits \in SUBSET Nat
  BY BitsAreFinite, UntilNAssumption
<1>2. \A b \in bits : b < end => b \in 0 .. Length - 1 /\ b < Length
  BY <1>1
<1>3. {b \in ValidBits : b < end} = Below(bits, end)
  BY <1>2, Zenon DEF ValidBits, Below
<1>4. ASSUME NEW from, NEW p \in NthWithin(from, end) PROVE p \in NthBits
  <2>1. p \in bits /\ p < end /\ Rank(bits, p) = N
    BY DEF NthWithin
  <2>. QED
    BY <1>2, <2>1, NthBitsRank
<1>5. ASSUME Cardinality(ValidBits) < N, NEW p \in NthBits PROVE FALSE
  <2>1. N <= Cardinality(ValidBits) /\ N \in Nat /\ Cardinality(ValidBits) \in Nat
    BY NthBitsRank, BitsAreFinite DEF ValidBits
  <2>. QED
    BY <1>5, <2>1
<1>. QED
  BY <1>3, <1>4, <1>5

\* What a call that is not the final one leaves.
LEMMA SegmentOutput ==
    ASSUME TypeOK, CountsInv, ~kernel.signal, ~Final, NoneEndsSegment, Kept(kernel),
           NEW after \in DoSegmentResults(kernel)
    PROVE  \/ Kept(after) /\ after.signal = FALSE /\ after.processed = Avail
           \/ /\ after.signal /\ NthBits # {}
              /\ Below(after.uptoN, after.produced) = FirstBits(N)
<1>. DEFINE from == kernel.processed
<1>1. /\ kernel \in KernelType /\ kernel.signal = FALSE /\ from \in Nat /\ IsBlocks(from)
      /\ from <= Avail /\ Avail \in Nat /\ Avail <= Length
      /\ Avail = from + SegmentSize /\ Avail = (segNo + 1) * SegmentSize
      /\ BlockFloor(Avail - from) = SegmentSize
      /\ SegmentSize \in Nat
  BY SegmentItems, BitsAreFinite, Segments DEF KernelType
<1>2. after = DoWholeBlocks(kernel, Avail)
  BY DEF DoSegmentResults
<1>3. CASE NthWithin(from, from + SegmentSize) = {}
  BY <1>1, <1>2, <1>3, WholeBlocksKept
<1>4. ASSUME NEW p \in NthWithin(from, from + SegmentSize)
      PROVE  /\ after.signal /\ NthBits # {}
             /\ Below(after.uptoN, after.produced) = FirstBits(N)
  <2>1. p \in NthBits
    BY <1>1, BeforeTheEnd
  <2>2. p \in Nat
    BY BitsAreFinite DEF NthWithin
  <2>3. p + 1 # from + SegmentSize
    <3>1. segNo + 1 \in Nat
      BY DEF TypeOK
    <3>2. p + 1 # (segNo + 1) * SegmentSize
      BY <2>1, <2>2, <3>1, SegmentEnds DEF NoneEndsSegment
    <3>. QED
      BY <1>1, <3>2
  <2>4. Below(after.uptoN, after.produced) = Below(bits, p + 1) /\ after.signal
    BY <1>1, <1>2, <2>3, WholeBlocksEnd
  <2>5. FirstBits(N) = Below(bits, p + 1)
    BY <2>1, NthBitsRank
  <2>. QED
    BY <2>1, <2>4, <2>5
<1>. QED
  BY <1>3, <1>4

\* What the final call leaves of fewer than N bits.
LEMMA FinalOutput ==
    ASSUME TypeOK, CountsInv, ~kernel.signal, Final, NthBits = {}, Kept(kernel),
           NEW after \in DoSegmentResults(kernel)
    PROVE  /\ after.processed = Length /\ after.produced = Length
           /\ Below(after.uptoN, Length) = Below(bits, Length)
<1>. DEFINE from  == kernel.processed
            items == BlockFloor(Length - from)
            done  == DoWholeBlocks(kernel, Length)
<1>1. /\ kernel \in KernelType /\ from \in Nat /\ IsBlocks(from)
      /\ from <= Length /\ Length \in Nat /\ Avail = Length
      /\ kernel.produced = from
  BY SegmentItems, BitsAreFinite DEF Kept
<1>2. after \in DoFinalBlock(done, Length)
  BY <1>1 DEF DoSegmentResults
<1>3. Length - from \in Nat
  BY <1>1
<1>4. /\ items \in Nat /\ IsBlocks(items) /\ items <= Length - from
      /\ from + items \in Nat /\ from + items <= Length
      /\ Length < (from + items) + BlockSize
  <2>1. /\ items \in Nat /\ IsBlocks(items) /\ items <= Length - from
        /\ Length - from < items + BlockSize /\ BlockSize \in Nat
    BY <1>3, FloorBounds, UntilNAssumption
  <2>. HIDE DEF items
  <2>. QED
    BY <1>1, <2>1
<1>5. NthWithin(from, from + items) = {}
  BY <1>4, BeforeTheEnd
<1>6. done \in KernelType
  BY <1>1, WholeBlocksCounts
<1>. HIDE DEF items
<1>7. Kept(done) /\ done.processed = from + items
  BY <1>1, <1>4, <1>5, WholeBlocksKept DEF items
<1>. HIDE DEF done
<1>8. IsBlocks(done.processed)
  BY <1>1, <1>4, <1>7, BlocksAdd
<1>9. NthWithin(done.processed, Length) = {}
  BY <1>1, BeforeTheEnd
<1>. QED
  BY <1>1, <1>2, <1>4, <1>6, <1>7, <1>8, <1>9, FinalBlockKept

\* A call keeps the invariant.
LEMMA OutputNext ==
    ASSUME TypeOK, CountsInv, OutputInv, DoSegment
    PROVE  OutputInv'
<1>. DEFINE Out(st) == Below(st.uptoN, st.produced)
            few == Cardinality(ValidBits) < N
<1>1. /\ ~kernel.signal /\ kernel' \in DoSegmentResults(kernel) /\ segNo' = segNo + 1
      /\ N' = N /\ bits' = bits
  BY DEF DoSegment
<1>2. NoneEndsSegment => Kept(kernel)
  BY <1>1 DEF OutputInv
<1>3. few => NthBits = {} /\ NoneEndsSegment
  <2>1. 0 \in Nat /\ 0 <= Length
    BY UntilNAssumption
  <2>. QED
    BY <2>1, BeforeTheEnd DEF NoneEndsSegment
<1>4. /\ Avail \in Nat /\ Avail <= Length
      /\ Final => kernel'.signal
      /\ Length \in Nat
  BY <1>1, SegmentItems, SegmentCounts, UntilNAssumption
<1>5. NoneEndsSegment /\ ~kernel'.signal => Kept(kernel')
  BY <1>1, <1>2, <1>4, SegmentOutput
<1>6. few => /\ kernel'.produced = kernel'.processed
             /\ Out(kernel') = {b \in ValidBits : b < kernel'.processed}
             /\ kernel'.signal => kernel'.processed = Length
  <2>. SUFFICES ASSUME few
                PROVE  /\ kernel'.produced = kernel'.processed
                       /\ Out(kernel') = {b \in ValidBits : b < kernel'.processed}
                       /\ kernel'.signal => kernel'.processed = Length
    OBVIOUS
  <2>1. CASE Final
    <3>1. /\ kernel'.processed = Length /\ kernel'.produced = Length
          /\ Out(kernel') = Below(bits, Length)
      BY <1>1, <1>2, <1>3, <2>1, FinalOutput
    <3>. QED
      BY <1>4, <3>1, BeforeTheEnd
  <2>2. CASE ~Final
    <3>1. Kept(kernel') /\ kernel'.signal = FALSE /\ kernel'.processed = Avail
      BY <1>1, <1>2, <1>3, <2>2, SegmentOutput
    <3>2. /\ kernel'.produced = kernel'.processed
          /\ Out(kernel') = Below(bits, kernel'.processed)
      BY <3>1 DEF Kept
    <3>. QED
      BY <1>4, <3>1, <3>2, BeforeTheEnd
  <2>. QED
    BY <2>1, <2>2
<1>7. kernel'.signal /\ (segNo + 1) * SegmentSize <= Length /\ NoneEndsSegment =>
         Out(kernel') = FirstBits(N)
  <2>. SUFFICES ASSUME kernel'.signal, (segNo + 1) * SegmentSize <= Length, NoneEndsSegment
                PROVE  Out(kernel') = FirstBits(N)
    OBVIOUS
  <2>1. ~Final
    <3>1. segNo + 1 \in Nat
      BY DEF TypeOK
    <3>2. (segNo + 1) * SegmentSize \in Nat
      BY <3>1, Segments
    <3>. QED
      BY <1>4, <3>2 DEF Final
  <2>. QED
    BY <1>1, <1>2, <2>1, SegmentOutput
<1>8. /\ ValidBits' = ValidBits /\ NthBits' = NthBits /\ FirstBits(N)' = FirstBits(N)
      /\ NoneEndsSegment' = NoneEndsSegment
      /\ Output' = Out(kernel')
  BY <1>1 DEF ValidBits, NthBits, FirstBits, NoneEndsSegment, EndsSegment, Output, Below
<1>9. (NoneEndsSegment /\ ~kernel.signal => Kept(kernel))'
  BY <1>1, <1>5, <1>8 DEF Kept, Below
<1>. HIDE DEF Out
<1>10. AllOfFewer'
  BY <1>1, <1>6, <1>8 DEF AllOfFewer
<1>11. FirstNOfMore'
  <2>1. FirstNOfMore' <=>
           (kernel'.signal /\ (segNo + 1) * SegmentSize <= Length /\ NoneEndsSegment' =>
              Output' = FirstBits(N)')
    BY <1>1 DEF FirstNOfMore, NoneEndsSegment, NthBits
  <2>. QED
    BY <1>7, <1>8, <2>1
<1>. QED
  BY <1>9, <1>10, <1>11 DEF OutputInv

\* It holds before the first segment.
LEMMA OutputInit ==
    ASSUME Init
    PROVE  OutputInv
<1>1. TypeOK /\ kernel.processed = 0 /\ kernel.produced = 0 /\ kernel.seenSoFar = 0
      /\ kernel.signal = FALSE /\ kernel.uptoN = {}
  BY CountsInit DEF Init
<1>2. bits \in SUBSET Nat /\ N \in Nat \ {0}
  BY <1>1, BitsAreFinite
<1>3. Below(bits, 0) = {} /\ Output = {}
  <2>1. \A b \in bits : ~(b < 0)
    BY <1>2
  <2>. QED
    BY <1>1, <2>1, Zenon DEF Below, Output
<1>4. Kept(kernel)
  <2>1. Below(kernel.uptoN, kernel.produced) = {}
    BY <1>1 DEF Below
  <2>2. Cardinality(Below(bits, 0)) = 0
    BY <1>3, FS_EmptySet
  <2>. QED
    BY <1>1, <1>2, <1>3, <2>1, <2>2 DEF Kept
<1>5. {b \in ValidBits : b < kernel.processed} = {}
  BY <1>1, <1>2 DEF ValidBits
<1>. QED
  BY <1>1, <1>3, <1>4, <1>5 DEF OutputInv, AllOfFewer, FirstNOfMore

\* The invariant holds of every behaviour.
LEMMA OutputInvariant == Spec => []OutputInv
<1>1. Init => TypeOK /\ CountsInv /\ OutputInv
  BY CountsInit, OutputInit
<1>2. TypeOK /\ CountsInv /\ OutputInv /\ [Next]_vars => TypeOK' /\ CountsInv' /\ OutputInv'
  <2>. SUFFICES ASSUME TypeOK, CountsInv, OutputInv, [Next]_vars
                PROVE  TypeOK' /\ CountsInv' /\ OutputInv'
    OBVIOUS
  <2>1. CASE DoSegment
    BY <2>1, CountsNext, OutputNext
  <2>2. CASE UNCHANGED vars
    BY <2>2, CountsNext DEF vars, OutputInv, NoneEndsSegment, NthBits, FirstBits,
       ValidBits, EndsSegment, Kept, Below, AllOfFewer, FirstNOfMore, Output
  <2>. QED
    BY <2>1, <2>2 DEF Next, Terminated
<1>. QED
  BY <1>1, <1>2, PTL DEF Spec

\* Of fewer than N match bits the match scanner gets every one and no other,
\* however the segments, the block groups and the last block divide the input
\* (until_n.cpp:33-36).
THEOREM AllBitsOfFewer == Spec => []AllOfFewer
<1>1. OutputInv => AllOfFewer
  BY DEF OutputInv
<1>. QED
  BY <1>1, OutputInvariant, PTL

\* When UntilN ends the pipeline before the final segment it gets the first N
\* match bits, unless the Nth is the last item of a segment (until_n.cpp:27-29).
THEOREM FirstBitsOfMore == Spec => []FirstNOfMore
<1>1. OutputInv => FirstNOfMore
  BY DEF OutputInv
<1>. QED
  BY <1>1, OutputInvariant, PTL

=============================================================================
