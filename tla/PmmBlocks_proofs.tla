------------------------- MODULE PmmBlocks_proofs -------------------------
(***************************************************************************)
(* Facts about blocks and their bitmaps, for every word size, that the     *)
(* proofs about the loader and about the kernel rest on.                   *)
(***************************************************************************)
EXTENDS PmmBlocks, FiniteSetTheorems, TLAPS

(* The words of a bitmap have a bit for every frame of the block: the      *)
(* rounding up of frame_map_size.                                          *)
LEMMA MapCoversBlock ==
  ASSUME NEW n \in Nat
  PROVE  /\ frame_map_size(n) \in Nat
         /\ n <= WordBits * frame_map_size(n)
         /\ 0 .. n - 1 \subseteq MapBits(n)
         /\ MapBits(n) \subseteq Nat
         /\ IsFiniteSet(MapBits(n))
<1> DEFINE a == n + WordBits - 1
           w == a \div WordBits
<1>1. WordBits \in Nat /\ WordBits > 0  BY WordBitsAssumption
<1>2. a \in Nat  BY <1>1
<1>3. w \in Int /\ a = WordBits * w + (a % WordBits)  BY <1>1, <1>2, Z3
<1>4. a % WordBits \in 0 .. WordBits - 1  BY <1>1, <1>2, Z3
<1> HIDE DEF w
<1>5. WordBits * w \in Int  BY <1>1, <1>3
<1>6. n <= WordBits * w  BY <1>1, <1>3, <1>4, <1>5
<1>7. w >= 0
  <2> SUFFICES ASSUME w < 0 PROVE FALSE  BY <1>3
  <2>1. WordBits * w <= WordBits * (-1)  BY <1>1, <1>3, Z3
  <2> QED  BY <2>1, <1>1, <1>5, <1>6
<1>8. frame_map_size(n) = w  BY DEF frame_map_size, w
<1>9. MapBits(n) = 0 .. WordBits * w - 1  BY <1>8 DEF MapBits
<1>10. IsFiniteSet(0 .. WordBits * w - 1)  BY <1>5, FS_Interval
<1> QED  BY <1>3, <1>5, <1>6, <1>7, <1>8, <1>9, <1>10

(* A run of count frames has count elements.                               *)
LEMMA IntervalCardinality ==
  ASSUME NEW start \in Int, NEW count \in Nat
  PROVE  /\ IsFiniteSet(start .. start + count - 1)
         /\ Cardinality(start .. start + count - 1) = count
<1> DEFINE end == start + count - 1
<1>1. /\ IsFiniteSet(start .. end)
      /\ Cardinality(start .. end) = IF start > end THEN 0 ELSE end - start + 1
  BY FS_Interval
<1>2. (IF start > end THEN 0 ELSE end - start + 1) = count  OBVIOUS
<1> QED  BY <1>1, <1>2

(* The first n indexes.                                                    *)
LEMMA SegmentCardinality ==
  ASSUME NEW n \in Nat
  PROVE  /\ IsFiniteSet(0 .. n - 1) /\ Cardinality(0 .. n - 1) = n
         /\ IsFiniteSet(1 .. n) /\ Cardinality(1 .. n) = n
<1> DEFINE end == n - 1
<1>1. /\ IsFiniteSet(0 .. end)
      /\ Cardinality(0 .. end) = IF 0 > end THEN 0 ELSE end - 0 + 1
  BY FS_Interval
<1>2. (IF 0 > end THEN 0 ELSE end - 0 + 1) = n  OBVIOUS
<1>3. /\ IsFiniteSet(1 .. n)
      /\ Cardinality(1 .. n) = IF 1 > n THEN 0 ELSE n - 1 + 1
  BY FS_Interval
<1>4. (IF 1 > n THEN 0 ELSE n - 1 + 1) = n  OBVIOUS
<1> QED  BY <1>1, <1>2, <1>3, <1>4

(* The clear bits of a block's bitmap are finitely many natural numbers.   *)
LEMMA FreeBitsFinite ==
  ASSUME NEW b \in pm_block
  PROVE  /\ FreeBits(b) \subseteq Nat
         /\ IsFiniteSet(FreeBits(b))
         /\ Cardinality(FreeBits(b)) \in Nat
<1>1. b.frames_total \in Nat  BY WrapAssumption DEF pm_block
<1>2. FreeBits(b) \subseteq MapBits(b.frames_total)  BY DEF FreeBits
<1>3. IsFiniteSet(FreeBits(b))  BY <1>1, <1>2, MapCoversBlock, FS_Subset
<1>4. FreeBits(b) \subseteq Nat  BY <1>1, <1>2, MapCoversBlock
<1> QED  BY <1>3, <1>4, FS_CardinalityType

(* The clear bits of a consistent block stand for frames of the block, and *)
(* none of them is recorded as used.                                       *)
LEMMA FreeFramesInBlock ==
  ASSUME NEW b \in pm_block, BlockConsistent(b)
  PROVE  /\ FreeFrames(b) \subseteq Frames(b)
         /\ UsedFrames(b) \subseteq Frames(b)
         /\ FreeFrames(b) \cap UsedFrames(b) = {}
<1>1. b.address \in Nat /\ b.frames_total \in Nat  BY WrapAssumption DEF pm_block
<1>2. FreeBits(b) \subseteq Nat  BY FreeBitsFinite
<1>3. \A bit \in FreeBits(b) : bit < b.frames_total /\ bit \notin b.map
  BY DEF BlockConsistent, FreeBits
<1>4. FreeFrames(b) \subseteq Frames(b)  BY <1>1, <1>2, <1>3 DEF FreeFrames, Frames
<1>5. UsedFrames(b) \subseteq Frames(b)  BY DEF UsedFrames
<1>6. \A f \in FreeFrames(b) : f \notin UsedFrames(b)
  <2> SUFFICES ASSUME NEW bit \in FreeBits(b)
               PROVE  b.address + bit \notin UsedFrames(b)
    BY DEF FreeFrames
  <2>1. (b.address + bit) - b.address = bit  BY <1>1, <1>2
  <2> QED  BY <2>1, <1>3 DEF UsedFrames
<1> QED  BY <1>4, <1>5, <1>6
(* Division by the word size, as the provers can use it.                   *)
LEMMA WordDivision ==
  ASSUME NEW a \in Nat
  PROVE  /\ a \div WordBits \in Int /\ WordBits * (a \div WordBits) \in Int
         /\ a % WordBits \in 0 .. WordBits - 1
         /\ a = WordBits * (a \div WordBits) + (a % WordBits)
<1>1. WordBits \in Nat /\ WordBits > 0  BY WordBitsAssumption
<1>2. a \div WordBits \in Int  BY <1>1, Z3
<1>3. a % WordBits \in 0 .. WordBits - 1  BY <1>1, Z3
<1>4. a = WordBits * (a \div WordBits) + (a % WordBits)  BY <1>1, Z3
<1>5. WordBits * (a \div WordBits) \in Int  BY <1>1, <1>2
<1> QED  BY <1>2, <1>3, <1>4, <1>5

(* One word more is WordBits bits more.                                    *)
LEMMA WordStep ==
  ASSUME NEW x \in Int, NEW y \in Int
  PROVE  /\ WordBits * x \in Int
         /\ WordBits * (x + y) = WordBits * x + WordBits * y
         /\ x < y => WordBits * x + WordBits <= WordBits * y
<1>1. WordBits \in Nat /\ WordBits > 0  BY WordBitsAssumption
<1>2. WordBits * x \in Int  BY <1>1
<1>3. WordBits * (x + y) = WordBits * x + WordBits * y  BY <1>1, Z3
<1>4. x < y => WordBits * x + WordBits <= WordBits * y  BY <1>1, Z3
<1> QED  BY <1>2, <1>3, <1>4

(* The rounding up of frame_map_size wastes less than one word, and the    *)
(* bits it adds are those from n to the end of the last word.              *)
LEMMA MapSize ==
  ASSUME NEW n \in Nat
  PROVE  /\ WordBits * frame_map_size(n) <= n + WordBits - 1
         /\ n % WordBits = 0 => WordBits * frame_map_size(n) = n
         /\ n % WordBits # 0 => WordBits * (frame_map_size(n) - 1) = n - (n % WordBits)
<1> DEFINE a == n + WordBits - 1
           w == frame_map_size(n)
           q == n \div WordBits
           r == n % WordBits
<1>1. WordBits \in Nat /\ WordBits > 0  BY WordBitsAssumption
<1>2. a \in Nat  BY <1>1
<1>3. w = a \div WordBits  BY DEF frame_map_size
<1>4. /\ w \in Int /\ WordBits * w \in Int
      /\ a % WordBits \in 0 .. WordBits - 1
      /\ a = WordBits * w + (a % WordBits)  BY <1>2, <1>3, WordDivision
<1>5. /\ q \in Int /\ WordBits * q \in Int /\ r \in 0 .. WordBits - 1
      /\ n = WordBits * q + r  BY WordDivision
<1>6. WordBits * w <= n + WordBits - 1  BY <1>1, <1>4
<1>7. n <= WordBits * w  BY <1>1, <1>4
<1> HIDE DEF w, q, r, a
<1>8. CASE r = 0
  <2>1. WordBits * q <= WordBits * w  BY <1>5, <1>7, <1>8
  <2>2. w = q
    <3>1. ~ (w < q)
      <4> SUFFICES ASSUME w < q PROVE FALSE  OBVIOUS
      <4>1. WordBits * w + WordBits <= WordBits * q  BY <1>4, <1>5, WordStep
      <4> QED  BY <4>1, <2>1, <1>1, <1>4, <1>5
    <3>2. ~ (q < w)
      <4> SUFFICES ASSUME q < w PROVE FALSE  OBVIOUS
      <4>1. WordBits * q + WordBits <= WordBits * w  BY <1>4, <1>5, WordStep
      <4> QED  BY <4>1, <1>1, <1>4, <1>5, <1>6, <1>8
    <3> QED  BY <3>1, <3>2, <1>4, <1>5
  <2>3. WordBits * w = n  BY <2>2, <1>5, <1>8
  <2> QED  BY <1>6, <1>8, <2>3 DEF r, w
<1>9. CASE r # 0
  <2>1. w = q + 1
    <3>1. ~ (w < q + 1)
      <4> SUFFICES ASSUME w < q + 1 PROVE FALSE  OBVIOUS
      <4>1. w = q \/ WordBits * w + WordBits <= WordBits * q
        BY <1>4, <1>5, WordStep
      <4> QED  BY <4>1, <1>1, <1>4, <1>5, <1>7, <1>9
    <3>2. ~ (q + 1 < w)
      <4> SUFFICES ASSUME q + 1 < w PROVE FALSE  OBVIOUS
      <4>1. WordBits * (q + 1) + WordBits <= WordBits * w  BY <1>4, <1>5, WordStep
      <4>2. WordBits * (q + 1) = WordBits * q + WordBits * 1  BY <1>5, WordStep
      <4>3. WordBits * 1 = WordBits  BY <1>1
      <4>4. WordBits * q + WordBits + WordBits <= WordBits * w  BY <4>1, <4>2, <4>3
      <4> QED  BY <4>4, <1>1, <1>4, <1>5, <1>6
    <3> QED  BY <3>1, <3>2, <1>4, <1>5
  <2>2. w - 1 = q  BY <2>1, <1>5
  <2>3. WordBits * (w - 1) = n - r  BY <2>2, <1>1, <1>5
  <2> QED  BY <1>6, <1>9, <2>3 DEF r, w
<1> QED  BY <1>8, <1>9

=============================================================================
