-------------------------- MODULE BuildPmm_proofs --------------------------
(***************************************************************************)
(* Proofs about BuildPmm, for every pair of a provisional and a final      *)
(* memory map, every word size and every slack.                            *)
(***************************************************************************)
EXTENDS BuildPmm, PmmBlocks_proofs

-----------------------------------------------------------------------------
(* The bitmaps of new blocks.                                              *)

(* Marking the padding leaves exactly the frames of the block.             *)
LEMMA PaddingExact ==
  ASSUME NEW n \in Nat
  PROVE  /\ PaddingBits(n) \subseteq MapBits(n)
         /\ MapBits(n) \ PaddingBits(n) = 0 .. n - 1
<1> DEFINE w == frame_map_size(n)
           r == n % WordBits
<1>1. WordBits \in Nat /\ WordBits > 0  BY WordBitsAssumption
<1>2. w \in Nat /\ WordBits * w \in Int /\ n <= WordBits * w
      /\ 0 .. n - 1 \subseteq MapBits(n)
  BY <1>1, MapCoversBlock
<1>3. r \in 0 .. WordBits - 1  BY WordDivision
<1>4. MapBits(n) = 0 .. WordBits * w - 1  BY DEF MapBits
<1> HIDE DEF w, r
<1>5. CASE r = 0
  <2>1. WordBits * w = n  BY <1>5, MapSize DEF w, r
  <2>2. PaddingBits(n) = {}  BY <1>5 DEF PaddingBits, r
  <2> QED  BY <1>4, <2>1, <2>2
<1>6. CASE r # 0
  <2> DEFINE base == WordBits * (w - 1)
  <2>1. base = n - r  BY <1>6, MapSize DEF w, r
  <2>2. WordBits * w = base + WordBits
    <3>1. WordBits * ((w - 1) + 1) = WordBits * (w - 1) + WordBits * 1
      BY <1>2, WordStep
    <3>2. (w - 1) + 1 = w  BY <1>2
    <3>3. WordBits * 1 = WordBits  BY <1>1
    <3> QED  BY <3>1, <3>2, <3>3
  <2>3. base \in Int  BY <2>1, <1>3
  <2>4. PaddingBits(n) = {base + k : k \in r .. WordBits - 1}
    BY <1>6 DEF PaddingBits, w, r
  <2> HIDE DEF base
  <2>5. PaddingBits(n) = n .. WordBits * w - 1
    <3>1. ASSUME NEW p \in PaddingBits(n) PROVE p \in n .. WordBits * w - 1
      <4>1. PICK k \in r .. WordBits - 1 : p = base + k  BY <2>4
      <4> QED  BY <4>1, <1>1, <1>3, <2>1, <2>2, <2>3
    <3>2. ASSUME NEW p \in n .. WordBits * w - 1 PROVE p \in PaddingBits(n)
      <4>1. p - base \in r .. WordBits - 1 /\ p = base + (p - base)
        BY <1>1, <1>2, <1>3, <2>1, <2>2, <2>3
      <4> QED  BY <4>1, <2>4
    <3> QED  BY <3>1, <3>2
  <2> QED  BY <1>2, <1>4, <2>5
<1> QED  BY <1>5, <1>6

(* What the three kinds of new blocks look like.                           *)
LEMMA NewBlock ==
  ASSUME NEW d \in descriptor, d.NumberOfPages # 0,
         NEW block \in {Unmanaged(d), Reclaimable(d), Usable(d)}
  PROVE  /\ block \in pm_block
         /\ BlockConsistent(block)
         /\ 0 \notin FreeFrames(block)
         /\ Frames(block) = Pages(d)
         /\ block.type = TypeOf(d.Type)
<1> DEFINE n == d.NumberOfPages
<1>1. n \in Nat /\ n < Wrap /\ n > 0 /\ Wrap \in Nat /\ d.PhysicalStart \in Nat
  BY WrapAssumption DEF descriptor
<1>2. TypeOf(d.Type) \in pm_type  BY DEF TypeOf, pm_type
<1>3. 0 \in 0 .. Wrap - 1 /\ n \in 0 .. Wrap - 1  BY <1>1
<1>4. MapBits(n) \subseteq Nat /\ IsFiniteSet(MapBits(n)) /\ 0 .. n - 1 \subseteq MapBits(n)
  BY <1>1, MapCoversBlock
<1>5. PaddingBits(n) \subseteq MapBits(n) /\ MapBits(n) \ PaddingBits(n) = 0 .. n - 1
  BY <1>1, PaddingExact
<1>6. Cardinality({}) = 0  BY FS_EmptySet
<1>7. CASE block = Unmanaged(d)
  <2>1. block = [address |-> d.PhysicalStart, frames_total |-> n, frames_free |-> 0,
                 has_map |-> FALSE, map |-> {}, type |-> TypeOf(d.Type)]
    BY <1>7 DEF Unmanaged
  <2>2. block \in pm_block  BY <1>1, <1>2, <1>3, <2>1 DEF pm_block
  <2>3. FreeBits(block) = {}  BY <2>1 DEF FreeBits
  <2>4. BlockConsistent(block)  BY <1>6, <2>1, <2>3 DEF BlockConsistent
  <2> QED  BY <2>1, <2>2, <2>3, <2>4 DEF FreeFrames, Frames, Pages
<1>8. CASE block = Reclaimable(d)
  <2>1. block = [address |-> d.PhysicalStart, frames_total |-> n, frames_free |-> 0,
                 has_map |-> TRUE, map |-> MapBits(n), type |-> TypeOf(d.Type)]
    BY <1>8 DEF Reclaimable, Unmanaged
  <2>2. block \in pm_block  BY <1>1, <1>2, <1>3, <1>4, <2>1 DEF pm_block
  <2>3. FreeBits(block) = {}  BY <2>1 DEF FreeBits
  <2>4. BlockConsistent(block)  BY <1>6, <2>1, <2>3 DEF BlockConsistent
  <2> QED  BY <2>1, <2>2, <2>3, <2>4 DEF FreeFrames, Frames, Pages
<1>9. CASE block = Usable(d)
  <2> DEFINE first == IF d.PhysicalStart = 0 THEN {0} ELSE {}
             free  == n - (IF d.PhysicalStart = 0 THEN 1 ELSE 0)
  <2>1. Minus(n, IF d.PhysicalStart = 0 THEN 1 ELSE 0) = free  BY <1>1 DEF Minus
  <2>2. block = [address |-> d.PhysicalStart, frames_total |-> n, frames_free |-> free,
                 has_map |-> TRUE, map |-> UsableBits(d), type |-> TypeOf(d.Type)]
    BY <1>9, <2>1 DEF Usable, Unmanaged
  <2>3. UsableBits(d) = PaddingBits(n) \cup first  BY DEF UsableBits
  <2>4. first \subseteq 0 .. n - 1  BY <1>1
  <2>5. UsableBits(d) \subseteq MapBits(n)  BY <1>4, <1>5, <2>3, <2>4
  <2>6. free \in 0 .. Wrap - 1  BY <1>1
  <2>7. block \in pm_block
    <3>1. UsableBits(d) \in SUBSET Nat  BY <1>4, <2>5
    <3> HIDE DEF free
    <3> QED  BY <1>1, <1>2, <1>3, <2>2, <2>6, <3>1 DEF pm_block
  <2>8. FreeBits(block) = (0 .. n - 1) \ first
    <3>1. FreeBits(block) = MapBits(n) \ UsableBits(d)  BY <2>2 DEF FreeBits
    <3> QED  BY <1>5, <2>3, <3>1
  <2>9. Cardinality((0 .. n - 1) \ first) = free
    <3>1. IsFiniteSet(0 .. n - 1) /\ Cardinality(0 .. n - 1) = n
      BY <1>1, SegmentCardinality
    <3>2. CASE d.PhysicalStart = 0
      <4>1. 0 \in 0 .. n - 1  BY <1>1
      <4>2. Cardinality((0 .. n - 1) \ {0}) = n - 1  BY <3>1, <4>1, FS_RemoveElement
      <4> QED  BY <3>2, <4>2
    <3>3. CASE d.PhysicalStart # 0  BY <3>1, <3>3, <1>1
    <3> QED  BY <3>2, <3>3
  <2>10. BlockConsistent(block)
    <3>1. \A bit \in FreeBits(block) : bit < n  BY <1>1, <2>8
    <3>2. block.map \subseteq MapBits(block.frames_total)  BY <2>2, <2>5
    <3>3. block.frames_free = Cardinality(FreeBits(block))  BY <2>2, <2>8, <2>9
    <3>4. block.frames_total = n  BY <2>2
    <3> QED  BY <3>1, <3>2, <3>3, <3>4 DEF BlockConsistent
  <2>11. 0 \notin FreeFrames(block)
    <3> SUFFICES ASSUME NEW bit \in FreeBits(block), d.PhysicalStart + bit = 0
                 PROVE  FALSE
      BY <2>2 DEF FreeFrames
    <3>1. bit \in 0 .. n - 1 /\ bit \notin first  BY <2>8
    <3> QED  BY <1>1, <3>1
  <2> QED  BY <1>9, <2>2, <2>7, <2>10, <2>11 DEF Frames, Pages
<1> QED  BY <1>7, <1>8, <1>9
-----------------------------------------------------------------------------
(* Counting descriptors and pages.                                         *)

(* The pages counted before a position of the map.                         *)
RamBefore(map, p) ==
  UNION {{i} \X (1 .. map[i].NumberOfPages) :
           i \in {k \in DOMAIN map : k < p /\ is_ram_type(map[k].Type)}}
BlocksBefore(map, p) == {i \in DOMAIN map : i < p /\ map[i].NumberOfPages # 0}

(* Both counts are natural numbers, so the sizes that reserve_pmm computes *)
(* are.                                                                    *)
LEMMA CountsFinite ==
  ASSUME NEW map \in Seq(descriptor)
  PROVE  /\ IsFiniteSet(RamPages(map)) /\ ram_frames(map) \in Nat
         /\ block_count(map) \in Nat
         /\ IsFiniteSet({i \in DOMAIN map : map[i].NumberOfPages # 0})
<1>1. DOMAIN map = 1 .. Len(map) /\ Len(map) \in Nat  OBVIOUS
<1>2. IsFiniteSet(DOMAIN map)  BY <1>1, SegmentCardinality
<1>3. \A i \in DOMAIN map : map[i].NumberOfPages \in 0 .. Wrap - 1
  <2>1. \A i \in DOMAIN map : map[i] \in descriptor  OBVIOUS
  <2> QED  BY <2>1, WrapAssumption DEF descriptor
<1>4. IsFiniteSet(0 .. Wrap - 1)  BY WrapAssumption, SegmentCardinality
<1>5. IsFiniteSet(RamPages(map))
  <2> DEFINE rows    == DOMAIN map
             columns == 0 .. Wrap - 1
  <2>1. IsFiniteSet(rows) /\ IsFiniteSet(columns)  BY <1>2, <1>4
  <2>2. \A i \in rows : 1 .. map[i].NumberOfPages \subseteq columns
    BY <1>3, WrapAssumption
  <2>3. \A x \in RamPages(map) : \E i \in rows : x \in {i} \X (1 .. map[i].NumberOfPages)
    BY DEF RamPages
  <2> HIDE DEF rows, columns
  <2>4. ASSUME NEW x \in RamPages(map) PROVE x \in rows \X columns
    <3>1. PICK i \in rows : x \in {i} \X (1 .. map[i].NumberOfPages)  BY <2>3
    <3> QED  BY <2>2, <3>1
  <2>5. IsFiniteSet(rows \X columns)  BY <2>1, FS_Product
  <2> QED  BY <2>4, <2>5, FS_Subset
<1>6. IsFiniteSet({i \in DOMAIN map : map[i].NumberOfPages # 0})  BY <1>2, FS_Subset
<1> QED  BY <1>5, <1>6, FS_CardinalityType DEF ram_frames, block_count

(* Passing a descriptor adds its pages, if it is RAM, to those counted.    *)
LEMMA RamStep ==
  ASSUME NEW map \in Seq(descriptor), NEW p \in DOMAIN map
  PROVE  /\ Cardinality(RamBefore(map, p)) \in Nat
         /\ Cardinality(RamBefore(map, p + 1)) =
              Cardinality(RamBefore(map, p)) +
              (IF is_ram_type(map[p].Type) THEN map[p].NumberOfPages ELSE 0)
         /\ Cardinality(RamBefore(map, p + 1)) <= ram_frames(map)
<1> DEFINE n    == map[p].NumberOfPages
           part == {p} \X (1 .. n)
<1>1. p \in Nat /\ \A k \in DOMAIN map : k \in Nat  OBVIOUS
<1>2. n \in Nat
  <2>1. map[p] \in descriptor  OBVIOUS
  <2> QED  BY <2>1, WrapAssumption DEF descriptor
<1>3. RamBefore(map, p) \subseteq RamPages(map) /\ RamBefore(map, p + 1) \subseteq RamPages(map)
  BY DEF RamBefore, RamPages
<1>4. /\ IsFiniteSet(RamBefore(map, p)) /\ Cardinality(RamBefore(map, p)) \in Nat
      /\ Cardinality(RamBefore(map, p + 1)) <= ram_frames(map)
  BY <1>3, CountsFinite, FS_Subset, FS_CardinalityType DEF ram_frames
<1>5. \A k \in DOMAIN map : k < p + 1 <=> k < p \/ k = p  BY <1>1
<1>6. CASE ~ is_ram_type(map[p].Type)
  <2>1. RamBefore(map, p + 1) = RamBefore(map, p)  BY <1>5, <1>6 DEF RamBefore
  <2> QED  BY <1>4, <1>6, <2>1
<1>7. CASE is_ram_type(map[p].Type)
  <2>1. RamBefore(map, p + 1) = RamBefore(map, p) \cup part
    <3>1. ASSUME NEW x \in RamBefore(map, p + 1) PROVE x \in RamBefore(map, p) \cup part
      <4>1. PICK k \in DOMAIN map : /\ k < p + 1 /\ is_ram_type(map[k].Type)
                                   /\ x \in {k} \X (1 .. map[k].NumberOfPages)
        BY DEF RamBefore
      <4>2. CASE k = p  BY <4>1, <4>2
      <4>3. CASE k < p  BY <4>1, <4>3 DEF RamBefore
      <4> QED  BY <1>5, <4>1, <4>2, <4>3
    <3>2. ASSUME NEW x \in RamBefore(map, p) PROVE x \in RamBefore(map, p + 1)
      BY <1>5 DEF RamBefore
    <3>3. p < p + 1  BY <1>1
    <3>4. part \subseteq RamBefore(map, p + 1)  BY <1>7, <3>3 DEF RamBefore
    <3> QED  BY <3>1, <3>2, <3>4
  <2>2. RamBefore(map, p) \cap part = {}
    <3> SUFFICES ASSUME NEW x \in RamBefore(map, p), x \in part PROVE FALSE  OBVIOUS
    <3>1. PICK k \in DOMAIN map : k < p /\ x \in {k} \X (1 .. map[k].NumberOfPages)
      BY DEF RamBefore
    <3>2. k = p  BY <3>1
    <3> QED  BY <1>1, <3>1, <3>2
  <2>3. IsFiniteSet(part) /\ Cardinality(part) = n
    <3>1. IsFiniteSet({p}) /\ Cardinality({p}) = 1  BY FS_Singleton
    <3>2. IsFiniteSet(1 .. n) /\ Cardinality(1 .. n) = n  BY <1>2, SegmentCardinality
    <3>3. IsFiniteSet(part) /\ Cardinality(part) = 1 * n  BY <3>1, <3>2, FS_Product
    <3> QED  BY <1>2, <3>3
  <2> HIDE DEF part
  <2>4. Cardinality(RamBefore(map, p) \cup part) =
          Cardinality(RamBefore(map, p)) + Cardinality(part) - Cardinality({})
    BY <1>4, <2>2, <2>3, FS_Union
  <2>5. Cardinality({}) = 0  BY FS_EmptySet
  <2>6. Cardinality(RamBefore(map, p + 1)) = Cardinality(RamBefore(map, p)) + n
    <3> DEFINE before == Cardinality(RamBefore(map, p))
    <3>1. before \in Nat  BY <1>4
    <3>2. Cardinality(RamBefore(map, p + 1)) = before + n - 0  BY <2>1, <2>3, <2>4, <2>5
    <3> HIDE DEF n, before
    <3>3. before + n - 0 = before + n  BY <1>2, <3>1
    <3> QED  BY <3>2, <3>3 DEF before
  <2> QED  BY <1>4, <1>7, <2>6
<1> QED  BY <1>6, <1>7

(* Passing a descriptor adds a block, if it is not empty.                  *)
LEMMA BlocksStep ==
  ASSUME NEW map \in Seq(descriptor), NEW p \in DOMAIN map
  PROVE  /\ Cardinality(BlocksBefore(map, p)) \in Nat
         /\ Cardinality(BlocksBefore(map, p + 1)) =
              Cardinality(BlocksBefore(map, p)) +
              (IF map[p].NumberOfPages # 0 THEN 1 ELSE 0)
         /\ Cardinality(BlocksBefore(map, p + 1)) <= block_count(map)
<1>1. p \in Nat /\ \A k \in DOMAIN map : k \in Nat  OBVIOUS
<1>2. /\ BlocksBefore(map, p) \subseteq {i \in DOMAIN map : map[i].NumberOfPages # 0}
      /\ BlocksBefore(map, p + 1) \subseteq {i \in DOMAIN map : map[i].NumberOfPages # 0}
  BY DEF BlocksBefore
<1>3. /\ IsFiniteSet(BlocksBefore(map, p)) /\ Cardinality(BlocksBefore(map, p)) \in Nat
      /\ Cardinality(BlocksBefore(map, p + 1)) <= block_count(map)
  BY <1>2, CountsFinite, FS_Subset, FS_CardinalityType DEF block_count
<1>4. \A k \in DOMAIN map : k < p + 1 <=> k < p \/ k = p  BY <1>1
<1>5. CASE map[p].NumberOfPages = 0
  <2>1. BlocksBefore(map, p + 1) = BlocksBefore(map, p)  BY <1>4, <1>5 DEF BlocksBefore
  <2> QED  BY <1>3, <1>5, <2>1
<1>6. CASE map[p].NumberOfPages # 0
  <2>1. BlocksBefore(map, p + 1) = BlocksBefore(map, p) \cup {p}
    BY <1>4, <1>6 DEF BlocksBefore
  <2>2. p \notin BlocksBefore(map, p)  BY <1>1 DEF BlocksBefore
  <2> QED  BY <1>3, <1>6, <2>1, <2>2, FS_AddElement
<1> QED  BY <1>5, <1>6

(* At the end of the map everything has been counted.                      *)
LEMMA BlocksAtEnd ==
  ASSUME NEW map \in Seq(descriptor)
  PROVE  Cardinality(BlocksBefore(map, Len(map) + 1)) = block_count(map)
<1>1. BlocksBefore(map, Len(map) + 1) = {i \in DOMAIN map : map[i].NumberOfPages # 0}
  BY DEF BlocksBefore
<1> QED  BY <1>1 DEF block_count

(* Nothing is counted before the first descriptor.                         *)
LEMMA NothingAtStart ==
  ASSUME NEW map \in Seq(descriptor)
  PROVE  Cardinality(RamBefore(map, 1)) = 0 /\ Cardinality(BlocksBefore(map, 1)) = 0
<1>1. \A k \in DOMAIN map : ~ (k < 1)  OBVIOUS
<1>2. RamBefore(map, 1) = {} /\ BlocksBefore(map, 1) = {}
  BY <1>1 DEF RamBefore, BlocksBefore
<1> QED  BY <1>2, FS_EmptySet

-----------------------------------------------------------------------------
(* The loop of build_pmm.                                                  *)

(* The blocks already made are consistent, offer conventional memory only, *)
(* and share no page with each other or with what is left of the map: the  *)
(* last part is what makes the disjointness inductive.                     *)
GoodBlock(b, map) == /\ BlockConsistent(b)
                     /\ 0 \notin FreeFrames(b)
                     /\ FreeFrames(b) \subseteq Conventional(map)

ApartFrom(b, p, map) == \A j \in p .. Len(map) : Frames(b) \cap Pages(map[j]) = {}

BuildInv == /\ BuildTypeOK
            /\ mmap \in MemoryMaps
            /\ \A i \in DOMAIN blocks : /\ GoodBlock(blocks[i], mmap)
                                        /\ ApartFrom(blocks[i], pos, mmap)
            /\ BlocksDisjoint(blocks)

(* A descriptor of the map, with the facts the steps use.                  *)
LEMMA CurrentDescriptor ==
  ASSUME BuildInv, pos <= Len(mmap)
  PROVE  /\ pos \in DOMAIN mmap /\ pos \in Nat /\ Len(mmap) \in Nat
         /\ mmap[pos] \in descriptor
         /\ Words(mmap[pos]) \in Nat
<1>1. mmap \in Seq(descriptor) /\ pos \in 1 .. Len(mmap) + 1  BY DEF BuildInv, BuildTypeOK
<1>2. Len(mmap) \in Nat /\ DOMAIN mmap = 1 .. Len(mmap)  BY <1>1
<1>3. pos \in Nat /\ pos \in DOMAIN mmap  BY <1>1, <1>2
<1>4. mmap[pos] \in descriptor  BY <1>1, <1>3
<1>5. mmap[pos].NumberOfPages \in Nat  BY <1>4, WrapAssumption DEF descriptor
<1> QED  BY <1>2, <1>3, <1>4, <1>5, MapCoversBlock DEF Words

(* The block made for a descriptor is good, and apart from the others.     *)
LEMMA NewBlockFits ==
  ASSUME BuildInv, TakesBlock,
         NEW block \in {Unmanaged(mmap[pos]), Reclaimable(mmap[pos]), Usable(mmap[pos])},
         FreeBits(block) = {} \/ TypeOf(mmap[pos].Type) = "PM_USABLE"
  PROVE  /\ block \in pm_block
         /\ GoodBlock(block, mmap)
         /\ \A j \in pos + 1 .. Len(mmap) : Frames(block) \cap Pages(mmap[j]) = {}
         /\ \A i \in DOMAIN blocks : Frames(blocks[i]) \cap Frames(block) = {}
<1> DEFINE d == mmap[pos]
<1>1. pos <= Len(mmap) /\ d.NumberOfPages # 0  BY DEF TakesBlock
<1>2. pos \in DOMAIN mmap /\ pos \in Nat /\ Len(mmap) \in Nat /\ d \in descriptor
  BY <1>1, CurrentDescriptor
<1>3. /\ block \in pm_block /\ BlockConsistent(block) /\ 0 \notin FreeFrames(block)
      /\ Frames(block) = Pages(d)
  BY <1>1, <1>2, NewBlock
<1>4. FreeFrames(block) \subseteq Conventional(mmap)
  <2>1. CASE TypeOf(d.Type) = "PM_USABLE"
    <3>1. d.Type = "EfiConventionalMemory"  BY <2>1 DEF TypeOf
    <3>2. Pages(d) \subseteq Conventional(mmap)  BY <1>2, <3>1 DEF Conventional
    <3>3. FreeFrames(block) \subseteq Frames(block)  BY <1>3, FreeFramesInBlock
    <3> QED  BY <1>3, <3>2, <3>3
  <2>2. CASE FreeBits(block) = {}
    <3>1. FreeFrames(block) = {}  BY <2>2 DEF FreeFrames
    <3> QED  BY <3>1
  <2> QED  BY <2>1, <2>2
<1>5. \A j \in pos + 1 .. Len(mmap) : Pages(d) \cap Pages(mmap[j]) = {}
  <2>1. \A i, j \in DOMAIN mmap : i # j => Pages(mmap[i]) \cap Pages(mmap[j]) = {}
    BY MemoryMapsAssumption DEF BuildInv
  <2>2. \A j \in pos + 1 .. Len(mmap) : j \in DOMAIN mmap /\ j # pos
    BY <1>2 DEF BuildInv, BuildTypeOK
  <2> QED  BY <1>2, <2>1, <2>2
<1>6. \A i \in DOMAIN blocks : Frames(blocks[i]) \cap Pages(d) = {}
  <2>1. pos \in pos .. Len(mmap)  BY <1>1, <1>2
  <2> QED  BY <2>1 DEF BuildInv, ApartFrom
<1> QED  BY <1>3, <1>4, <1>5, <1>6 DEF GoodBlock

(* Appending such a block keeps the invariant.                             *)
LEMMA AddKeepsInv ==
  ASSUME BuildInv, TakesBlock,
         NEW block \in {Unmanaged(mmap[pos]), Reclaimable(mmap[pos]), Usable(mmap[pos])},
         FreeBits(block) = {} \/ TypeOf(mmap[pos].Type) = "PM_USABLE",
         NEW words \in Nat, words <= words_left,
         Add(block, words)
  PROVE  BuildInv'
<1>1. /\ block \in pm_block /\ GoodBlock(block, mmap)
      /\ \A j \in pos + 1 .. Len(mmap) : Frames(block) \cap Pages(mmap[j]) = {}
      /\ \A i \in DOMAIN blocks : Frames(blocks[i]) \cap Frames(block) = {}
  BY NewBlockFits
<1>2. /\ blocks' = Append(blocks, block) /\ words_left' = words_left - words
      /\ pos' = pos + 1 /\ storage' = storage /\ counted' = counted /\ mmap' = mmap
  BY DEF Add
<1>3. BuildTypeOK  BY DEF BuildInv
<1>4. /\ Len(blocks) \in Nat /\ storage.block_capacity \in Nat
      /\ Len(blocks) < storage.block_capacity
  BY <1>3 DEF BuildTypeOK, TakesBlock
<1>5. /\ blocks' \in Seq(pm_block) /\ Len(blocks') = Len(blocks) + 1
      /\ DOMAIN blocks' = DOMAIN blocks \cup {Len(blocks) + 1}
      /\ Len(blocks) + 1 \notin DOMAIN blocks
      /\ \A i \in DOMAIN blocks : blocks'[i] = blocks[i]
      /\ blocks'[Len(blocks) + 1] = block
  BY <1>1, <1>2, <1>3 DEF BuildTypeOK
<1>6. BuildTypeOK'
  <2>1. words_left - words \in 0 .. storage.bitmap_words  BY <1>3 DEF BuildTypeOK
  <2>2. pos + 1 \in 1 .. Len(mmap) + 1  BY <1>3 DEF BuildTypeOK, TakesBlock
  <2>3. Len(blocks') <= storage.block_capacity  BY <1>4, <1>5
  <2> QED  BY <1>2, <1>3, <1>5, <2>1, <2>2, <2>3 DEF BuildTypeOK
<1>7. mmap' \in MemoryMaps  BY <1>2 DEF BuildInv
<1>8. \A j \in pos' .. Len(mmap') : j \in pos .. Len(mmap)
  BY <1>2, <1>3 DEF BuildTypeOK
<1>9. ASSUME NEW i \in DOMAIN blocks'
      PROVE  GoodBlock(blocks'[i], mmap') /\ ApartFrom(blocks'[i], pos', mmap')
  <2>1. CASE i \in DOMAIN blocks
    <3>1. GoodBlock(blocks[i], mmap) /\ ApartFrom(blocks[i], pos, mmap)  BY <2>1 DEF BuildInv
    <3> QED  BY <1>2, <1>5, <1>8, <2>1, <3>1 DEF GoodBlock, ApartFrom
  <2>2. CASE i = Len(blocks) + 1
    BY <1>1, <1>2, <1>5, <2>2 DEF GoodBlock, ApartFrom
  <2> QED  BY <1>5, <2>1, <2>2
<1>10. BlocksDisjoint(blocks')
  <2> SUFFICES ASSUME NEW i \in DOMAIN blocks', NEW j \in DOMAIN blocks', i # j
               PROVE  Frames(blocks'[i]) \cap Frames(blocks'[j]) = {}
    BY DEF BlocksDisjoint
  <2>1. CASE i \in DOMAIN blocks /\ j \in DOMAIN blocks
    <3>1. Frames(blocks[i]) \cap Frames(blocks[j]) = {}
      BY <2>1 DEF BuildInv, BlocksDisjoint
    <3> QED  BY <1>5, <2>1, <3>1
  <2>2. CASE i \in DOMAIN blocks /\ j = Len(blocks) + 1
    <3>1. Frames(blocks[i]) \cap Frames(block) = {}  BY <1>1, <2>2
    <3> QED  BY <1>5, <2>2, <3>1
  <2>3. CASE i = Len(blocks) + 1 /\ j \in DOMAIN blocks
    <3>1. Frames(blocks[j]) \cap Frames(block) = {}  BY <1>1, <2>3
    <3> QED  BY <1>5, <2>3, <3>1
  <2> QED  BY <1>5, <2>1, <2>2, <2>3
<1> QED  BY <1>6, <1>7, <1>9, <1>10 DEF BuildInv

LEMMA BuildInvInit == Init => BuildInv
<1> SUFFICES ASSUME NEW provisional \in MemoryMaps, NEW final \in MemoryMaps,
                    StartBuild(provisional, final)
             PROVE  BuildInv
  BY DEF Init
<1>1. provisional \in Seq(descriptor) /\ final \in Seq(descriptor)
  BY MemoryMapsAssumption
<1>2. ram_frames(provisional) \in Nat /\ block_count(provisional) \in Nat
  BY <1>1, CountsFinite
<1>3. ram_frames(provisional) \div WordBits \in Nat
  <2>1. WordBits \in Nat /\ WordBits > 0  BY WordBitsAssumption
  <2> QED  BY <1>2, <2>1
<1>4. storage \in [block_capacity: Nat, bitmap_words: Nat]
  BY <1>2, <1>3, BlockSlackAssumption DEF StartBuild, pmm_storage
<1>5. BuildTypeOK
  <2>1. storage.bitmap_words \in Nat /\ storage.block_capacity \in Nat  BY <1>4
  <2>2. words_left \in 0 .. storage.bitmap_words  BY <2>1 DEF StartBuild
  <2>3. blocks \in Seq(pm_block) /\ Len(blocks) <= storage.block_capacity
    BY <2>1 DEF StartBuild
  <2>4. mmap \in Seq(descriptor) /\ pos \in 1 .. Len(mmap) + 1  BY <1>1 DEF StartBuild
  <2>5. counted \in Nat  BY <1>2 DEF StartBuild
  <2> QED  BY <1>4, <2>2, <2>3, <2>4, <2>5 DEF BuildTypeOK
<1>6. DOMAIN blocks = {} /\ mmap \in MemoryMaps  BY DEF StartBuild
<1> QED  BY <1>5, <1>6 DEF BuildInv, BlocksDisjoint

LEMMA BuildInvStep == BuildInv /\ [Next]_buildVars => BuildInv'
<1> SUFFICES ASSUME BuildInv, [Next]_buildVars PROVE BuildInv'  OBVIOUS
<1>1. ASSUME pos' \in pos .. Len(mmap) + 1,
             UNCHANGED <<storage, counted, mmap, words_left, blocks>>
      PROVE  BuildInv'
  <2>1. BuildTypeOK /\ BuildTypeOK'  BY <1>1 DEF BuildInv, BuildTypeOK
  <2>2. \A j \in pos' .. Len(mmap') : j \in pos .. Len(mmap)
    BY <1>1, <2>1 DEF BuildTypeOK
  <2>3. \A i \in DOMAIN blocks' : GoodBlock(blocks'[i], mmap') /\ ApartFrom(blocks'[i], pos', mmap')
    BY <1>1, <2>2 DEF BuildInv, GoodBlock, ApartFrom
  <2> QED  BY <1>1, <2>1, <2>3 DEF BuildInv
<1>2. CASE SkipEmpty
  <2>1. pos + 1 \in pos .. Len(mmap) + 1  BY <1>2, CurrentDescriptor DEF SkipEmpty
  <2> QED  BY <1>1, <1>2, <2>1 DEF SkipEmpty
<1>3. CASE StopWhenFull
  <2>1. Len(mmap) + 1 \in pos .. Len(mmap) + 1
    BY <1>3, CurrentDescriptor DEF StopWhenFull
  <2> QED  BY <1>1, <1>3, <2>1 DEF StopWhenFull
<1>4. words_left \in Nat  BY DEF BuildInv, BuildTypeOK
<1>5. CASE AddUnmanaged
  <2>1. TakesBlock /\ Add(Unmanaged(mmap[pos]), 0)  BY <1>5 DEF AddUnmanaged
  <2>2. FreeBits(Unmanaged(mmap[pos])) = {}  BY DEF FreeBits, Unmanaged
  <2> QED  BY <1>4, <2>1, <2>2, AddKeepsInv
<1>6. CASE AddReclaimable
  <2>1. TakesBlock /\ Add(Reclaimable(mmap[pos]), Words(mmap[pos])) /\ GetsMap(mmap[pos])
    BY <1>6 DEF AddReclaimable
  <2>2. Words(mmap[pos]) \in Nat /\ Words(mmap[pos]) <= words_left
    BY <2>1, CurrentDescriptor DEF GetsMap, TakesBlock
  <2>3. FreeBits(Reclaimable(mmap[pos])) = {}  BY DEF FreeBits, Reclaimable, Unmanaged
  <2> QED  BY <2>1, <2>2, <2>3, AddKeepsInv
<1>7. CASE AddUsable
  <2>1. TakesBlock /\ Add(Usable(mmap[pos]), Words(mmap[pos])) /\ GetsMap(mmap[pos])
        /\ TypeOf(mmap[pos].Type) = "PM_USABLE"
    BY <1>7 DEF AddUsable
  <2>2. Words(mmap[pos]) \in Nat /\ Words(mmap[pos]) <= words_left
    BY <2>1, CurrentDescriptor DEF GetsMap, TakesBlock
  <2> QED  BY <2>1, <2>2, AddKeepsInv
<1>8. CASE UNCHANGED buildVars
  <2>1. pos \in pos .. Len(mmap) + 1  BY DEF BuildInv, BuildTypeOK
  <2> QED  BY <1>1, <1>8, <2>1 DEF buildVars
<1> QED  BY <1>2, <1>3, <1>5, <1>6, <1>7, <1>8 DEF Next, build_pmm

(* build_pmm never writes past blocks[block_capacity] or past the words of *)
(* the bitmap storage: the type invariant bounds both.                     *)
THEOREM BuildTypeCorrect == Spec => []BuildTypeOK
<1>1. BuildInv => BuildTypeOK  BY DEF BuildInv
<1> QED  BY <1>1, BuildInvInit, BuildInvStep, PTL DEF Spec

(* Whatever the final map, the kernel is handed blocks that meet what its  *)
(* allocator relies on.                                                    *)
THEOREM HandsOverConsistent == Spec => []HandsOverConsistentBlocks
<1>1. BuildInv => HandsOverConsistentBlocks
  BY DEF BuildInv, GoodBlock, HandsOverConsistentBlocks
<1> QED  BY <1>1, BuildInvInit, BuildInvStep, PTL DEF Spec

(* No frame on offer is outside the conventional memory of the final map:  *)
(* not loader data, boot services, ACPI tables or firmware.                *)
THEOREM OffersConventional == Spec => []OffersOnlyConventional
<1>1. BuildInv => OffersOnlyConventional
  BY DEF BuildInv, GoodBlock, OffersOnlyConventional
<1> QED  BY <1>1, BuildInvInit, BuildInvStep, PTL DEF Spec

-----------------------------------------------------------------------------
(* The storage suffices for any final map that has no more RAM and no more *)
(* descriptors than it was reserved for.                                   *)

NotGrown == /\ ram_frames(mmap) <= counted
            /\ block_count(mmap) <= storage.block_capacity

Managed(bs) == \A i \in DOMAIN bs :
                 bs[i].type \in {"PM_USABLE", "PM_RECLAIMABLE"} => bs[i].has_map

WordsUsed == storage.bitmap_words - words_left

(* The words used so far waste less than a word for each block.            *)
WasteBounded ==
  WordBits * WordsUsed + Len(blocks)
    <= Cardinality(RamBefore(mmap, pos)) + WordBits * Len(blocks)

StorageInv ==
  /\ BuildInv
  /\ storage.bitmap_words = counted \div WordBits + storage.block_capacity
  /\ NotGrown => /\ Len(blocks) = Cardinality(BlocksBefore(mmap, pos))
                 /\ Managed(blocks)
                 /\ WasteBounded

(* The arithmetic of the reservation: "each block wastes at most one       *)
(* partial word".                                                          *)
LEMMA ReservationArithmetic ==
  ASSUME NEW used \in Nat, NEW words \in Nat, NEW ram \in Nat, NEW n \in Nat,
         NEW len \in Nat, NEW total \in Nat, NEW capacity \in Nat,
         WordBits * used + len <= ram + WordBits * len,
         WordBits * words <= n + WordBits - 1,
         ram + n <= total, len + 1 <= capacity
  PROVE  used + words <= total \div WordBits + capacity
<1> DEFINE q == total \div WordBits
           r == total % WordBits
<1>1. WordBits \in Nat /\ WordBits > 0  BY WordBitsAssumption
<1>2. q \in Int /\ WordBits * q \in Int /\ r \in 0 .. WordBits - 1 /\ total = WordBits * q + r
  BY WordDivision
<1> HIDE DEF q, r
<1>3. /\ WordBits * used \in Int /\ WordBits * words \in Int
      /\ WordBits * (used + words) = WordBits * used + WordBits * words
  BY WordStep
<1>4. /\ WordBits * capacity \in Int
      /\ WordBits * (q + capacity) = WordBits * q + WordBits * capacity
  <2>1. WordBits * capacity \in Int  BY WordStep
  <2> QED  BY <1>2, <2>1, WordStep
<1>5. WordBits * len \in Int /\ WordBits * len + WordBits <= WordBits * capacity
  BY WordStep
<1>6. ASSUME q + capacity < used + words PROVE FALSE
  <2>1. WordBits * (q + capacity) + WordBits <= WordBits * (used + words)
    BY <1>2, <1>6, WordStep
  <2> QED  BY <1>1, <1>2, <1>3, <1>4, <1>5, <2>1
<1> QED  BY <1>2, <1>6 DEF q

(* What the invariant says at a descriptor that takes a block.             *)
LEMMA StorageFacts ==
  ASSUME StorageInv
  PROVE  /\ WordsUsed \in Nat /\ Len(blocks) \in Nat /\ storage.block_capacity \in Nat
         /\ words_left \in Nat /\ counted \in Nat /\ words_left = storage.bitmap_words - WordsUsed
         /\ mmap \in Seq(descriptor) /\ Len(mmap) \in Nat /\ WordBits \in Nat /\ WordBits > 0
<1>1. /\ storage \in [block_capacity: Nat, bitmap_words: Nat] /\ counted \in Nat
      /\ words_left \in 0 .. storage.bitmap_words
      /\ blocks \in Seq(pm_block) /\ mmap \in Seq(descriptor)
  BY DEF StorageInv, BuildInv, BuildTypeOK
<1>2. storage.block_capacity \in Nat /\ storage.bitmap_words \in Nat  BY <1>1
<1>3. Len(blocks) \in Nat /\ Len(mmap) \in Nat  BY <1>1
<1>4. WordsUsed \in Nat /\ words_left \in Nat /\ words_left = storage.bitmap_words - WordsUsed
  BY <1>1, <1>2 DEF WordsUsed
<1>5. WordBits \in Nat /\ WordBits > 0  BY WordBitsAssumption
<1> QED  BY <1>1, <1>2, <1>3, <1>4, <1>5

(* A descriptor of RAM finds the words it needs.                           *)
LEMMA WordsSuffice ==
  ASSUME StorageInv, NotGrown, TakesBlock, is_ram_type(mmap[pos].Type)
  PROVE  Words(mmap[pos]) <= words_left
<1> DEFINE d == mmap[pos]
           ram == Cardinality(RamBefore(mmap, pos))
           len == Len(blocks)
<1>1. pos <= Len(mmap) /\ d.NumberOfPages # 0  BY DEF TakesBlock
<1>2. pos \in DOMAIN mmap /\ d \in descriptor /\ Words(d) \in Nat
  BY <1>1, CurrentDescriptor DEF StorageInv
<1>3. d.NumberOfPages \in Nat  BY <1>2, WrapAssumption DEF descriptor
<1>4. /\ WordsUsed \in Nat /\ len \in Nat /\ storage.block_capacity \in Nat
      /\ words_left \in Nat /\ counted \in Nat /\ words_left = storage.bitmap_words - WordsUsed
      /\ mmap \in Seq(descriptor)
  BY StorageFacts
<1>5. ram \in Nat /\ ram + d.NumberOfPages <= ram_frames(mmap)
  BY <1>2, <1>4, RamStep
<1>6. len + 1 <= block_count(mmap)
  BY <1>1, <1>2, <1>4, BlocksStep DEF StorageInv
<1>7. WordBits * WordsUsed + len <= ram + WordBits * len  BY DEF StorageInv, WasteBounded
<1>8. WordBits * Words(d) <= d.NumberOfPages + WordBits - 1  BY <1>3, MapSize DEF Words
<1>9. ram_frames(mmap) \in Nat /\ block_count(mmap) \in Nat  BY <1>4, CountsFinite
<1>10. ram + d.NumberOfPages <= counted /\ len + 1 <= storage.block_capacity
  BY <1>3, <1>4, <1>5, <1>6, <1>9 DEF NotGrown
<1> HIDE DEF d, ram, len
<1>11. WordsUsed + Words(d) <= counted \div WordBits + storage.block_capacity
  BY <1>2, <1>3, <1>4, <1>5, <1>7, <1>8, <1>10, ReservationArithmetic
<1>12. storage.bitmap_words = counted \div WordBits + storage.block_capacity
  BY DEF StorageInv
<1>13. storage.bitmap_words \in Nat  BY DEF StorageInv, BuildInv, BuildTypeOK
<1>14. Words(d) <= words_left  BY <1>2, <1>4, <1>11, <1>12, <1>13
<1> QED  BY <1>14 DEF d

(* is_ram_type and the switch of build_pmm agree on what is RAM.           *)
LEMMA RamTypesAgree ==
  ASSUME NEW type
  PROVE  is_ram_type(type) <=> TypeOf(type) \in {"PM_USABLE", "PM_RECLAIMABLE"}
  BY DEF is_ram_type, TypeOf

(* Appending a block keeps the invariant, if it has a bitmap or is no RAM. *)
LEMMA AddKeepsStorage ==
  ASSUME StorageInv, NotGrown, TakesBlock,
         NEW block, block.type = TypeOf(mmap[pos].Type), NEW words \in Nat,
         Add(block, words),
         is_ram_type(mmap[pos].Type) => block.has_map /\ words = Words(mmap[pos]),
         ~ is_ram_type(mmap[pos].Type) => words = 0,
         blocks' \in Seq(pm_block)
  PROVE  /\ Len(blocks') = Cardinality(BlocksBefore(mmap, pos'))
         /\ Managed(blocks')
         /\ WasteBounded'
<1> DEFINE d == mmap[pos]
           ram == Cardinality(RamBefore(mmap, pos))
           len == Len(blocks)
<1>1. pos <= Len(mmap) /\ d.NumberOfPages # 0  BY DEF TakesBlock
<1>2. pos \in DOMAIN mmap /\ d \in descriptor /\ Words(d) \in Nat
  BY <1>1, CurrentDescriptor DEF StorageInv
<1>3. d.NumberOfPages \in Nat /\ d.NumberOfPages > 0
  BY <1>1, <1>2, WrapAssumption DEF descriptor
<1>4. /\ WordsUsed \in Nat /\ len \in Nat /\ words_left \in Nat
      /\ mmap \in Seq(descriptor) /\ WordBits \in Nat /\ WordBits > 0
  BY StorageFacts
<1>5. blocks' = Append(blocks, block) /\ words_left' = words_left - words /\ pos' = pos + 1
      /\ storage' = storage /\ mmap' = mmap
  BY DEF Add
<1>6. blocks \in Seq(pm_block)  BY DEF StorageInv, BuildInv, BuildTypeOK
<1>7. /\ Len(blocks') = len + 1 /\ DOMAIN blocks' = DOMAIN blocks \cup {len + 1}
      /\ \A i \in DOMAIN blocks : blocks'[i] = blocks[i]
      /\ blocks'[len + 1] = block
  BY <1>5, <1>6
<1>8. Len(blocks') = Cardinality(BlocksBefore(mmap, pos'))
  BY <1>1, <1>2, <1>4, <1>5, <1>7, BlocksStep DEF StorageInv
<1>9. Managed(blocks')
  <2>1. block.type \in {"PM_USABLE", "PM_RECLAIMABLE"} => block.has_map  BY RamTypesAgree
  <2>2. Managed(blocks)  BY DEF StorageInv
  <2> QED  BY <1>7, <2>1, <2>2 DEF Managed
<1>10. WasteBounded'
  <2>1. WordsUsed' = WordsUsed + words
    <3>1. storage.bitmap_words \in Nat  BY DEF StorageInv, BuildInv, BuildTypeOK
    <3> QED  BY <1>4, <1>5, <3>1 DEF WordsUsed
  <2>2. WordBits * WordsUsed + len <= ram + WordBits * len  BY DEF StorageInv, WasteBounded
  <2>3. ram \in Nat /\ Cardinality(RamBefore(mmap, pos + 1)) =
                         ram + (IF is_ram_type(d.Type) THEN d.NumberOfPages ELSE 0)
    BY <1>2, <1>4, RamStep
  <2>4. WordBits * Words(d) <= d.NumberOfPages + WordBits - 1  BY <1>3, MapSize DEF Words
  <2>5. /\ WordBits * WordsUsed \in Int /\ WordBits * words \in Int
        /\ WordBits * (WordsUsed + words) = WordBits * WordsUsed + WordBits * words
    BY <1>4, WordStep
  <2>6. /\ WordBits * len \in Int
        /\ WordBits * (len + 1) = WordBits * len + WordBits
    <3>1. WordBits * (len + 1) = WordBits * len + WordBits * 1 /\ WordBits * len \in Int
      BY <1>4, WordStep
    <3> QED  BY <1>4, <3>1
  <2> DEFINE after   == Cardinality(RamBefore(mmap, pos + 1))
             used    == WordBits * WordsUsed
             added   == WordBits * words
             filled  == WordBits * len
             pages   == d.NumberOfPages
  <2>7. used + added + (len + 1) <= after + (filled + WordBits)
    <3>1. CASE is_ram_type(d.Type)
      <4>1. added <= pages + WordBits - 1 /\ after = ram + pages  BY <2>3, <2>4, <3>1
      <4>2. used + len <= ram + filled  BY <2>2
      <4>3. /\ used \in Int /\ added \in Int /\ filled \in Int /\ pages \in Nat
            /\ ram \in Nat /\ len \in Nat
        BY <1>3, <1>4, <2>3, <2>5, <2>6
      <4> HIDE DEF used, added, filled, after, ram, len, pages
      <4> QED  BY <1>4, <4>1, <4>2, <4>3
    <3>2. CASE ~ is_ram_type(d.Type)
      <4>1. words = 0 /\ after = ram  BY <2>3, <3>2
      <4>2. added = 0  BY <1>4, <4>1
      <4>3. used + len <= ram + filled  BY <2>2
      <4>4. used \in Int /\ filled \in Int /\ ram \in Nat /\ len \in Nat
        BY <1>4, <2>3, <2>5, <2>6
      <4> HIDE DEF used, added, filled, after, ram, len
      <4> QED  BY <1>4, <4>1, <4>2, <4>3, <4>4
    <3> QED  BY <3>1, <3>2
  <2>8. WordBits * (WordsUsed + words) + (len + 1) <= after + WordBits * (len + 1)
    BY <2>5, <2>6, <2>7
  <2> QED  BY <1>5, <1>7, <2>1, <2>8 DEF WasteBounded
<1> QED  BY <1>8, <1>9, <1>10

LEMMA StorageInvInit == Init => StorageInv
<1> SUFFICES ASSUME NEW provisional \in MemoryMaps, NEW final \in MemoryMaps,
                    StartBuild(provisional, final)
             PROVE  StorageInv
  BY DEF Init
<1>1. BuildInv  BY BuildInvInit DEF Init
<1>2. storage.bitmap_words = counted \div WordBits + storage.block_capacity
  BY DEF StartBuild, pmm_storage
<1>3. pos = 1 /\ blocks = <<>> /\ words_left = storage.bitmap_words  BY DEF StartBuild
<1>4. mmap \in Seq(descriptor) /\ storage.bitmap_words \in Nat  BY <1>1 DEF BuildInv, BuildTypeOK
<1>5. Cardinality(RamBefore(mmap, pos)) = 0 /\ Cardinality(BlocksBefore(mmap, pos)) = 0
  BY <1>3, <1>4, NothingAtStart
<1>6. Len(blocks) = 0 /\ DOMAIN blocks = {}  BY <1>3
<1>7. WasteBounded
  <2>1. WordsUsed = 0  BY <1>3, <1>4 DEF WordsUsed
  <2>2. WordBits * 0 = 0  BY WordBitsAssumption
  <2> QED  BY <1>5, <1>6, <2>1, <2>2 DEF WasteBounded
<1>8. Managed(blocks)  BY <1>6 DEF Managed
<1> QED  BY <1>1, <1>2, <1>5, <1>6, <1>7, <1>8 DEF StorageInv

LEMMA StorageInvStep == StorageInv /\ [Next]_buildVars => StorageInv'
<1> SUFFICES ASSUME StorageInv, [Next]_buildVars PROVE StorageInv'  OBVIOUS
<1>1. BuildInv /\ BuildInv'  BY BuildInvStep DEF StorageInv
<1>2. blocks' \in Seq(pm_block)  BY <1>1 DEF BuildInv, BuildTypeOK
<1>3. storage' = storage /\ counted' = counted /\ mmap' = mmap
  BY DEF Next, build_pmm, SkipEmpty, StopWhenFull, AddUnmanaged, AddReclaimable, AddUsable,
         Add, buildVars
<1>4. storage'.bitmap_words = counted' \div WordBits + storage'.block_capacity
  BY <1>3 DEF StorageInv
<1> SUFFICES ASSUME NotGrown
             PROVE  /\ Len(blocks') = Cardinality(BlocksBefore(mmap, pos'))
                    /\ Managed(blocks')
                    /\ WasteBounded'
  BY <1>1, <1>3, <1>4 DEF StorageInv, NotGrown
<1>5. /\ Len(blocks) = Cardinality(BlocksBefore(mmap, pos)) /\ Managed(blocks)
      /\ WasteBounded
  BY DEF StorageInv
<1>6. mmap \in Seq(descriptor)  BY StorageFacts
<1>7. CASE SkipEmpty
  <2>1. pos \in DOMAIN mmap /\ pos' = pos + 1 /\ mmap[pos].NumberOfPages = 0
    BY <1>1, <1>7, CurrentDescriptor DEF SkipEmpty
  <2>2. /\ Cardinality(RamBefore(mmap, pos + 1)) = Cardinality(RamBefore(mmap, pos))
        /\ Cardinality(BlocksBefore(mmap, pos + 1)) = Cardinality(BlocksBefore(mmap, pos))
    BY <1>6, <2>1, RamStep, BlocksStep
  <2> QED  BY <1>3, <1>5, <1>7, <2>1, <2>2 DEF SkipEmpty, WasteBounded, WordsUsed
<1>8. CASE StopWhenFull
  <2>1. pos \in DOMAIN mmap /\ mmap[pos].NumberOfPages # 0
        /\ Len(blocks) = storage.block_capacity
    BY <1>1, <1>8, CurrentDescriptor DEF StopWhenFull
  <2>2. Len(blocks) + 1 <= block_count(mmap)  BY <1>5, <1>6, <2>1, BlocksStep
  <2>3. block_count(mmap) \in Nat /\ Len(blocks) \in Nat
    BY <1>6, CountsFinite, StorageFacts
  <2> QED  BY <2>1, <2>2, <2>3 DEF NotGrown
<1>9. ASSUME TakesBlock
      PROVE  mmap[pos] \in descriptor /\ Words(mmap[pos]) \in Nat /\ mmap[pos].NumberOfPages # 0
  BY <1>1, <1>9, CurrentDescriptor DEF TakesBlock
<1>10. CASE AddUnmanaged
  <2>1. TakesBlock /\ ~ GetsMap(mmap[pos]) /\ Add(Unmanaged(mmap[pos]), 0)
    BY <1>10 DEF AddUnmanaged
  <2>2. ~ is_ram_type(mmap[pos].Type)
    BY <2>1, WordsSuffice, RamTypesAgree DEF GetsMap
  <2>3. Unmanaged(mmap[pos]).type = TypeOf(mmap[pos].Type)  BY DEF Unmanaged
  <2> QED  BY <1>2, <2>1, <2>2, <2>3, AddKeepsStorage
<1>11. CASE AddReclaimable
  <2>1. TakesBlock /\ GetsMap(mmap[pos]) /\ Add(Reclaimable(mmap[pos]), Words(mmap[pos]))
    BY <1>11 DEF AddReclaimable
  <2>2. is_ram_type(mmap[pos].Type)  BY <2>1, RamTypesAgree DEF GetsMap
  <2>3. Reclaimable(mmap[pos]).type = TypeOf(mmap[pos].Type) /\ Reclaimable(mmap[pos]).has_map
    BY DEF Reclaimable, Unmanaged
  <2>4. Words(mmap[pos]) \in Nat  BY <1>9, <2>1
  <2> QED  BY <1>2, <2>1, <2>2, <2>3, <2>4, AddKeepsStorage
<1>12. CASE AddUsable
  <2>1. TakesBlock /\ GetsMap(mmap[pos]) /\ Add(Usable(mmap[pos]), Words(mmap[pos]))
    BY <1>12 DEF AddUsable
  <2>2. is_ram_type(mmap[pos].Type)  BY <2>1, RamTypesAgree DEF GetsMap
  <2>3. Usable(mmap[pos]).type = TypeOf(mmap[pos].Type) /\ Usable(mmap[pos]).has_map
    BY DEF Usable, Unmanaged
  <2>4. Words(mmap[pos]) \in Nat  BY <1>9, <2>1
  <2> QED  BY <1>2, <2>1, <2>2, <2>3, <2>4, AddKeepsStorage
<1>13. CASE UNCHANGED buildVars
  BY <1>5, <1>13 DEF buildVars, WasteBounded, WordsUsed
<1> QED  BY <1>7, <1>8, <1>10, <1>11, <1>12, <1>13 DEF Next, build_pmm

(* The reservation of reserve_pmm is exact: build_pmm leaves a region of   *)
(* RAM without a bitmap, or a descriptor without a block, only if the      *)
(* final map has more RAM, or more descriptors than the slack allows, than *)
(* the map the storage was sized from.                                     *)
THEOREM ReservationSuffices == Spec => []RunsOutOnlyIfMapGrew
<1>1. StorageInv => RunsOutOnlyIfMapGrew
  <2> SUFFICES ASSUME StorageInv, RanOut, NotGrown PROVE FALSE
    <3>1. mmap \in Seq(descriptor) => ram_frames(mmap) \in Nat /\ block_count(mmap) \in Nat
      BY CountsFinite
    <3>2. StorageInv => counted \in Nat /\ storage.block_capacity \in Nat /\ mmap \in Seq(descriptor)
      BY StorageFacts
    <3> QED  BY <3>1, <3>2 DEF RunsOutOnlyIfMapGrew, NotGrown
  <2>1. Managed(blocks) /\ Len(blocks) = Cardinality(BlocksBefore(mmap, pos))
    BY DEF StorageInv
  <2>2. Built /\ Len(blocks) < block_count(mmap)  BY <2>1 DEF RanOut, Managed
  <2>3. pos = Len(mmap) + 1 /\ mmap \in Seq(descriptor)
    BY <2>2 DEF StorageInv, BuildInv, BuildTypeOK, Built
  <2>4. Len(blocks) = block_count(mmap)  BY <2>1, <2>3, BlocksAtEnd
  <2>5. block_count(mmap) \in Nat  BY <2>3, CountsFinite
  <2> QED  BY <2>2, <2>4, <2>5
<1> QED  BY <1>1, StorageInvInit, StorageInvStep, PTL DEF Spec

=============================================================================
