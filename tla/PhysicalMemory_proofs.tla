----------------------- MODULE PhysicalMemory_proofs -----------------------
(***************************************************************************)
(* Proofs about PhysicalMemory, for every list of blocks that build_pmm    *)
(* may hand over, every word size and every set of callers' arguments.     *)
(***************************************************************************)
EXTENDS PhysicalMemory, PmmBlocks_proofs

-----------------------------------------------------------------------------
(* What the operations do to one block.                                    *)

(* A run of count frames has count elements.                               *)
LEMMA RunCardinality ==
  ASSUME NEW start \in Int, NEW count \in Nat
  PROVE  IsFiniteSet(Run(start, count)) /\ Cardinality(Run(start, count)) = count
BY IntervalCardinality DEF Run

(* Claiming clear bits and counting them keeps a block consistent.         *)
LEMMA ClaimKeepsBlock ==
  ASSUME NEW b \in pm_block, BlockConsistent(b),
         NEW bits, bits \subseteq FreeBits(b), bits # {}
  PROVE  LET c == Claim(b, bits, Cardinality(bits))
         IN  /\ c \in pm_block
             /\ BlockConsistent(c)
             /\ FreeBits(c) = FreeBits(b) \ bits
             /\ c.address = b.address /\ c.frames_total = b.frames_total
             /\ b.has_map /\ c.has_map
             /\ c.map = b.map \cup bits
<1> DEFINE count == Cardinality(bits)
           c     == Claim(b, bits, count)
<1>1. b.has_map  BY DEF FreeBits
<1>2. /\ FreeBits(b) \subseteq Nat /\ IsFiniteSet(FreeBits(b))
      /\ Cardinality(FreeBits(b)) \in Nat  BY FreeBitsFinite
<1>3. IsFiniteSet(bits) /\ count \in Nat /\ count <= Cardinality(FreeBits(b))
  BY <1>2, FS_Subset, FS_CardinalityType
<1>4. b.frames_free = Cardinality(FreeBits(b))  BY DEF BlockConsistent
<1>5. Minus(b.frames_free, count) = b.frames_free - count
  BY <1>2, <1>3, <1>4 DEF Minus
<1>6. b.frames_free \in 0 .. Wrap - 1  BY DEF pm_block
<1>7. b.frames_free - count \in 0 .. Wrap - 1
  BY <1>2, <1>3, <1>4, <1>6, WrapAssumption
<1>8. c = [b EXCEPT !.map = b.map \cup bits, !.frames_free = b.frames_free - count]
  BY <1>5 DEF Claim
<1>9. b.map \cup bits \subseteq Nat  BY <1>2 DEF pm_block
<1>10. c \in pm_block  BY <1>7, <1>8, <1>9 DEF pm_block
<1>11. /\ c.address = b.address /\ c.frames_total = b.frames_total
       /\ c.has_map = b.has_map /\ c.map = b.map \cup bits
       /\ c.frames_free = b.frames_free - count  BY <1>8 DEF pm_block
<1>12. FreeBits(c) = FreeBits(b) \ bits  BY <1>1, <1>11 DEF FreeBits
<1>13. Cardinality(FreeBits(b) \ bits) = Cardinality(FreeBits(b)) - count
  <2>1. FreeBits(b) \cap bits = bits  OBVIOUS
  <2> QED  BY <2>1, <1>2, FS_Difference
<1>14. BlockConsistent(c)
  <2>1. c.frames_free = Cardinality(FreeBits(c))  BY <1>4, <1>11, <1>12, <1>13
  <2>2. \A bit \in FreeBits(c) : bit < c.frames_total
    BY <1>11, <1>12 DEF BlockConsistent
  <2>3. c.map \subseteq MapBits(c.frames_total)
    BY <1>1, <1>11 DEF BlockConsistent, FreeBits
  <2> QED  BY <2>1, <2>2, <2>3 DEF BlockConsistent
<1> HIDE DEF c
<1> QED  BY <1>1, <1>10, <1>11, <1>12, <1>14 DEF c

(* Freeing a frame of a block keeps the block consistent and clears at     *)
(* most that frame's bit.                                                  *)
LEMMA FreeKeepsBlock ==
  ASSUME NEW b \in pm_block, BlockConsistent(b),
         NEW address \in Frames(b)
  PROVE  LET c == frame_free_from_block(b, address)
         IN  /\ c \in pm_block
             /\ BlockConsistent(c)
             /\ FreeBits(c) = IF b.has_map THEN FreeBits(b) \cup {address - b.address}
                                           ELSE {}
             /\ c.address = b.address /\ c.frames_total = b.frames_total
             /\ c.has_map = b.has_map
             /\ c.map = IF b.has_map THEN b.map \ {address - b.address} ELSE b.map
<1> DEFINE bit == address - b.address
           c   == frame_free_from_block(b, address)
<1>1. CASE ~ b.has_map  BY <1>1 DEF frame_free_from_block, FreeBits
<1>2. CASE b.has_map
  <2> DEFINE counter == IF bit \in b.map THEN Plus(b.frames_free, 1) ELSE b.frames_free
  <2>1. c = [b EXCEPT !.frames_free = counter, !.map = b.map \ {bit}]
    BY <1>2 DEF frame_free_from_block
  <2>2. /\ b.address \in Nat /\ b.frames_total \in Nat /\ b.frames_total < Wrap
        /\ b.frames_free \in Nat /\ b.frames_free < Wrap /\ b.map \subseteq Nat
        /\ Wrap \in Nat
    BY WrapAssumption DEF pm_block
  <2>3. bit \in 0 .. b.frames_total - 1  BY <2>2 DEF Frames
  <2>4. bit \in MapBits(b.frames_total)  BY <2>2, <2>3, MapCoversBlock
  <2>5. /\ c.address = b.address /\ c.frames_total = b.frames_total
        /\ c.has_map = b.has_map /\ c.map = b.map \ {bit}
        /\ c.frames_free = counter  BY <2>1 DEF pm_block
  <2>6. FreeBits(c) = FreeBits(b) \cup {bit}  BY <1>2, <2>4, <2>5 DEF FreeBits
  <2>7. /\ FreeBits(b) \subseteq Nat /\ IsFiniteSet(FreeBits(b))
        /\ Cardinality(FreeBits(b)) \in Nat  BY FreeBitsFinite
  <2>8. \A k \in FreeBits(c) : k < c.frames_total
    BY <2>2, <2>3, <2>5, <2>6 DEF BlockConsistent
  <2>9. counter = Cardinality(FreeBits(c)) /\ counter \in 0 .. Wrap - 1
    <3>1. b.frames_free = Cardinality(FreeBits(b))  BY DEF BlockConsistent
    <3>2. CASE bit \notin b.map
      <4>1. bit \in FreeBits(b)  BY <1>2, <3>2, <2>4 DEF FreeBits
      <4>2. FreeBits(c) = FreeBits(b)  BY <4>1, <2>6
      <4> QED  BY <3>1, <3>2, <4>2, <2>2
    <3>3. CASE bit \in b.map
      <4>1. bit \notin FreeBits(b)  BY <3>3 DEF FreeBits
      <4>2. Cardinality(FreeBits(c)) = Cardinality(FreeBits(b)) + 1
        BY <4>1, <2>6, <2>7, FS_AddElement
      <4>3. FreeBits(c) \subseteq 0 .. b.frames_total - 1
        BY <2>2, <2>3, <2>5, <2>6, <2>7, <2>8
      <4>4. /\ IsFiniteSet(0 .. b.frames_total - 1)
            /\ Cardinality(0 .. b.frames_total - 1) = b.frames_total
        <5>1. 0 .. b.frames_total - 1 = Run(0, b.frames_total)  BY <2>2 DEF Run
        <5> QED  BY <2>2, <5>1, RunCardinality
      <4>5. Cardinality(FreeBits(c)) <= b.frames_total  BY <4>3, <4>4, FS_Subset
      <4>6. Plus(b.frames_free, 1) = b.frames_free + 1
        BY <2>2, <3>1, <4>2, <4>5 DEF Plus
      <4> QED  BY <2>2, <3>1, <3>3, <4>2, <4>5, <4>6
    <3> QED  BY <3>2, <3>3
  <2> HIDE DEF counter
  <2>10. c \in pm_block
    <3>1. b.map \ {bit} \in SUBSET Nat  BY <2>2
    <3> QED  BY <2>1, <2>9, <3>1 DEF pm_block
  <2>11. BlockConsistent(c)
    <3>1. c.map \subseteq MapBits(c.frames_total)  BY <2>5 DEF BlockConsistent
    <3> QED  BY <2>5, <2>8, <2>9, <3>1 DEF BlockConsistent
  <2> HIDE DEF c
  <2> QED  BY <1>2, <2>5, <2>6, <2>10, <2>11 DEF c
<1> QED  BY <1>1, <1>2

-----------------------------------------------------------------------------
(* The same facts for a list of blocks, one of which changes.              *)

AllUsed(list) == UNION {UsedFrames(list[i]) : i \in DOMAIN list}
AllFree(list) == UNION {FreeFrames(list[i]) : i \in DOMAIN list}
Regions(list) == {Frames(list[i]) : i \in {k \in DOMAIN list : list[k].has_map}}

Good(list) == /\ list \in Seq(pm_block)
              /\ \A i \in DOMAIN list : BlockConsistent(list[i])
              /\ BlocksDisjoint(list)

(* Replacing one block by one with the same frames.                        *)
SameShape(b, c) == /\ c.address = b.address
                   /\ c.frames_total = b.frames_total
                   /\ c.has_map = b.has_map

Replaced(old, i, c, new) == new = [old EXCEPT ![i] = c]

LEMMA ReplaceBlock ==
  ASSUME NEW old, Good(old), NEW i \in DOMAIN old,
         NEW c \in pm_block, BlockConsistent(c),
         SameShape(old[i], c),
         NEW new, Replaced(old, i, c, new)
  PROVE  /\ Good(new)
         /\ DOMAIN new = DOMAIN old
         /\ \A k \in DOMAIN old : Frames(new[k]) = Frames(old[k])
         /\ Regions(new) = Regions(old)
         /\ new[i] = c
         /\ \A k \in DOMAIN old : k # i => new[k] = old[k]
<1>1. old \in Seq(pm_block)  BY DEF Good
<1>2. DOMAIN new = DOMAIN old  BY DEF Replaced
<1>3. new[i] = c /\ \A k \in DOMAIN old : k # i => new[k] = old[k]  BY DEF Replaced
<1>4. new \in Seq(pm_block)  BY <1>1 DEF Replaced
<1>5. \A k \in DOMAIN old : Frames(new[k]) = Frames(old[k])  BY <1>3 DEF Frames, SameShape
<1>6. BlocksDisjoint(new)  BY <1>2, <1>5 DEF Good, BlocksDisjoint
<1>7. \A k \in DOMAIN new : BlockConsistent(new[k])  BY <1>2, <1>3 DEF Good
<1>8. \A k \in DOMAIN old : new[k].has_map = old[k].has_map
  BY <1>3 DEF SameShape
<1>9. Regions(new) = Regions(old)  BY <1>2, <1>5, <1>8 DEF Regions
<1> QED  BY <1>2, <1>3, <1>4, <1>5, <1>6, <1>7, <1>9 DEF Good

(* Claiming bits of one block moves exactly their frames from free to      *)
(* used, in the whole list.                                                *)
Claimed(old, i, bits, new, frames) ==
  /\ new = [old EXCEPT ![i] = Claim(old[i], bits, Cardinality(bits))]
  /\ frames = {old[i].address + bit : bit \in bits}

LEMMA ClaimInList ==
  ASSUME NEW old, Good(old), NEW i \in DOMAIN old,
         NEW bits, bits \subseteq FreeBits(old[i]), bits # {},
         NEW new, NEW frames, Claimed(old, i, bits, new, frames)
  PROVE  /\ Good(new)
         /\ Regions(new) = Regions(old)
         /\ AllUsed(new) = AllUsed(old) \cup frames
         /\ AllFree(new) = AllFree(old) \ frames
         /\ old[i].has_map
         /\ frames \subseteq Frames(old[i])
         /\ frames \subseteq AllFree(old)
         /\ frames \cap AllUsed(old) = {}
<1> DEFINE b == old[i]
           c == Claim(b, bits, Cardinality(bits))
<1>1. \A k \in DOMAIN old : old[k] \in pm_block /\ BlockConsistent(old[k])  BY DEF Good
<1>2. b \in pm_block /\ BlockConsistent(b)  BY <1>1
<1>3. /\ c \in pm_block /\ BlockConsistent(c)
      /\ FreeBits(c) = FreeBits(b) \ bits
      /\ c.address = b.address /\ c.frames_total = b.frames_total
      /\ b.has_map /\ c.has_map /\ c.map = b.map \cup bits
  BY <1>2, ClaimKeepsBlock
<1> HIDE DEF c
<1>4. c.has_map = b.has_map
  <2>1. b.has_map = TRUE  BY <1>2, <1>3 DEF pm_block
  <2>2. c.has_map = TRUE  BY <1>3 DEF pm_block
  <2> QED  BY <2>1, <2>2
<1>5. Replaced(old, i, c, new)  BY DEF c, Replaced, Claimed
<1>6. /\ Good(new) /\ DOMAIN new = DOMAIN old
      /\ Regions(new) = Regions(old)
      /\ new[i] = c
      /\ \A k \in DOMAIN old : k # i => new[k] = old[k]
  <2>1. SameShape(old[i], c)  BY <1>3, <1>4 DEF SameShape
  <2>2. c \in pm_block /\ BlockConsistent(c)  BY <1>3
  <2> QED  BY <1>5, <2>1, <2>2, ReplaceBlock
<1>7. b.address \in Nat /\ FreeBits(b) \subseteq Nat  BY <1>2, FreeBitsFinite DEF pm_block
<1>8. frames \subseteq FreeFrames(b)  BY DEF FreeFrames, Claimed
<1>9. \A k \in DOMAIN old : /\ FreeFrames(old[k]) \subseteq Frames(old[k])
                            /\ UsedFrames(old[k]) \subseteq Frames(old[k])
                            /\ FreeFrames(old[k]) \cap UsedFrames(old[k]) = {}
  BY <1>1, FreeFramesInBlock
<1>10. frames \subseteq Frames(b)  BY <1>8, <1>9
<1>11. FreeFrames(c) = FreeFrames(b) \ frames
  BY <1>3, <1>7 DEF FreeFrames, Claimed
<1>12. UsedFrames(c) = UsedFrames(b) \cup frames
  <2>1. Frames(c) = Frames(b)  BY <1>3 DEF Frames
  <2>2. \A f \in Frames(b) : f \in Int  BY <1>7 DEF Frames
  <2>3. \A f \in Frames(b) : f - b.address \in bits <=> f \in frames
    BY <1>7, <2>2 DEF Claimed
  <2>4. UsedFrames(c) = {f \in Frames(b) : f - b.address \in b.map \cup bits}
    BY <1>3, <2>1 DEF UsedFrames
  <2>5. UsedFrames(b) = {f \in Frames(b) : f - b.address \in b.map}
    BY <1>3 DEF UsedFrames
  <2> QED  BY <2>3, <2>4, <2>5, <1>10
<1>13. \A k \in DOMAIN old : k # i => Frames(old[k]) \cap frames = {}
  BY <1>10 DEF Good, BlocksDisjoint
<1>14. AllFree(new) = AllFree(old) \ frames
  <2>1. \A k \in DOMAIN old : FreeFrames(new[k]) = FreeFrames(old[k]) \ frames
    BY <1>6, <1>9, <1>11, <1>13
  <2> QED  BY <1>6, <2>1 DEF AllFree
<1>15. AllUsed(new) = AllUsed(old) \cup frames
  <2>1. \A k \in DOMAIN old :
           UsedFrames(new[k]) = IF k = i THEN UsedFrames(old[k]) \cup frames
                                         ELSE UsedFrames(old[k])
    BY <1>6, <1>12
  <2>2. ASSUME NEW f \in AllUsed(new) PROVE f \in AllUsed(old) \cup frames
    <3>1. PICK k \in DOMAIN old : f \in UsedFrames(new[k])  BY <1>6 DEF AllUsed
    <3>2. f \in UsedFrames(old[k]) \cup frames  BY <2>1, <3>1
    <3> QED  BY <3>2 DEF AllUsed
  <2>3. \A f \in AllUsed(old) : f \in AllUsed(new)  BY <1>6, <2>1 DEF AllUsed
  <2>4. UsedFrames(new[i]) = UsedFrames(old[i]) \cup frames  BY <2>1
  <2>5. \A f \in frames : f \in AllUsed(new)  BY <1>6, <2>4 DEF AllUsed
  <2> QED  BY <2>2, <2>3, <2>5
<1>16. frames \cap AllUsed(old) = {}
  <2>1. \A k \in DOMAIN old : frames \cap UsedFrames(old[k]) = {}
    BY <1>8, <1>9, <1>13
  <2> QED  BY <2>1 DEF AllUsed
<1>17. frames \subseteq AllFree(old)  BY <1>8 DEF AllFree
<1> QED  BY <1>3, <1>6, <1>10, <1>14, <1>15, <1>16, <1>17

(* Freeing a frame of one block takes exactly that frame from used to      *)
(* free, if its block is managed.                                          *)
LEMMA FreeInList ==
  ASSUME NEW old, Good(old), NEW i \in DOMAIN old,
         NEW address \in Frames(old[i]),
         NEW new, Replaced(old, i, frame_free_from_block(old[i], address), new)
  PROVE  /\ Good(new)
         /\ Regions(new) = Regions(old)
         /\ AllUsed(new) = AllUsed(old) \ {address}
         /\ AllFree(new) = AllFree(old) \cup ({address} \cap UNION Regions(old))
<1> DEFINE b == old[i]
           c == frame_free_from_block(b, address)
<1>1. \A k \in DOMAIN old : old[k] \in pm_block /\ BlockConsistent(old[k])  BY DEF Good
<1>2. b \in pm_block /\ BlockConsistent(b)  BY <1>1
<1>3. /\ c \in pm_block /\ BlockConsistent(c)
      /\ FreeBits(c) = IF b.has_map THEN FreeBits(b) \cup {address - b.address} ELSE {}
      /\ c.address = b.address /\ c.frames_total = b.frames_total
      /\ c.has_map = b.has_map
      /\ c.map = IF b.has_map THEN b.map \ {address - b.address} ELSE b.map
  BY <1>2, FreeKeepsBlock
<1> HIDE DEF c
<1>4. Replaced(old, i, c, new)  BY DEF c
<1>5. /\ Good(new) /\ DOMAIN new = DOMAIN old
      /\ Regions(new) = Regions(old)
      /\ new[i] = c
      /\ \A k \in DOMAIN old : k # i => new[k] = old[k]
  <2>1. SameShape(old[i], c)  BY <1>3 DEF SameShape
  <2>2. c \in pm_block /\ BlockConsistent(c)  BY <1>3
  <2> QED  BY <1>4, <2>1, <2>2, ReplaceBlock
<1>6. b.address \in Nat /\ b.frames_total \in Nat  BY <1>2, WrapAssumption DEF pm_block
<1>7. Frames(c) = Frames(b)  BY <1>3 DEF Frames
<1>8. \A f \in Frames(b) : f \in Int  BY <1>6 DEF Frames
<1>9. \A k \in DOMAIN old : k # i => address \notin Frames(old[k])
  BY DEF Good, BlocksDisjoint
<1>10. UsedFrames(c) = UsedFrames(b) \ {address}
  <2>1. CASE ~ b.has_map  BY <2>1, <1>3 DEF UsedFrames
  <2>2. CASE b.has_map
    <3>1. UsedFrames(c) = {f \in Frames(b) : f - b.address \in b.map \ {address - b.address}}
      BY <2>2, <1>3, <1>7 DEF UsedFrames
    <3>2. UsedFrames(b) = {f \in Frames(b) : f - b.address \in b.map}
      BY <2>2 DEF UsedFrames
    <3>3. \A f \in Frames(b) : f - b.address = address - b.address <=> f = address
      BY <1>6, <1>8
    <3> QED  BY <3>1, <3>2, <3>3
  <2> QED  BY <2>1, <2>2
<1>11. AllUsed(new) = AllUsed(old) \ {address}
  <2>1. \A k \in DOMAIN old : UsedFrames(old[k]) \subseteq Frames(old[k])
    BY DEF UsedFrames
  <2>2. \A k \in DOMAIN old : UsedFrames(new[k]) = UsedFrames(old[k]) \ {address}
    BY <1>5, <1>9, <1>10, <2>1
  <2> QED  BY <1>5, <2>2 DEF AllUsed
<1>12. CASE ~ b.has_map
  <2>1. address \notin UNION Regions(old)  BY <1>9, <1>12 DEF Regions
  <2>2. FreeFrames(c) = FreeFrames(b)  BY <1>3, <1>12 DEF FreeFrames, FreeBits
  <2>3. \A k \in DOMAIN old : FreeFrames(new[k]) = FreeFrames(old[k])  BY <1>5, <2>2
  <2>4. AllFree(new) = AllFree(old)  BY <1>5, <2>3 DEF AllFree
  <2> QED  BY <1>5, <1>11, <2>1, <2>4
<1>13. CASE b.has_map
  <2>1. address \in UNION Regions(old)  BY <1>13 DEF Regions
  <2>2. FreeFrames(c) = FreeFrames(b) \cup {address}
    <3>1. FreeBits(c) = FreeBits(b) \cup {address - b.address}  BY <1>3, <1>13
    <3>2. b.address + (address - b.address) = address  BY <1>6, <1>8
    <3>3. FreeFrames(c) = {b.address + bit : bit \in FreeBits(b) \cup {address - b.address}}
      BY <1>3, <3>1 DEF FreeFrames
    <3> QED  BY <3>2, <3>3 DEF FreeFrames
  <2>3. \A k \in DOMAIN old :
           FreeFrames(new[k]) = IF k = i THEN FreeFrames(old[k]) \cup {address}
                                         ELSE FreeFrames(old[k])
    BY <1>5, <2>2
  <2>4. AllFree(new) = AllFree(old) \cup {address}
    <3>1. ASSUME NEW f \in AllFree(new) PROVE f \in AllFree(old) \cup {address}
      <4>1. PICK k \in DOMAIN old : f \in FreeFrames(new[k])  BY <1>5 DEF AllFree
      <4>2. f \in FreeFrames(old[k]) \cup {address}  BY <2>3, <4>1
      <4> QED  BY <4>2 DEF AllFree
    <3>2. \A f \in AllFree(old) : f \in AllFree(new)  BY <1>5, <2>3 DEF AllFree
    <3>3. FreeFrames(new[i]) = FreeFrames(old[i]) \cup {address}  BY <2>3
    <3>4. address \in AllFree(new)  BY <1>5, <3>3 DEF AllFree
    <3> QED  BY <3>1, <3>2, <3>4
  <2> QED  BY <1>5, <1>11, <2>1, <2>4
<1> QED  BY <1>12, <1>13

-----------------------------------------------------------------------------
(* What the three operations do to the whole list.                         *)

(* The inductive invariant.  OwnershipExact alone is not inductive: that a *)
(* freed frame leaves no other block's bitmap needs disjoint blocks, and   *)
(* that a claimed frame is new to the callers needs exact bitmaps.         *)
Inv == /\ TypeOK
       /\ Good(blocks)
       /\ held \cap reserved = {}
       /\ held \cup reserved = AllUsed(blocks)

(* A call that hands out the run of count frames at start.                 *)
Granted(op, count, start) ==
  /\ \E i \in DOMAIN blocks : /\ blocks[i].has_map
                              /\ Run(start, count) \subseteq Frames(blocks[i])
                              /\ start \in Frames(blocks[i])
  /\ Run(start, count) \subseteq AllFree(blocks)
  /\ Run(start, count) \cap AllUsed(blocks) = {}
  /\ Good(blocks')
  /\ Regions(blocks') = Regions(blocks)
  /\ AllUsed(blocks') = AllUsed(blocks) \cup Run(start, count)
  /\ AllFree(blocks') = AllFree(blocks) \ Run(start, count)
  /\ held' = held \cup Run(start, count)
  /\ reserved' = reserved
  /\ last' = [op |-> op, arg |-> count, result |-> start]

(* frame_allocate_from_block hands out one free frame.                     *)
LEMMA FrameGranted ==
  ASSUME Inv, NEW i \in DOMAIN blocks, NEW bit \in FreeBits(blocks[i]),
         frame_allocate_from_block(i, bit)
  PROVE  Granted("frame_allocate", 1, blocks[i].address + bit)
<1> DEFINE b      == blocks[i]
           bits   == {bit}
           frames == {b.address + bit}
<1>1. Good(blocks)  BY DEF Inv
<1>2. b \in pm_block  BY <1>1 DEF Good
<1>3. b.address \in Nat /\ bit \in Nat  BY <1>2, FreeBitsFinite DEF pm_block
<1>4. Cardinality(bits) = 1  BY FS_Singleton
<1>5. blocks' = [blocks EXCEPT ![i] = Claim(blocks[i], bits, Cardinality(bits))]
  BY <1>4 DEF frame_allocate_from_block
<1>6. Run(b.address + bit, 1) = frames  BY <1>3 DEF Run
<1>7. Claimed(blocks, i, bits, blocks', frames)  BY <1>5 DEF Claimed
<1>8. bits # {} /\ bits \subseteq FreeBits(b)  OBVIOUS
<1>9. b.address + bit \in frames  OBVIOUS
<1>10. held' = held \cup frames /\ reserved' = reserved
       /\ last' = [op |-> "frame_allocate", arg |-> 1, result |-> b.address + bit]
  BY DEF frame_allocate_from_block, Call
<1> HIDE DEF bits, frames
<1>11. /\ Good(blocks')
       /\ Regions(blocks') = Regions(blocks)
       /\ AllUsed(blocks') = AllUsed(blocks) \cup frames
       /\ AllFree(blocks') = AllFree(blocks) \ frames
       /\ b.has_map
       /\ frames \subseteq Frames(b)
       /\ frames \subseteq AllFree(blocks)
       /\ frames \cap AllUsed(blocks) = {}
  BY <1>1, <1>7, <1>8, ClaimInList
<1>12. b.address + bit \in Frames(b)  BY <1>9, <1>11
<1> QED  BY <1>6, <1>10, <1>11, <1>12 DEF Granted

(* frames_allocate_from_block hands out a run of free frames.              *)
LEMMA RunGranted ==
  ASSUME Inv, NEW i \in DOMAIN blocks, NEW count \in Nat, count > 0,
         blocks[i].has_map,
         NEW start \in 0 .. blocks[i].frames_total - 1,
         frames_allocate_from_block(i, start, count)
  PROVE  Granted("frames_allocate", count, blocks[i].address + start)
<1> DEFINE b      == blocks[i]
           bits   == Run(start, count)
           frames == Run(b.address + start, count)
<1>1. Good(blocks)  BY DEF Inv
<1>2. b \in pm_block  BY <1>1 DEF Good
<1>3. b.address \in Nat /\ b.frames_total \in Nat  BY <1>2, WrapAssumption DEF pm_block
<1>4. start \in Nat  BY <1>3
<1>5. bits \subseteq FreeBits(b)
  <2>1. \A f \in bits : f \in Nat  BY <1>4 DEF Run
  <2>2. \A f \in bits : f < b.frames_total /\ f \notin b.map
    BY DEF frames_allocate_from_block, IsFreeRun
  <2>3. \A f \in bits : f \in MapBits(b.frames_total)
    BY <1>3, <2>1, <2>2, MapCoversBlock
  <2> QED  BY <2>2, <2>3 DEF FreeBits
<1>6. Cardinality(bits) = count  BY <1>4, RunCardinality
<1>7. start \in bits  BY <1>4 DEF Run
<1>8. frames = {b.address + k : k \in bits}
  <2>1. \A f \in frames : f - b.address \in bits /\ f = b.address + (f - b.address)
    BY <1>3, <1>4 DEF Run
  <2>2. \A k \in bits : b.address + k \in frames  BY <1>3, <1>4 DEF Run
  <2> QED  BY <2>1, <2>2
<1>9. b.address + start \in frames  BY <1>7, <1>8
<1>10. blocks' = [blocks EXCEPT ![i] = Claim(blocks[i], bits, Cardinality(bits))]
  BY <1>6 DEF frames_allocate_from_block
<1>11. held' = held \cup frames /\ reserved' = reserved
       /\ last' = [op |-> "frames_allocate", arg |-> count, result |-> b.address + start]
  BY DEF frames_allocate_from_block, Call
<1> HIDE DEF bits, frames
<1>12. Claimed(blocks, i, bits, blocks', frames)  BY <1>8, <1>10 DEF Claimed
<1>13. /\ Good(blocks')
       /\ Regions(blocks') = Regions(blocks)
       /\ AllUsed(blocks') = AllUsed(blocks) \cup frames
       /\ AllFree(blocks') = AllFree(blocks) \ frames
       /\ b.has_map
       /\ frames \subseteq Frames(b)
       /\ frames \subseteq AllFree(blocks)
       /\ frames \cap AllUsed(blocks) = {}
  BY <1>1, <1>5, <1>7, <1>12, ClaimInList
<1>14. b.address + start \in Frames(b)  BY <1>9, <1>13
<1> QED  BY <1>11, <1>13, <1>14 DEF Granted, frames

(* A call that hands out frames keeps the invariant.                       *)
LEMMA GrantedKeepsInv ==
  ASSUME Inv, NEW op \in {"frame_allocate", "frames_allocate"}, NEW count \in Nat,
         NEW start, Granted(op, count, start)
  PROVE  Inv'
<1>1. PICK i \in DOMAIN blocks : start \in Frames(blocks[i])
                                /\ Run(start, count) \subseteq Frames(blocks[i])
  BY DEF Granted
<1>2. blocks[i] \in pm_block  BY DEF Inv, Good
<1>3. Frames(blocks[i]) \subseteq Nat
  BY <1>2, WrapAssumption DEF pm_block, Frames
<1>4. start \in Nat /\ Run(start, count) \subseteq Nat  BY <1>1, <1>3
<1>5. last' = [op |-> op, arg |-> count, result |-> start]  BY DEF Granted
<1>6. TypeOK'
  <2>1. blocks' \in Seq(pm_block)  BY DEF Granted, Good
  <2>2. held' \subseteq Nat /\ reserved' \subseteq Nat
    BY <1>4 DEF Granted, Inv, TypeOK
  <2>3. last' \in [op : {"boot", "frame_allocate", "frames_allocate", "frame_free"},
                   arg : Nat, result : Nat \cup {NoFrame}]
    BY <1>4, <1>5
  <2> QED  BY <2>1, <2>2, <2>3 DEF TypeOK
<1>7. held' \cup reserved' = AllUsed(blocks')  BY DEF Granted, Inv
<1>8. held' \cap reserved' = {}  BY DEF Granted, Inv
<1>9. Good(blocks')  BY DEF Granted
<1> QED  BY <1>6, <1>7, <1>8, <1>9 DEF Inv

(* A call of frame_free that finds nothing to clear, or clears one bit.    *)
Released(address) ==
  /\ Good(blocks')
  /\ Regions(blocks') = Regions(blocks)
  /\ AllUsed(blocks') = AllUsed(blocks) \ {address}
  /\ AllFree(blocks') = AllFree(blocks) \cup ({address} \cap UNION Regions(blocks))
  /\ held' = held \ {address}
  /\ reserved' = reserved \ {address}
  /\ last' = [op |-> "frame_free", arg |-> address, result |-> NoFrame]

(* frame_free releases the frame, in whatever block or in none.            *)
LEMMA FrameReleased ==
  ASSUME Inv, NEW address \in Nat, frame_free(address)
  PROVE  Released(address)
<1>1. Good(blocks)  BY DEF Inv
<1>2. /\ held' = held \ {address} /\ reserved' = reserved \ {address}
      /\ last' = [op |-> "frame_free", arg |-> address, result |-> NoFrame]
  BY DEF frame_free, Call
<1>3. CASE \E i \in DOMAIN blocks :
             /\ address \in Frames(blocks[i])
             /\ blocks' = [blocks EXCEPT ![i] = frame_free_from_block(@, address)]
  <2>1. PICK i \in DOMAIN blocks :
             /\ address \in Frames(blocks[i])
             /\ Replaced(blocks, i, frame_free_from_block(blocks[i], address), blocks')
    BY <1>3 DEF Replaced
  <2>2. /\ Good(blocks')
        /\ Regions(blocks') = Regions(blocks)
        /\ AllUsed(blocks') = AllUsed(blocks) \ {address}
        /\ AllFree(blocks') = AllFree(blocks) \cup ({address} \cap UNION Regions(blocks))
    BY <1>1, <2>1, FreeInList
  <2> QED  BY <1>2, <2>2 DEF Released
<1>4. CASE /\ \A i \in DOMAIN blocks : address \notin Frames(blocks[i])
           /\ blocks' = blocks
  <2>1. address \notin UNION Regions(blocks)  BY <1>4 DEF Regions
  <2>2. address \notin AllUsed(blocks)  BY <1>4 DEF AllUsed, UsedFrames
  <2>3. /\ Good(blocks') /\ Regions(blocks') = Regions(blocks)
        /\ AllUsed(blocks') = AllUsed(blocks) /\ AllFree(blocks') = AllFree(blocks)
    BY <1>1, <1>4
  <2> QED  BY <1>2, <2>1, <2>2, <2>3 DEF Released
<1> QED  BY <1>3, <1>4 DEF frame_free

(* A released frame leaves the invariant intact.                           *)
LEMMA ReleasedKeepsInv ==
  ASSUME Inv, NEW address \in Nat, Released(address)
  PROVE  Inv'
<1>1. last' \in [op : {"boot", "frame_allocate", "frames_allocate", "frame_free"},
                 arg : Nat, result : Nat \cup {NoFrame}]
  BY DEF Released
<1>2. blocks' \in Seq(pm_block)  BY DEF Released, Good
<1>3. held' \subseteq Nat /\ reserved' \subseteq Nat  BY DEF Released, Inv, TypeOK
<1>4. TypeOK'  BY <1>1, <1>2, <1>3 DEF TypeOK
<1>5. held' \cap reserved' = {}  BY DEF Released, Inv
<1>6. held' \cup reserved' = AllUsed(blocks')  BY DEF Released, Inv
<1>7. Good(blocks')  BY DEF Released
<1> QED  BY <1>4, <1>5, <1>6, <1>7 DEF Inv

(* A call that fails changes nothing but the record of the last call.      *)
Refused(op, count) == /\ last' = [op |-> op, arg |-> count, result |-> NoFrame]
                      /\ UNCHANGED <<blocks, held, reserved>>

LEMMA RefusedKeepsInv ==
  ASSUME Inv, NEW op \in {"frame_allocate", "frames_allocate"}, NEW count \in Nat,
         Refused(op, count)
  PROVE  Inv'
<1>1. last' \in [op : {"boot", "frame_allocate", "frames_allocate", "frame_free"},
                 arg : Nat, result : Nat \cup {NoFrame}]
  BY DEF Refused
<1>2. TypeOK'  BY <1>1 DEF Refused, Inv, TypeOK
<1> QED  BY <1>2 DEF Refused, Inv

(* Every step is one of the three.                                         *)
LEMMA NextCases ==
  ASSUME Inv, Next
  PROVE  \/ \E start : Granted("frame_allocate", 1, start)
         \/ /\ \A i \in DOMAIN blocks : ~ Offers(blocks[i])
            /\ Refused("frame_allocate", 1)
         \/ \E count \in Counts :
              \/ count > 0 /\ \E start : Granted("frames_allocate", count, start)
              \/ /\ count = 0 \/ \A i \in DOMAIN blocks : ~ OffersRun(blocks[i], count)
                 /\ Refused("frames_allocate", count)
         \/ \E address \in Freeable : Released(address)
<1>1. CASE frame_allocate
  BY <1>1, FrameGranted DEF frame_allocate, Refused, Call
<1>2. ASSUME NEW count \in Counts, frames_allocate(count)
      PROVE  \/ count > 0 /\ \E start : Granted("frames_allocate", count, start)
             \/ /\ count = 0 \/ \A i \in DOMAIN blocks : ~ OffersRun(blocks[i], count)
                /\ Refused("frames_allocate", count)
  <2>1. count \in Nat  BY CountsAssumption
  <2>2. CASE \E i \in DOMAIN blocks :
               /\ count > 0
               /\ OffersRun(blocks[i], count)
               /\ \E start \in 0 .. blocks[i].frames_total - 1 :
                    frames_allocate_from_block(i, start, count)
    BY <2>1, <2>2, RunGranted DEF OffersRun
  <2>3. CASE /\ count = 0 \/ \A i \in DOMAIN blocks : ~ OffersRun(blocks[i], count)
             /\ Call("frames_allocate", count, NoFrame)
             /\ UNCHANGED <<blocks, held, reserved>>
    BY <2>3 DEF Refused, Call
  <2> QED  BY <1>2, <2>2, <2>3 DEF frames_allocate
<1>3. ASSUME NEW address \in Freeable, frame_free(address)
      PROVE  Released(address)
  BY <1>3, FrameReleased, FreeableAssumption
<1> QED  BY <1>1, <1>2, <1>3 DEF Next

(* The invariant holds initially and is kept by every step.                *)
LEMMA InitInv == Init => Inv
<1> SUFFICES ASSUME Init PROVE Inv  OBVIOUS
<1>1. Good(blocks)  BY PmmsAssumption DEF Init, Good
<1>2. reserved = AllUsed(blocks)  BY DEF Init, AllUsed
<1>3. reserved \subseteq Nat
  <2>1. \A i \in DOMAIN blocks : blocks[i] \in pm_block  BY <1>1 DEF Good
  <2>2. \A i \in DOMAIN blocks : Frames(blocks[i]) \subseteq Nat
    BY <2>1, WrapAssumption DEF pm_block, Frames
  <2>3. \A i \in DOMAIN blocks : UsedFrames(blocks[i]) \subseteq Nat
    BY <2>2 DEF UsedFrames
  <2> QED  BY <1>2, <2>3 DEF AllUsed
<1>4. last \in [op : {"boot", "frame_allocate", "frames_allocate", "frame_free"},
                arg : Nat, result : Nat \cup {NoFrame}]
  BY DEF Init
<1>5. TypeOK  BY <1>1, <1>3, <1>4 DEF Init, TypeOK, Good
<1> QED  BY <1>1, <1>2, <1>5 DEF Inv, Init

LEMMA NextInv == Inv /\ [Next]_vars => Inv'
<1> SUFFICES ASSUME Inv, [Next]_vars PROVE Inv'  OBVIOUS
<1>1. CASE Next
  <2>1. \A count \in Counts : count \in Nat  BY CountsAssumption
  <2>2. \A address \in Freeable : address \in Nat  BY FreeableAssumption
  <2> QED  BY <1>1, <2>1, <2>2, NextCases, GrantedKeepsInv, RefusedKeepsInv,
              ReleasedKeepsInv
<1>2. CASE UNCHANGED vars  BY <1>2 DEF vars, Inv, TypeOK
<1> QED  BY <1>1, <1>2

LEMMA InvHolds == Spec => []Inv
BY InitInv, NextInv, PTL DEF Spec

-----------------------------------------------------------------------------

(* The variables keep their types, counters within 64 bits included.       *)
THEOREM TypeCorrect == Spec => []TypeOK
<1>1. Inv => TypeOK  BY DEF Inv
<1> QED  BY <1>1, InvHolds, PTL

(* Counters and bitmaps agree for ever, whatever callers allocate and      *)
(* free, double and stray frees included.                                  *)
THEOREM CountersStayExact == Spec => []CountersExact
<1>1. Inv => CountersExact  BY DEF Inv, Good, CountersExact
<1> QED  BY <1>1, InvHolds, PTL

(* No frame is ever owned twice or lost.                                   *)
THEOREM OwnershipStaysExact == Spec => []OwnershipExact
<1>1. Inv => OwnershipExact  BY DEF Inv, OwnershipExact, AllUsed
<1> QED  BY <1>1, InvHolds, PTL

(* Frame 0, kept back by build_pmm, stays kept back as long as nobody      *)
(* passes it to frame_free: the condition that the run reclaim_zero drops. *)
THEOREM ZeroProtected ==
  ASSUME 0 \notin Freeable
  PROVE  Spec => []ZeroNeverHandedOut
<1> DEFINE ZeroInv == 0 \notin AllFree(blocks) /\ 0 \notin held
<1>1. Init => ZeroInv
  <2> SUFFICES ASSUME Init PROVE ZeroInv  OBVIOUS
  <2>1. \A i \in DOMAIN blocks : 0 \notin FreeFrames(blocks[i])
    BY PmmsAssumption DEF Init
  <2> QED  BY <2>1 DEF AllFree, Init
<1>2. Inv /\ ZeroInv /\ [Next]_vars => ZeroInv'
  <2> SUFFICES ASSUME Inv, ZeroInv, [Next]_vars PROVE ZeroInv'  OBVIOUS
  <2>1. ASSUME NEW op, NEW count, NEW start, Granted(op, count, start) PROVE ZeroInv'
    BY <2>1 DEF Granted
  <2>2. ASSUME NEW op, NEW count, Refused(op, count) PROVE ZeroInv'
    BY <2>2 DEF Refused
  <2>3. ASSUME NEW address \in Freeable, Released(address) PROVE ZeroInv'
    BY <2>3 DEF Released
  <2>4. CASE Next  BY <2>1, <2>2, <2>3, <2>4, NextCases
  <2>5. CASE UNCHANGED vars  BY <2>5 DEF vars
  <2> QED  BY <2>4, <2>5
<1>3. ZeroInv => ZeroNeverHandedOut  BY DEF ZeroNeverHandedOut
<1> QED  BY <1>1, <1>2, <1>3, InvHolds, PTL DEF Spec

-----------------------------------------------------------------------------
(* The refinement.                                                         *)

(* frame_allocate fails only if no frame is free.                          *)
LEMMA NoFrameLeft ==
  ASSUME Inv, \A i \in DOMAIN blocks : ~ Offers(blocks[i])
  PROVE  AllFree(blocks) = {}
<1> SUFFICES ASSUME NEW i \in DOMAIN blocks PROVE FreeFrames(blocks[i]) = {}
  BY DEF AllFree
<1> DEFINE b == blocks[i]
<1>1. b \in pm_block /\ b.frames_free = Cardinality(FreeBits(b))
  BY DEF Inv, Good, BlockConsistent
<1>2. IsFiniteSet(FreeBits(b))  BY <1>1, FreeBitsFinite
<1>3. b.frames_free = 0 => FreeBits(b) = {}  BY <1>1, <1>2, FS_EmptySet
<1>4. FreeBits(b) = {}  BY <1>3 DEF Offers
<1> QED  BY <1>4 DEF FreeFrames

(* frames_allocate fails only if no managed block has such a run, however  *)
(* its clear bits lie across words.                                        *)
LEMMA NoRunLeft ==
  ASSUME Inv, NEW count \in Nat, count > 0,
         \A i \in DOMAIN blocks : ~ OffersRun(blocks[i], count),
         NEW r \in Regions(blocks), NEW start \in r,
         Run(start, count) \subseteq r \cap AllFree(blocks)
  PROVE  FALSE
<1>1. PICK i \in DOMAIN blocks : blocks[i].has_map /\ r = Frames(blocks[i])
  BY DEF Regions
<1> DEFINE b     == blocks[i]
           first == start - b.address
<1>2. \A k \in DOMAIN blocks : blocks[k] \in pm_block /\ BlockConsistent(blocks[k])
  BY DEF Inv, Good
<1>3. b.address \in Nat /\ b.frames_total \in Nat
  BY <1>2, WrapAssumption DEF pm_block
<1>4. start \in Int /\ first \in 0 .. b.frames_total - 1 /\ first \in Nat
  BY <1>1, <1>3 DEF Frames
<1>5. \A k \in DOMAIN blocks : FreeFrames(blocks[k]) \subseteq Frames(blocks[k])
  BY <1>2, FreeFramesInBlock
<1>6. \A f \in Run(start, count) : f \in FreeFrames(b)
  <2> SUFFICES ASSUME NEW f \in Run(start, count) PROVE f \in FreeFrames(b)  OBVIOUS
  <2>1. PICK k \in DOMAIN blocks : f \in FreeFrames(blocks[k])  BY DEF AllFree
  <2>2. f \in Frames(blocks[k]) /\ f \in Frames(b)  BY <1>1, <1>5, <2>1
  <2>3. k = i  BY <2>2 DEF Inv, Good, BlocksDisjoint
  <2> QED  BY <2>1, <2>3
<1>7. Run(first, count) \subseteq FreeBits(b)
  <2> SUFFICES ASSUME NEW g \in Run(first, count) PROVE g \in FreeBits(b)  OBVIOUS
  <2>1. g \in Int /\ b.address + g \in Run(start, count)  BY <1>3, <1>4 DEF Run
  <2>2. PICK bit \in FreeBits(b) : b.address + g = b.address + bit
    BY <1>6, <2>1 DEF FreeFrames
  <2>3. bit \in Nat  BY <1>2, FreeBitsFinite
  <2>4. g = bit  BY <1>3, <2>1, <2>2, <2>3
  <2> QED  BY <2>4
<1>8. \A g \in FreeBits(b) : g < b.frames_total /\ g \notin b.map
  BY <1>2 DEF BlockConsistent, FreeBits
<1>9. IsFreeRun(b, first, count)  BY <1>7, <1>8 DEF IsFreeRun
<1>10. count <= b.frames_free
  <2>1. Cardinality(Run(first, count)) = count  BY <1>4, RunCardinality
  <2>2. Cardinality(Run(first, count)) <= Cardinality(FreeBits(b))
    BY <1>2, <1>7, FreeBitsFinite, FS_Subset
  <2>3. b.frames_free = Cardinality(FreeBits(b))  BY <1>2 DEF BlockConsistent
  <2> QED  BY <2>1, <2>2, <2>3
<1>11. b.frames_free >= count  BY <1>2, <1>10, WrapAssumption DEF pm_block
<1>12. OffersRun(b, count)  BY <1>1, <1>4, <1>9, <1>11 DEF OffersRun
<1> QED  BY <1>12

(* Bitmaps, counters and the first-fit search implement the abstract       *)
(* allocator: every step of physical.c is a step of FrameAllocator.        *)
THEOREM Refinement == Spec => ImplementsFrameAllocator
<1>1. Managed = Regions(blocks) /\ Free = AllFree(blocks)
  BY DEF Managed, Free, Regions, AllFree
<1>2. Managed' = Regions(blocks') /\ Free' = AllFree(blocks')
  BY DEF Managed, Free, Regions, AllFree
<1>3. Init => Abstract!Init
  <2> SUFFICES ASSUME Init PROVE Abstract!Init  OBVIOUS
  <2>1. Free \subseteq UNION Managed
    <3>1. Good(blocks)  BY PmmsAssumption DEF Init, Good
    <3>2. \A i \in DOMAIN blocks : FreeFrames(blocks[i]) \subseteq Frames(blocks[i])
      BY <3>1, FreeFramesInBlock DEF Good
    <3>3. \A i \in DOMAIN blocks : ~ blocks[i].has_map => FreeFrames(blocks[i]) = {}
      BY DEF FreeFrames, FreeBits
    <3> QED  BY <3>2, <3>3 DEF Free, Managed
  <2> QED  BY <2>1 DEF Init, Abstract!Init, NoFrame, Abstract!NoFrame
<1>4. Inv /\ [Next]_vars => [Abstract!Next]_(Abstract!vars)
  <2> SUFFICES ASSUME Inv, [Next]_vars PROVE [Abstract!Next]_(Abstract!vars)  OBVIOUS
  <2>1. ASSUME NEW op, NEW count \in Nat, count > 0, NEW start, Granted(op, count, start)
        PROVE  Abstract!Grant(op, count)
    <3>1. PICK i \in DOMAIN blocks : /\ blocks[i].has_map
                                    /\ Run(start, count) \subseteq Frames(blocks[i])
                                    /\ start \in Frames(blocks[i])
      BY <2>1 DEF Granted
    <3> DEFINE r == Frames(blocks[i])
    <3>2. r \in Managed  BY <3>1 DEF Managed
    <3>3. Run(start, count) = Abstract!Run(start, count)  BY DEF Run, Abstract!Run
    <3>4. /\ Abstract!Run(start, count) \subseteq r \cap Free
          /\ Free' = Free \ Abstract!Run(start, count)
          /\ held' = held \cup Abstract!Run(start, count)
          /\ last' = [op |-> op, arg |-> count, result |-> start]
          /\ Managed' = Managed
      BY <1>1, <1>2, <2>1, <3>1, <3>3 DEF Granted
    <3> QED  BY <2>1, <3>1, <3>2, <3>4 DEF Abstract!Grant
  <2>2. ASSUME NEW op, NEW count, Refused(op, count),
               \/ count = 0
               \/ \A r \in Managed : \A start \in r :
                     ~ (Run(start, count) \subseteq r \cap Free)
        PROVE  Abstract!Refuse(op, count)
    <3>1. blocks' = blocks /\ held' = held  BY <2>2 DEF Refused
    <3>2. Managed' = Managed /\ Free' = Free  BY <3>1, <1>1, <1>2
    <3> QED  BY <2>2, <3>1, <3>2
             DEF Refused, Abstract!Refuse, Run, Abstract!Run, NoFrame, Abstract!NoFrame
  <2>3. ASSUME NEW address \in Freeable, Released(address)
        PROVE  Abstract!Release(address)
    BY <1>1, <1>2, <2>3 DEF Released, Abstract!Release, NoFrame, Abstract!NoFrame
  <2>4. CASE \E start : Granted("frame_allocate", 1, start)
    BY <2>1, <2>4 DEF Abstract!Next
  <2>5. CASE /\ \A i \in DOMAIN blocks : ~ Offers(blocks[i])
             /\ Refused("frame_allocate", 1)
    <3>1. Free = {}  BY <1>1, <2>5, NoFrameLeft
    <3>2. \A r \in Managed : \A start \in r : start \in Run(start, 1)
      <4> SUFFICES ASSUME NEW i \in DOMAIN blocks, NEW start \in Frames(blocks[i])
                   PROVE  start \in Run(start, 1)
        BY DEF Managed
      <4>1. blocks[i] \in pm_block  BY DEF Inv, Good
      <4> QED  BY <4>1, WrapAssumption DEF pm_block, Frames, Run
    <3>3. \A r \in Managed : \A start \in r : ~ (Run(start, 1) \subseteq r \cap Free)
      BY <3>1, <3>2
    <3> QED  BY <2>2, <2>5, <3>3 DEF Abstract!Next
  <2>6. ASSUME NEW count \in Counts, count > 0,
               \E start : Granted("frames_allocate", count, start)
        PROVE  Abstract!Next
    BY <2>1, <2>6, CountsAssumption DEF Abstract!Next
  <2>7. ASSUME NEW count \in Counts, Refused("frames_allocate", count),
               count = 0 \/ \A i \in DOMAIN blocks : ~ OffersRun(blocks[i], count)
        PROVE  Abstract!Next
    <3>1. count \in Nat  BY CountsAssumption
    <3>2. CASE count = 0  BY <2>2, <2>7, <3>2 DEF Abstract!Next
    <3>3. CASE count # 0
      <4>1. \A r \in Managed : \A start \in r :
               ~ (Run(start, count) \subseteq r \cap Free)
        BY <1>1, <2>7, <3>1, <3>3, NoRunLeft
      <4> QED  BY <2>2, <2>7, <4>1 DEF Abstract!Next
    <3> QED  BY <3>2, <3>3
  <2>8. CASE \E address \in Freeable : Released(address)
    BY <2>3, <2>8 DEF Abstract!Next
  <2>9. CASE Next  BY <2>4, <2>5, <2>6, <2>7, <2>8, <2>9, NextCases
  <2>10. CASE UNCHANGED vars
    <3>1. blocks' = blocks /\ held' = held /\ last' = last  BY <2>10 DEF vars
    <3>2. Managed' = Managed /\ Free' = Free  BY <3>1, <1>1, <1>2
    <3> QED  BY <3>1, <3>2 DEF Abstract!vars
  <2> QED  BY <2>9, <2>10
<1> QED  BY <1>3, <1>4, InvHolds, PTL DEF Spec, ImplementsFrameAllocator, Abstract!Spec

=============================================================================
