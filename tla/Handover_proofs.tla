-------------------------- MODULE Handover_proofs --------------------------
(***************************************************************************)
(* Theorems about the loader and the kernel composed, for any memory maps, *)
(* storage that suffices or not, and tables and pages of any size: what    *)
(* the kernel takes is unused, and when it loads CR3 everything it was     *)
(* told of, its own tables and GDT included, is identity mapped.           *)
(***************************************************************************)
EXTENDS Handover, PagingRefinement_proofs

BuildProofs == INSTANCE BuildPmm_proofs WITH Wrap <- CounterWrap

-----------------------------------------------------------------------------
(* What build_pmm lists.                                                   *)

(* A block of the list is a region of the map, and offers frames only of   *)
(* conventional memory, other than frame 0.                                *)
Describes(b, d) ==
  /\ b.address = d.PhysicalStart /\ b.frames_total = d.NumberOfPages
  /\ b.type = Build!TypeOf(d.Type)
  /\ \A f \in Build!FreeFrames(b) : /\ d.Type = "EfiConventionalMemory"
                                    /\ f \in Build!Pages(d) \ {0}

(* The assumptions of BuildPmm hold for what the loader is given.          *)
LEMMA LoaderFacts ==
  /\ WordBits \in Nat \ {0} /\ CounterWrap \in Nat \ {0} /\ BlockSlack \in Nat
  /\ \A map \in MemoryMaps :
       /\ map \in Seq(BuildProofs!descriptor)
       /\ \A k, n \in DOMAIN map :
            k # n => BuildProofs!Pages(map[k]) \cap BuildProofs!Pages(map[n]) = {}
<1>1. BuildProofs!descriptor = Build!descriptor
  BY DEF Build!descriptor, BuildProofs!descriptor, Build!efi_type, BuildProofs!efi_type
<1>2. \A d : BuildProofs!Pages(d) = Build!Pages(d)  BY DEF Build!Pages, BuildProofs!Pages
<1> QED  BY <1>1, <1>2, LoaderAssumption, MapsAssumption

LEMMA NewBlockDescribes ==
  ASSUME NEW d \in Build!descriptor, d.NumberOfPages # 0,
         NEW block \in {Build!Unmanaged(d), Build!Reclaimable(d), Build!Usable(d)},
         Build!FreeBits(block) = {} \/ Build!TypeOf(d.Type) = "PM_USABLE"
  PROVE  /\ block \in Build!pm_block
         /\ Describes(block, d)
<1>1. d \in BuildProofs!descriptor
  BY DEF Build!descriptor, BuildProofs!descriptor, Build!efi_type, BuildProofs!efi_type
<1>2. block \in {BuildProofs!Unmanaged(d), BuildProofs!Reclaimable(d), BuildProofs!Usable(d)}
  BY DEF Build!Unmanaged, Build!Reclaimable, Build!Usable, Build!TypeOf, Build!MapBits,
     Build!UsableBits, Build!PaddingBits, Build!frame_map_size, Build!Minus,
     BuildProofs!Unmanaged, BuildProofs!Reclaimable, BuildProofs!Usable, BuildProofs!TypeOf,
     BuildProofs!MapBits, BuildProofs!UsableBits, BuildProofs!PaddingBits,
     BuildProofs!frame_map_size, BuildProofs!Minus
<1>3. /\ block \in BuildProofs!pm_block /\ BuildProofs!BlockConsistent(block)
      /\ 0 \notin BuildProofs!FreeFrames(block)
      /\ BuildProofs!Frames(block) = BuildProofs!Pages(d)
      /\ block.type = BuildProofs!TypeOf(d.Type)
  BY <1>1, <1>2, LoaderFacts, BuildProofs!NewBlock
<1>4. block \in Build!pm_block
  BY <1>3 DEF Build!pm_block, Build!pm_type, BuildProofs!pm_block, BuildProofs!pm_type
<1>5. Build!Frames(block) = Build!Pages(d) /\ block.type = Build!TypeOf(d.Type)
  BY <1>3 DEF Build!Frames, Build!Pages, Build!TypeOf, BuildProofs!Frames,
     BuildProofs!Pages, BuildProofs!TypeOf
<1>6. block.address = d.PhysicalStart /\ block.frames_total = d.NumberOfPages
  <2>1. CASE block = Build!Unmanaged(d)  BY <2>1 DEF Build!Unmanaged
  <2>2. CASE block = Build!Reclaimable(d)
    BY <2>2 DEF Build!Reclaimable, Build!Unmanaged
  <2>3. CASE block = Build!Usable(d)  BY <2>3 DEF Build!Usable, Build!Unmanaged
  <2> QED  BY <2>1, <2>2, <2>3
<1>7. Build!FreeBits(block) = BuildProofs!FreeBits(block)
  BY DEF Build!FreeBits, Build!MapBits, Build!frame_map_size, BuildProofs!FreeBits,
     BuildProofs!MapBits, BuildProofs!frame_map_size
<1>8. Build!FreeFrames(block) = BuildProofs!FreeFrames(block)
  BY <1>7 DEF Build!FreeFrames, BuildProofs!FreeFrames
<1>9. ASSUME NEW f \in Build!FreeFrames(block)
      PROVE  d.Type = "EfiConventionalMemory" /\ f \in Build!Pages(d) \ {0}
  <2>1. PICK bit \in Build!FreeBits(block) : f = block.address + bit
    BY DEF Build!FreeFrames
  <2>2. d.Type = "EfiConventionalMemory"  BY <2>1 DEF Build!TypeOf
  <2>3. bit < block.frames_total
    BY <1>3, <1>7, <2>1 DEF BuildProofs!BlockConsistent
  <2>4. bit \in Nat
    <3>1. bit \in Build!MapBits(block.frames_total)  BY <2>1 DEF Build!FreeBits
    <3> QED  BY <3>1 DEF Build!MapBits
  <2>5. f \in Build!Pages(d)
    <3>1. d.PhysicalStart \in Nat /\ d.NumberOfPages \in Nat
      BY LoaderAssumption DEF Build!descriptor
    <3> QED  BY <3>1, <1>6, <2>1, <2>3, <2>4 DEF Build!Pages
  <2>6. f # 0  BY <1>3, <1>8
  <2> QED  BY <2>2, <2>5, <2>6
<1> QED  BY <1>4, <1>5, <1>6, <1>9 DEF Describes

(* The descriptors before a position that are not empty.                   *)
NonEmpty(p) == {n \in DOMAIN mmap : n < p /\ mmap[n].NumberOfPages # 0}

(* Every block of the list is a region of the map.  As long as no region   *)
(* was dropped there is a block for each that has been passed; otherwise   *)
(* there are too few.                                                      *)
ListInv ==
  /\ mmap \in MemoryMaps /\ pos \in Nat \ {0} /\ blocks \in Seq(Build!pm_block)
  /\ \A k \in DOMAIN blocks : \E n \in DOMAIN mmap : Describes(blocks[k], mmap[n])
  /\ \/ /\ Len(blocks) = Cardinality(NonEmpty(pos))
        /\ \A n \in NonEmpty(pos) : \E k \in DOMAIN blocks : Describes(blocks[k], mmap[n])
     \/ pos > Len(mmap) /\ Len(blocks) < Build!block_count(mmap)

LEMMA CardinalitySame ==
  ASSUME NEW S
  PROVE  Build!Cardinality(S) = Cardinality(S)
  BY DEF Build!Cardinality, Cardinality

LEMMA NonEmptyStep ==
  ASSUME mmap \in Seq(Build!descriptor), NEW p \in DOMAIN mmap
  PROVE  /\ Cardinality(NonEmpty(p)) \in Nat
         /\ NonEmpty(p + 1) = IF mmap[p].NumberOfPages # 0 THEN NonEmpty(p) \cup {p}
                                                           ELSE NonEmpty(p)
         /\ Cardinality(NonEmpty(p + 1)) =
              Cardinality(NonEmpty(p)) + (IF mmap[p].NumberOfPages # 0 THEN 1 ELSE 0)
         /\ Cardinality(NonEmpty(p + 1)) <= Build!block_count(mmap)
<1> DEFINE all == {n \in DOMAIN mmap : mmap[n].NumberOfPages # 0}
<1>1. p \in Nat /\ DOMAIN mmap = 1 .. Len(mmap) /\ Len(mmap) \in Nat  OBVIOUS
<1>2. IsFiniteSet(all)
  <2>1. IsFiniteSet(1 .. Len(mmap))  BY <1>1, FS_Interval
  <2> QED  BY <1>1, <2>1, FS_Subset
<1>3. Build!block_count(mmap) = Cardinality(all)  BY CardinalitySame DEF Build!block_count
<1>4. NonEmpty(p) \subseteq all /\ NonEmpty(p + 1) \subseteq all  BY DEF NonEmpty
<1> HIDE DEF all
<1>5. /\ IsFiniteSet(NonEmpty(p)) /\ Cardinality(NonEmpty(p)) \in Nat
      /\ Cardinality(NonEmpty(p + 1)) <= Cardinality(all)
  BY <1>2, <1>4, FS_Subset, FS_CardinalityType
<1>6. \A n \in DOMAIN mmap : n < p + 1 <=> n < p \/ n = p  BY <1>1
<1>7. CASE mmap[p].NumberOfPages = 0
  <2>1. NonEmpty(p + 1) = NonEmpty(p)  BY <1>6, <1>7 DEF NonEmpty
  <2> QED  BY <1>3, <1>5, <1>7, <2>1
<1>8. CASE mmap[p].NumberOfPages # 0
  <2>1. NonEmpty(p + 1) = NonEmpty(p) \cup {p}  BY <1>6, <1>8 DEF NonEmpty
  <2>2. p \notin NonEmpty(p)  BY <1>1 DEF NonEmpty
  <2> QED  BY <1>3, <1>5, <1>8, <2>1, <2>2, FS_AddElement
<1> QED  BY <1>7, <1>8

LEMMA ListInvInit ==
  ASSUME Build!Init
  PROVE  ListInv
<1>1. mmap \in MemoryMaps /\ pos = 1 /\ blocks = << >>
  BY DEF Build!Init, Build!StartBuild
<1>2. mmap \in Seq(Build!descriptor)  BY <1>1, MapsAssumption
<1>3. NonEmpty(1) = {}  BY <1>2 DEF NonEmpty
<1>4. Cardinality(NonEmpty(1)) = 0  BY <1>3, FS_EmptySet
<1>5. blocks \in Seq(Build!pm_block) /\ Len(blocks) = 0 /\ DOMAIN blocks = {}
  BY <1>1
<1> QED  BY <1>1, <1>3, <1>4, <1>5 DEF ListInv

(* A region gets its block.                                                *)
LEMMA AddListed ==
  ASSUME ListInv, Build!TakesBlock, NEW words,
         NEW block \in {Build!Unmanaged(mmap[pos]), Build!Reclaimable(mmap[pos]),
                        Build!Usable(mmap[pos])},
         Build!FreeBits(block) = {} \/ Build!TypeOf(mmap[pos].Type) = "PM_USABLE",
         Build!Add(block, words)
  PROVE  ListInv'
<1>1. /\ mmap \in MemoryMaps /\ pos \in Nat \ {0} /\ blocks \in Seq(Build!pm_block)
      /\ \A k \in DOMAIN blocks : \E n \in DOMAIN mmap : Describes(blocks[k], mmap[n])
  BY DEF ListInv
<1>2. mmap \in Seq(Build!descriptor)  BY <1>1, MapsAssumption
<1>3. pos <= Len(mmap) /\ mmap[pos].NumberOfPages # 0  BY DEF Build!TakesBlock
<1>4. pos \in DOMAIN mmap /\ Len(mmap) \in Nat  BY <1>1, <1>2, <1>3
<1>5. mmap[pos] \in Build!descriptor  BY <1>2, <1>4
<1>6. block \in Build!pm_block /\ Describes(block, mmap[pos])
  BY <1>3, <1>5, NewBlockDescribes
<1>7. blocks' = Append(blocks, block) /\ pos' = pos + 1 /\ mmap' = mmap  BY DEF Build!Add
<1>8. /\ blocks' \in Seq(Build!pm_block) /\ Len(blocks') = Len(blocks) + 1
      /\ DOMAIN blocks' = DOMAIN blocks \cup {Len(blocks) + 1}
      /\ \A k \in DOMAIN blocks : blocks'[k] = blocks[k]
      /\ blocks'[Len(blocks) + 1] = block
  BY <1>1, <1>6, <1>7
<1>9. \A k \in DOMAIN blocks' : \E n \in DOMAIN mmap : Describes(blocks'[k], mmap[n])
  BY <1>1, <1>4, <1>6, <1>8
<1>10. /\ Len(blocks) = Cardinality(NonEmpty(pos))
       /\ \A n \in NonEmpty(pos) : \E k \in DOMAIN blocks : Describes(blocks[k], mmap[n])
  BY <1>1, <1>3, <1>4 DEF ListInv
<1>11. /\ NonEmpty(pos + 1) = NonEmpty(pos) \cup {pos}
       /\ Cardinality(NonEmpty(pos + 1)) = Cardinality(NonEmpty(pos)) + 1
  BY <1>2, <1>3, <1>4, NonEmptyStep
<1>12. \A n \in NonEmpty(pos + 1) : \E k \in DOMAIN blocks' : Describes(blocks'[k], mmap[n])
  BY <1>6, <1>8, <1>10, <1>11
<1>13. NonEmpty(pos)' = NonEmpty(pos + 1)  BY <1>7 DEF NonEmpty
<1> QED  BY <1>1, <1>7, <1>8, <1>9, <1>10, <1>11, <1>12, <1>13 DEF ListInv

LEMMA ListInvStep ==
  ASSUME ListInv, Build!build_pmm
  PROVE  ListInv'
<1>1. /\ mmap \in MemoryMaps /\ pos \in Nat \ {0} /\ blocks \in Seq(Build!pm_block)
      /\ \A k \in DOMAIN blocks : \E n \in DOMAIN mmap : Describes(blocks[k], mmap[n])
  BY DEF ListInv
<1>2. mmap \in Seq(Build!descriptor) /\ Len(mmap) \in Nat  BY <1>1, MapsAssumption
<1>3. pos <= Len(mmap) =>
        /\ pos \in DOMAIN mmap
        /\ Len(blocks) = Cardinality(NonEmpty(pos))
        /\ \A n \in NonEmpty(pos) : \E k \in DOMAIN blocks : Describes(blocks[k], mmap[n])
  BY <1>1, <1>2 DEF ListInv
<1>4. CASE Build!SkipEmpty
  <2>1. /\ pos <= Len(mmap) /\ mmap[pos].NumberOfPages = 0 /\ pos' = pos + 1
        /\ UNCHANGED <<mmap, blocks>>
    BY <1>4 DEF Build!SkipEmpty
  <2>2. NonEmpty(pos + 1) = NonEmpty(pos)  BY <1>2, <1>3, <2>1, NonEmptyStep
  <2>3. NonEmpty(pos)' = NonEmpty(pos + 1)  BY <2>1 DEF NonEmpty
  <2> QED  BY <1>1, <1>3, <2>1, <2>2, <2>3 DEF ListInv
<1>5. CASE Build!StopWhenFull
  <2>1. /\ pos <= Len(mmap) /\ mmap[pos].NumberOfPages # 0 /\ pos' = Len(mmap) + 1
        /\ UNCHANGED <<mmap, blocks>>
    BY <1>5 DEF Build!StopWhenFull
  <2>2. /\ Cardinality(NonEmpty(pos)) \in Nat
        /\ Cardinality(NonEmpty(pos + 1)) = Cardinality(NonEmpty(pos)) + 1
        /\ Cardinality(NonEmpty(pos + 1)) <= Build!block_count(mmap)
    BY <1>2, <1>3, <2>1, NonEmptyStep
  <2>3. Build!block_count(mmap) \in Nat
    <3>1. DOMAIN mmap = 1 .. Len(mmap)  BY <1>2
    <3>2. IsFiniteSet(1 .. Len(mmap))  BY <1>2, FS_Interval
    <3>3. IsFiniteSet({n \in DOMAIN mmap : mmap[n].NumberOfPages # 0})
      BY <3>1, <3>2, FS_Subset
    <3> QED  BY <3>3, FS_CardinalityType, CardinalitySame DEF Build!block_count
  <2>4. Len(blocks) < Build!block_count(mmap)  BY <1>3, <2>1, <2>2, <2>3
  <2>5. Build!block_count(mmap)' = Build!block_count(mmap)
    BY <2>1 DEF Build!block_count
  <2> QED  BY <1>1, <1>2, <2>1, <2>4, <2>5 DEF ListInv
<1>6. CASE Build!AddUnmanaged
  <2>1. Build!FreeBits(Build!Unmanaged(mmap[pos])) = {}
    BY DEF Build!FreeBits, Build!Unmanaged
  <2> QED  BY <1>6, <2>1, AddListed DEF Build!AddUnmanaged
<1>7. CASE Build!AddReclaimable
  <2>1. Build!FreeBits(Build!Reclaimable(mmap[pos])) = {}
    BY DEF Build!FreeBits, Build!Reclaimable, Build!Unmanaged
  <2> QED  BY <1>7, <2>1, AddListed DEF Build!AddReclaimable
<1>8. CASE Build!AddUsable  BY <1>8, AddListed DEF Build!AddUsable
<1> QED  BY <1>4, <1>5, <1>6, <1>7, <1>8 DEF Build!build_pmm

-----------------------------------------------------------------------------
(* What the kernel takes.                                                  *)

(* The frames that the bitmaps offer when the kernel starts.               *)
Offered == UNION {Build!FreeFrames(blocks[k]) : k \in Managed}

GdtFrames == {gdt[k] : k \in DOMAIN gdt}

(* What is free, a table or in the GDT was on offer.                       *)
TakenInv ==
  /\ gdt \in Seq(Nat)
  /\ free \cup DOMAIN tables \cup GdtFrames \subseteq IF InLoader THEN {} ELSE Offered

LEMMA OfferedFacts ==
  ASSUME ListInv
  PROVE  /\ Offered \subseteq Build!Conventional(mmap) \ {0}
         /\ Offered \subseteq Nat
<1>1. SUFFICES ASSUME NEW f \in Offered
               PROVE  f \in Build!Conventional(mmap) \ {0} /\ f \in Nat
  OBVIOUS
<1>2. PICK k \in DOMAIN blocks : f \in Build!FreeFrames(blocks[k])  BY DEF Offered, Managed
<1>3. PICK n \in DOMAIN mmap : Describes(blocks[k], mmap[n])  BY DEF ListInv
<1>4. mmap[n].Type = "EfiConventionalMemory" /\ f \in Build!Pages(mmap[n]) /\ f # 0
  BY <1>2, <1>3 DEF Describes
<1>5. f \in Build!Conventional(mmap)  BY <1>4 DEF Build!Conventional
<1>6. mmap[n] \in Build!descriptor  BY MapsAssumption DEF ListInv
<1>7. f \in Nat
  <2>1. mmap[n].PhysicalStart \in Nat /\ mmap[n].NumberOfPages \in Nat
    BY <1>6, LoaderAssumption DEF Build!descriptor
  <2> QED  BY <1>4, <2>1 DEF Build!Pages
<1> QED  BY <1>4, <1>5, <1>7

(* Page tables come from what is free.                                     *)
LEMMA NextTableTakes ==
  ASSUME free \subseteq Nat, DOMAIN tables \subseteq Nat, next_table
  PROVE  free' \cup DOMAIN tables' \subseteq free \cup DOMAIN tables /\ held \subseteq held'
<1>1. PICK next \in free \cup DOMAIN tables : Create(next) \/ Follow(next)
  BY DEF next_table
<1>2. next \in Nat  BY <1>1
<1>3. \A e : DOMAIN Set(e) = DOMAIN tables  BY DEF Set
<1>4. CASE Create(next)
  <2>1. next \in free /\ free' = free \ {next} /\ held' = held \cup {next}
    BY <1>2, <1>4, TakeOneFacts DEF Create
  <2>2. DOMAIN tables' = DOMAIN tables \cup {next}  BY <1>4 DEF Create
  <2> QED  BY <2>1, <2>2
<1>5. CASE Follow(next)
  <2>1. UNCHANGED <<free, held>>  BY <1>5 DEF Follow, allocator
  <2>2. DOMAIN tables' = DOMAIN tables  BY <1>3, <1>5 DEF Follow
  <2> QED  BY <2>1, <2>2
<1> QED  BY <1>1, <1>4, <1>5

LEMMA MappingTakes ==
  ASSUME free \subseteq Nat, DOMAIN tables \subseteq Nat, Loop \/ map_large_page \/ map_page
  PROVE  free' \cup DOMAIN tables' \subseteq free \cup DOMAIN tables /\ held \subseteq held'
<1>1. \A e : DOMAIN Set(e) = DOMAIN tables  BY DEF Set
<1>2. CASE Loop  BY <1>2 DEF Loop, allocator
<1>3. NoNextTable => UNCHANGED <<free, held>>  BY RefuseFacts DEF NoNextTable, allocator
<1>4. CASE map_large_page
  BY <1>1, <1>3, <1>4, NextTableTakes DEF map_large_page, allocator
<1>5. CASE map_page
  BY <1>1, <1>3, <1>5, NextTableTakes DEF map_page, allocator
<1> QED  BY <1>2, <1>4, <1>5

LEMMA Pml4Takes ==
  ASSUME free \subseteq Nat, init_pml4
  PROVE  free' \cup DOMAIN tables' \subseteq free \cup DOMAIN tables /\ held \subseteq held'
<1>1. CASE \E f \in free : Take("frame_allocate", 1, f) /\ tables' = [t \in {f} |-> ZeroedTable]
  <2>1. PICK f \in free : Take("frame_allocate", 1, f) /\ tables' = [t \in {f} |-> ZeroedTable]
    BY <1>1
  <2>2. free' = free \ {f} /\ held' = held \cup {f}  BY <2>1, TakeOneFacts
  <2>3. DOMAIN tables' = {f}  BY <2>1
  <2> QED  BY <2>1, <2>2, <2>3
<1>2. CASE Memory!Refuse("frame_allocate", 1) /\ UNCHANGED tables  BY <1>2, RefuseFacts
<1> QED  BY <1>1, <1>2 DEF init_pml4

(* The kernel takes nothing but what is free.                              *)
LEMMA KernelTakes ==
  ASSUME ListInv, TakenInv, kernel_start, ~ InLoader, UNCHANGED <<mmap, blocks>>
  PROVE  TakenInv' /\ ~ InLoader'
<1>1. /\ gdt \in Seq(Nat) /\ free \cup DOMAIN tables \cup GdtFrames \subseteq Offered
      /\ free \subseteq Nat /\ DOMAIN tables \subseteq Nat
  BY OfferedFacts DEF TakenInv
<1>2. Offered' = Offered  BY DEF Offered, Managed
<1>3. ~ InLoader'
  <2>1. system' = system
    BY DEF kernel_start, SetupGdt, CreatePml4, NextBlock, MapStep, BlockMapped, MapFramebuffer,
       Switch, kernelVars
  <2> QED  BY <2>1 DEF InLoader
<1>4. CASE UNCHANGED gdt /\ free' \cup DOMAIN tables' \subseteq free \cup DOMAIN tables
  BY <1>1, <1>2, <1>3, <1>4 DEF TakenInv, GdtFrames
<1>5. CASE SetupGdt
  <2>1. CASE \E f \in free : Take("frame_allocate", 1, f) /\ gdt' = Append(gdt, f)
    <3>1. PICK f \in free : Take("frame_allocate", 1, f) /\ gdt' = Append(gdt, f)  BY <2>1
    <3>2. f \in Nat /\ f \in Offered /\ free' = free \ {f}  BY <1>1, <3>1, TakeOneFacts
    <3>3. tables' = tables  BY <1>5 DEF SetupGdt
    <3>4. gdt' \in Seq(Nat) /\ GdtFrames' \subseteq GdtFrames \cup {f}
      <4>1. /\ gdt' \in Seq(Nat) /\ DOMAIN gdt' = DOMAIN gdt \cup {Len(gdt) + 1}
            /\ \A k \in DOMAIN gdt : gdt'[k] = gdt[k]
            /\ gdt'[Len(gdt) + 1] = f
        BY <1>1, <3>1, <3>2
      <4> QED  BY <4>1 DEF GdtFrames
    <3> QED  BY <1>1, <1>2, <1>3, <3>2, <3>3, <3>4 DEF TakenInv
  <2>2. CASE Memory!Refuse("frame_allocate", 1) /\ UNCHANGED gdt
    BY <2>2, <1>4, <1>5, RefuseFacts DEF SetupGdt
  <2> QED  BY <1>5, <2>1, <2>2 DEF SetupGdt
<1>6. CASE CreatePml4  BY <1>1, <1>4, <1>6, Pml4Takes DEF CreatePml4
<1>7. CASE MapStep  BY <1>1, <1>4, <1>7, MappingTakes DEF MapStep, kernelVars
<1>8. CASE NextBlock \/ BlockMapped \/ MapFramebuffer \/ Switch
  <2>1. UNCHANGED <<free, tables, gdt>>
    BY <1>8 DEF NextBlock, BlockMapped, MapFramebuffer, Switch, map_range, vars, allocator
  <2> QED  BY <1>4, <2>1
<1> QED  BY <1>5, <1>6, <1>7, <1>8 DEF kernel_start

LEMMA ListKept ==
  ASSUME ListInv, UNCHANGED <<mmap, pos, blocks>>
  PROVE  ListInv'
<1>1. NonEmpty(pos)' = NonEmpty(pos)  BY DEF NonEmpty
<1>2. Build!block_count(mmap)' = Build!block_count(mmap)  BY DEF Build!block_count
<1> QED  BY <1>1, <1>2 DEF ListInv

(* The call of kernel_start.                                               *)
LEMMA EnterTakes ==
  ASSUME ListInv, TakenInv, EnterKernel
  PROVE  TakenInv' /\ ~ InLoader'
<1>1. PICK fb \in Framebuffers :
        system' = [blocks |-> blocks, fb_start |-> fb.start, fb_length |-> fb.length]
  BY DEF EnterKernel
<1>2. system'.fb_start \in Nat /\ NoSystem.fb_start = -1
  BY <1>1, FramebuffersAssumption DEF NoSystem
<1>3. ~ InLoader'  BY <1>2 DEF InLoader
<1>4. UNCHANGED <<tables, gdt, blocks>> /\ free' = Offered
  BY DEF EnterKernel, Offered, buildVars
<1>5. Offered' = Offered  BY <1>4 DEF Offered, Managed
<1>6. gdt \in Seq(Nat) /\ DOMAIN tables = {} /\ GdtFrames = {}
  BY DEF TakenInv, EnterKernel
<1> QED  BY <1>3, <1>4, <1>5, <1>6 DEF TakenInv, GdtFrames

LEMMA TakenStep ==
  ASSUME ListInv, TakenInv, [HandoverNext]_handoverVars
  PROVE  ListInv' /\ TakenInv'
<1>1. CASE LoaderStep
  <2>1. ListInv'  BY <1>1, ListInvStep DEF LoaderStep
  <2>2. UNCHANGED <<free, tables, gdt, system>> /\ InLoader
    BY <1>1 DEF LoaderStep, bootVars, kernelVars, vars, allocator
  <2> QED  BY <2>1, <2>2 DEF TakenInv, GdtFrames, InLoader
<1>2. CASE EnterKernel  BY <1>2, EnterTakes, ListKept DEF EnterKernel, buildVars
<1>3. CASE KernelStep  BY <1>3, KernelTakes, ListKept DEF KernelStep, buildVars
<1>4. CASE UNCHANGED handoverVars
  <2>1. UNCHANGED <<free, tables, gdt, system, mmap, pos, blocks>>
    BY <1>4 DEF handoverVars, buildVars, bootVars, kernelVars, vars, allocator
  <2>2. Offered' = Offered  BY <2>1 DEF Offered, Managed
  <2>3. TakenInv'  BY <2>1, <2>2 DEF TakenInv, GdtFrames, InLoader
  <2> QED  BY <2>1, <2>3, ListKept
<1> QED  BY <1>1, <1>2, <1>3, <1>4 DEF HandoverNext, Step, KernelHalted, handoverVars

LEMMA TakenInit ==
  ASSUME HandoverInit
  PROVE  ListInv /\ TakenInv
<1>1. ListInv  BY ListInvInit DEF HandoverInit
<1>2. free = {} /\ tables = << >> /\ gdt = << >> /\ InLoader
  BY DEF HandoverInit, Start, InLoader
<1>3. gdt \in Seq(Nat) /\ DOMAIN tables = {} /\ DOMAIN gdt = {}  BY <1>2
<1> QED  BY <1>1, <1>2, <1>3 DEF TakenInv, GdtFrames

(* The kernel's tables and its GDT are in frames that are conventional     *)
(* memory of the final map, and none is frame 0, for any maps and also if  *)
(* the storage for the block list or the bitmaps ran out.                  *)
THEOREM KernelFramesUnused == HandoverSpec => []KernelTakesOnlyUnused
<1>1. HandoverInit => ListInv /\ TakenInv  BY TakenInit
<1>2. ListInv /\ TakenInv /\ [HandoverNext]_handoverVars => (ListInv /\ TakenInv)'
  BY TakenStep
<1>3. ListInv /\ TakenInv => KernelTakesOnlyUnused
  BY OfferedFacts DEF TakenInv, KernelTakesOnlyUnused, GdtFrames
<1> QED  BY <1>1, <1>2, <1>3, PTL DEF HandoverSpec

-----------------------------------------------------------------------------
(* What the kernel maps.                                                   *)

LastPage == Entries * Entries * Entries * Entries - 1

(* What the machine has to see to: the regions that the kernel maps, and   *)
(* the framebuffer, end below the last page of the address space (the run  *)
(* top_range is about one that does not), and the framebuffer is not in    *)
(* page 0.                                                                 *)
MemoryBelowTop ==
  \A map \in MemoryMaps : \A n \in DOMAIN map :
     Build!TypeOf(map[n].Type) \notin {"PM_MMIO", "PM_RESERVED"} =>
        map[n].PhysicalStart + map[n].NumberOfPages <= LastPage

FramebuffersFit ==
  \A fb \in Framebuffers : /\ fb.start + fb.length <= Wrap - PageSize
                           /\ \/ PageSize <= fb.start
                              \/ fb.start = 0 /\ fb.length = 0

IsTouched(b) == b.type \notin {"PM_MMIO", "PM_RESERVED"}

(* The pages of a call of map_range, of a block, and of all calls.         *)
CallPages == {v \in VPages : FirstPage <= v /\ PageSize * v < call.vaddr + call.length}
BlockPages(b) == (BlockFrames(b) \cap VPages) \ {0}
AllPages == (Touched \cup FbPages) \ {0}

(* The kernel is given what build_pmm made, when that is complete.         *)
SystemInv ==
  IF InLoader
    THEN Start({}, {}) /\ kpc = "gdt" /\ i = 1 /\ gdt = << >> /\ cr3 = NoFrame
    ELSE /\ system.blocks = blocks /\ Build!Built
         /\ \E fb \in Framebuffers : /\ system.fb_start = fb.start
                                     /\ system.fb_length = fb.length

(* Where kernel_start is, and where the function that it calls.            *)
PhaseInv ==
  /\ kpc \in {"gdt", "pml4", "block", "mapping", "mapping_fb", "halt"}
  /\ kpc \in {"gdt", "pml4"} => pc = "boot" /\ i = 1
  /\ kpc = "block" => pc = "idle"
  /\ kpc \in {"mapping", "mapping_fb"} => (Mapping \/ pc = "idle") /\ call.op = "map_range"
  /\ cr3 # NoFrame => kpc = "halt" /\ ~ InLoader
  /\ i \in Nat \ {0}

(* Every call is an identity mapping below the last page, of the current   *)
(* block or of the framebuffer.                                            *)
CallInv ==
  /\ call.op # "get_heap" /\ call.vaddr = call.paddr /\ InRange
  /\ kpc = "mapping" => /\ i <= Len(system.blocks) /\ IsTouched(Block)
                        /\ CallPages = BlockPages(Block)
  /\ kpc = "mapping_fb" => /\ i > Len(system.blocks)
                           /\ CallPages = FbPages /\ 0 \notin FbPages

(* What is mapped is mapped to itself, and is to be mapped; the blocks     *)
(* that have been passed are, and all of it when CR3 is loaded.            *)
SpaceInv ==
  /\ ~ InLoader => \A v \in VPages : Translate(v) # NotMapped =>
                                       Translate(v) = v /\ v \in AllPages
  /\ ~ InLoader => \A k \in DOMAIN system.blocks :
                      k < i /\ IsTouched(system.blocks[k]) =>
                        \A v \in BlockPages(system.blocks[k]) : Translate(v) = v
  /\ cr3 # NoFrame => \A v \in VPages \cap AllPages : Translate(v) = v

(* The frames of the GDT are held, and no tables.                          *)
GdtInv ==
  /\ GdtFrames \subseteq held \ DOMAIN tables
  /\ \A k, n \in DOMAIN gdt : gdt[k] = gdt[n] => k = n
  /\ kpc = "gdt" => Len(gdt) <= 1
  /\ kpc \notin {"gdt", "halt"} => Len(gdt) = 2
  /\ cr3 # NoFrame => Len(gdt) = 2

KernelInv == /\ TablesInv /\ MapInv /\ SystemInv /\ PhaseInv /\ CallInv
             /\ SpaceInv /\ GdtInv

-----------------------------------------------------------------------------
(* The ranges of the calls.                                                *)

LEMMA PageNumbers ==
  /\ LastPage \in Nat /\ Wrap = PageSize * (LastPage + 1) /\ VPages = 0 .. LastPage
  /\ PageSize * LastPage = Wrap - PageSize
<1> DEFINE M == Entries * Entries * Entries * Entries
<1>1. M \in Nat /\ M > 0
  <2>1. Entries \in Nat /\ Entries > 0  BY SizeFacts
  <2>2. \A a, b \in Nat : a > 0 /\ b > 0 => a * b \in Nat /\ a * b > 0  OBVIOUS
  <2>3. Entries * Entries \in Nat /\ Entries * Entries > 0  BY <2>1, <2>2
  <2>4. Entries * Entries * Entries \in Nat /\ Entries * Entries * Entries > 0
    BY <2>1, <2>2, <2>3
  <2> QED  BY <2>1, <2>2, <2>4
<1>2. Wrap = PageSize * M  BY SizeFacts DEF Wrap
<1>3. LastPage = M - 1 /\ VPages = 0 .. M - 1  BY DEF LastPage, VPages
<1> HIDE DEF M
<1>4. LastPage \in Nat /\ M = LastPage + 1  BY <1>1, <1>3
<1>5. PageSize * (LastPage + 1) = PageSize * LastPage + PageSize  BY <1>4, SizeFacts
<1>6. PageSize * LastPage \in Nat  BY <1>4, SizeFacts
<1> QED  BY <1>2, <1>3, <1>4, <1>5, <1>6, SizeFacts

(* A block that is mapped asks for its pages, without page 0.              *)
LEMMA BlockCall ==
  ASSUME NEW b, b.address \in Nat, b.frames_total \in Nat,
         b.address + b.frames_total <= LastPage, StartOf(b) < EndOf(b),
         NEW c, c = Identity(PageSize * StartOf(b), PageSize * (EndOf(b) - StartOf(b)))
  PROVE  /\ c \in Arguments /\ c.paddr = c.vaddr /\ c.vaddr + c.length <= Wrap - PageSize
         /\ {v \in VPages : c.vaddr \div PageSize <= v /\ PageSize * v < c.vaddr + c.length}
              = BlockPages(b)
<1> DEFINE s == StartOf(b)
           e == EndOf(b)
<1>1. s \in Nat /\ e \in Nat /\ e <= LastPage /\ s < e /\ e - s \in Nat
  BY PageNumbers DEF StartOf, EndOf
<1>2. \A v \in VPages : s <= v /\ v < e <=> v \in BlockPages(b)
  BY PageNumbers DEF StartOf, EndOf, BlockPages, BlockFrames
<1>3. /\ c.vaddr = PageSize * s /\ c.paddr = PageSize * s
      /\ c.length = PageSize * (e - s) /\ c.flags = {"READ_WRITE"}
      /\ c = [vaddr |-> c.vaddr, paddr |-> c.paddr, length |-> c.length, flags |-> c.flags]
  BY DEF Identity
<1> HIDE DEF s, e
<1>4. PageSize * s \in Nat /\ PageSize * e \in Nat /\ PageSize * (e - s) \in Nat
  BY <1>1, SizeFacts
<1>5. PageSize * s + PageSize * (e - s) = PageSize * e
  <2>1. PageSize * (s + (e - s)) = PageSize * s + PageSize * (e - s)  BY <1>1, SizeFacts
  <2>2. s + (e - s) = e  BY <1>1
  <2> QED  BY <2>1, <2>2
<1>6. PageSize * e <= Wrap - PageSize  BY <1>1, PageNumbers, SizeFacts, Monotone
<1>7. PageSize * s < Wrap
  <2>1. PageSize * s + PageSize <= PageSize * e  BY <1>1, SizeFacts, Monotone
  <2> QED  BY <1>4, <1>6, <2>1, SizeFacts
<1>8. c \in Arguments  BY <1>3, <1>4, <1>7, SizeFacts DEF Arguments, flag
<1>9. (PageSize * s) \div PageSize = s  BY <1>1, SizeFacts, Multiple
<1>10. \A v \in VPages : PageSize * v < PageSize * e <=> v < e
  <2> SUFFICES ASSUME NEW v \in VPages PROVE PageSize * v < PageSize * e <=> v < e
    OBVIOUS
  <2>1. v \in Nat /\ PageSize * v \in Nat  BY PageNumbers, SizeFacts
  <2>2. v < e => PageSize * v + PageSize <= PageSize * e  BY <2>1, <1>1, SizeFacts, Monotone
  <2>3. e <= v => PageSize * e <= PageSize * v  BY <2>1, <1>1, SizeFacts, Monotone
  <2> QED  BY <2>1, <2>2, <2>3, <1>1, <1>4, SizeFacts
<1>11. c.vaddr \div PageSize = s /\ c.vaddr + c.length = PageSize * e
  BY <1>3, <1>5, <1>9
<1>12. {v \in VPages : s <= v /\ PageSize * v < PageSize * e} = BlockPages(b)
  BY <1>2, <1>10 DEF BlockPages
<1> QED  BY <1>3, <1>6, <1>8, <1>11, <1>12

(* The framebuffer asks for its pages; page 0 is none of them.             *)
LEMMA FramebufferCall ==
  ASSUME FramebuffersFit, NEW fb \in Framebuffers, system.fb_start = fb.start,
         system.fb_length = fb.length,
         NEW c, c = Identity(system.fb_start, system.fb_length)
  PROVE  /\ c \in Arguments /\ c.paddr = c.vaddr /\ c.vaddr + c.length <= Wrap - PageSize
         /\ {v \in VPages : c.vaddr \div PageSize <= v /\ PageSize * v < c.vaddr + c.length}
              = FbPages
         /\ 0 \notin FbPages
<1>1. fb.start \in Nat /\ fb.length \in Nat  BY FramebuffersAssumption
<1>2. /\ fb.start + fb.length <= Wrap - PageSize
      /\ PageSize <= fb.start \/ (fb.start = 0 /\ fb.length = 0)
  BY DEF FramebuffersFit
<1>3. /\ c.vaddr = fb.start /\ c.paddr = fb.start /\ c.length = fb.length
      /\ c.flags = {"READ_WRITE"}
      /\ c = [vaddr |-> c.vaddr, paddr |-> c.paddr, length |-> c.length, flags |-> c.flags]
  BY DEF Identity
<1>4. fb.start < Wrap  BY <1>1, <1>2, SizeFacts
<1>5. c \in Arguments  BY <1>1, <1>3, <1>4, SizeFacts DEF Arguments, flag
<1>6. \A v \in VPages : v * PageSize = PageSize * v  BY VPagesNat, SizeFacts
<1>7. fb.start \div PageSize \in Nat  BY <1>1, SizeFacts, DivMod
<1>8. {v \in VPages : c.vaddr \div PageSize <= v /\ PageSize * v < c.vaddr + c.length} = FbPages
  BY <1>3, <1>6, <1>7, VPagesNat DEF FbPages
<1>9. 0 \notin FbPages
  <2>1. CASE PageSize <= fb.start
    <3>1. PageSize * 1 = PageSize  BY SizeFacts
    <3>2. ~ (fb.start < PageSize * 1)  BY <1>1, <2>1, <3>1, SizeFacts
    <3>3. ~ (fb.start \div PageSize < 1)  BY <1>1, <3>2, SizeFacts, QuotientBound
    <3> QED  BY <1>7, <3>3 DEF FbPages
  <2>2. CASE fb.start = 0 /\ fb.length = 0
    <3>1. ~ (0 * PageSize < 0 + 0)  BY SizeFacts
    <3> QED  BY <2>2, <3>1 DEF FbPages
  <2> QED  BY <1>2, <2>1, <2>2
<1> QED  BY <1>1, <1>2, <1>3, <1>5, <1>8, <1>9

(* A call of init_paging asks for pages to be themselves.                  *)
LEMMA IdentityAsked ==
  ASSUME StateInv, call.vaddr = call.paddr
  PROVE  \A v \in VPages : Asked(v) = v
<1>1. FirstPage \in Nat /\ Base = FirstPage  BY CallFacts DEF Base, FirstPage
<1> QED  BY <1>1, VPagesNat DEF Asked

(* The blocks that the kernel is given.                                    *)
LEMMA BlockFacts ==
  ASSUME MemoryBelowTop, ListInv, SystemInv, ~ InLoader, NEW k \in DOMAIN system.blocks
  PROVE  /\ system.blocks[k].address \in Nat /\ system.blocks[k].frames_total \in Nat
         /\ IsTouched(system.blocks[k]) =>
              system.blocks[k].address + system.blocks[k].frames_total <= LastPage
<1>1. system.blocks = blocks  BY DEF SystemInv
<1>2. PICK n \in DOMAIN mmap : Describes(blocks[k], mmap[n])  BY <1>1 DEF ListInv
<1>3. mmap \in MemoryMaps /\ mmap[n] \in Build!descriptor  BY MapsAssumption DEF ListInv
<1>4. mmap[n].PhysicalStart \in Nat /\ mmap[n].NumberOfPages \in Nat
  BY <1>3, LoaderAssumption DEF Build!descriptor
<1>5. IsTouched(blocks[k]) => mmap[n].PhysicalStart + mmap[n].NumberOfPages <= LastPage
  BY <1>2, <1>3 DEF MemoryBelowTop, IsTouched, Describes
<1> QED  BY <1>1, <1>2, <1>4, <1>5 DEF Describes

(* The sequence of blocks has a length.                                    *)
LEMMA SystemSequence ==
  ASSUME ListInv, SystemInv, ~ InLoader
  PROVE  Len(system.blocks) \in Nat /\ DOMAIN system.blocks = 1 .. Len(system.blocks)
  BY DEF ListInv, SystemInv

(* The pages of the current call are to be mapped.                         *)
LEMMA CallPagesTouched ==
  ASSUME ListInv, SystemInv, PhaseInv, CallInv, ~ InLoader, kpc \in {"mapping", "mapping_fb"}
  PROVE  CallPages \subseteq AllPages
<1>1. CASE kpc = "mapping"
  <2>1. i \in DOMAIN system.blocks /\ IsTouched(system.blocks[i])
        /\ CallPages = BlockPages(system.blocks[i])
    BY <1>1, SystemSequence DEF CallInv, PhaseInv, Block
  <2>2. BlockFrames(system.blocks[i]) \subseteq Touched  BY <2>1 DEF Touched, IsTouched
  <2> QED  BY <2>1, <2>2 DEF BlockPages, AllPages
<1>2. CASE kpc = "mapping_fb"  BY <1>2 DEF CallInv, AllPages
<1> QED  BY <1>1, <1>2

-----------------------------------------------------------------------------
(* What the steps of the kernel keep.                                      *)

LEMMA SystemKept ==
  ASSUME SystemInv, ~ InLoader, UNCHANGED <<system, buildVars>>
  PROVE  /\ SystemInv' /\ ~ InLoader'
         /\ Touched' = Touched /\ FbPages' = FbPages /\ AllPages' = AllPages
<1>1. ~ InLoader'  BY DEF InLoader
<1>2. Touched' = Touched /\ FbPages' = FbPages  BY DEF Touched, FbPages
<1> QED  BY <1>1, <1>2 DEF SystemInv, Build!Built, buildVars, AllPages

(* While the tables are built, pages that are to be mapped are mapped.     *)
LEMMA SpaceStep ==
  ASSUME SpaceInv, SystemInv, ~ InLoader, UNCHANGED <<system, buildVars, i>>, cr3' = NoFrame,
         \A v \in VPages : \/ Translate(v)' = Translate(v)
                           \/ v \in AllPages /\ Translate(v)' = v
  PROVE  SpaceInv'
<1>1. ~ InLoader' /\ AllPages' = AllPages  BY SystemKept
<1>2. \A v \in VPages : Translate(v)' # NotMapped => Translate(v)' = v /\ v \in AllPages
  BY DEF SpaceInv
<1>3. \A b : \A v \in BlockPages(b) : v \in VPages  BY DEF BlockPages
<1>4. \A k \in DOMAIN system.blocks : k < i /\ IsTouched(system.blocks[k]) =>
        \A v \in BlockPages(system.blocks[k]) : Translate(v)' = v
  BY <1>3 DEF SpaceInv
<1>5. NotMapped' = NotMapped  BY DEF NotMapped
<1> QED  BY <1>1, <1>2, <1>4 DEF SpaceInv

LEMMA GdtKept ==
  ASSUME TablesInv, GdtInv, gdt' = gdt, held \subseteq held',
         DOMAIN tables' \subseteq free \cup DOMAIN tables,
         kpc \notin {"gdt", "halt"}, kpc' # "gdt"
  PROVE  GdtInv'
<1>1. free \cap held = {}  BY DEF TablesInv, MemoryInv
<1>2. GdtFrames' = GdtFrames  BY DEF GdtFrames
<1> QED  BY <1>1, <1>2 DEF GdtInv

(* frame_allocate for the GDT.                                             *)
LEMMA SetupGdtStep ==
  ASSUME ListInv, TakenInv, KernelInv, SetupGdt, ~ InLoader, UNCHANGED buildVars
  PROVE  KernelInv'
<1>1. /\ kpc = "gdt" /\ pc = "boot" /\ i = 1 /\ cr3 = NoFrame
      /\ UNCHANGED <<pml4, tables, pc, call, at, heap, result, system, i, cr3>>
  BY DEF SetupGdt, KernelInv, PhaseInv
<1>2. TablesInv /\ MapInv /\ SystemInv /\ PhaseInv /\ CallInv /\ SpaceInv /\ GdtInv
  BY DEF KernelInv
<1>3. free \subseteq Nat /\ gdt \in Seq(Nat)  BY OfferedFacts DEF TakenInv
<1>4. MapInv' /\ KeepsSpace  BY <1>1, <1>2, StutterMaps
<1>5. SystemInv' /\ ~ InLoader'  BY <1>1, <1>2, SystemKept
<1>6. SpaceInv'  BY <1>1, <1>2, <1>4, SpaceStep DEF KeepsSpace
<1>7. StateInv' /\ ~ Walking'  BY <1>1, <1>2 DEF TablesInv, StateInv, Locals, Walking
<1>8. CASE \E f \in free : /\ Take("frame_allocate", 1, f) /\ gdt' = Append(gdt, f)
                           /\ kpc' = IF Len(gdt) = 1 THEN "pml4" ELSE "gdt"
  <2>1. PICK f \in free : /\ Take("frame_allocate", 1, f) /\ gdt' = Append(gdt, f)
                          /\ kpc' = IF Len(gdt) = 1 THEN "pml4" ELSE "gdt"
    BY <1>8
  <2>2. /\ f \in Nat /\ regions' = regions
        /\ free' = free \ {f} /\ held' = held \cup {f}
    BY <1>3, <2>1, TakeOneFacts
  <2>3. MemoryInv'  BY <1>1, <1>2, <2>1, <2>2 DEF TablesInv, MemoryInv
  <2>4. TablesInv'  BY <1>1, <1>2, <1>7, <2>3, QuietStep
  <2>5. f \notin held /\ f \notin DOMAIN tables  BY <1>2, <2>1 DEF TablesInv, MemoryInv
  <2>6. /\ Len(gdt) \in Nat /\ Len(gdt') = Len(gdt) + 1 /\ DOMAIN gdt = 1 .. Len(gdt)
        /\ DOMAIN gdt' = DOMAIN gdt \cup {Len(gdt) + 1} /\ Len(gdt) + 1 \notin DOMAIN gdt
        /\ \A k \in DOMAIN gdt : gdt'[k] = gdt[k]
        /\ gdt'[Len(gdt) + 1] = f
    BY <1>3, <2>1, <2>2
  <2>7. GdtInv'
    <3>1. Len(gdt) <= 1  BY <1>1, <1>2 DEF GdtInv
    <3>2. GdtFrames' = GdtFrames \cup {f}  BY <2>6 DEF GdtFrames
    <3>3. GdtFrames' \subseteq held' \ DOMAIN tables'
      BY <1>1, <1>2, <2>2, <2>5, <3>2 DEF GdtInv
    <3>4. f \notin GdtFrames  BY <1>2, <2>5 DEF GdtInv
    <3>5. \A k, n \in DOMAIN gdt' : gdt'[k] = gdt'[n] => k = n
      BY <1>2, <2>6, <3>4 DEF GdtInv, GdtFrames
    <3> QED  BY <1>1, <2>1, <2>6, <3>1, <3>3, <3>5 DEF GdtInv
  <2>8. PhaseInv' /\ CallInv'
    BY <1>1, <1>2, <2>1 DEF PhaseInv, CallInv, InRange
  <2> QED  BY <1>4, <1>5, <1>6, <2>4, <2>7, <2>8 DEF KernelInv
<1>9. CASE Memory!Refuse("frame_allocate", 1) /\ kpc' = "halt" /\ UNCHANGED gdt
  <2>1. UNCHANGED <<regions, free, held>>  BY <1>9, RefuseFacts
  <2>2. MemoryInv'  BY <1>1, <1>2, <2>1 DEF TablesInv, MemoryInv
  <2>3. TablesInv'  BY <1>1, <1>2, <1>7, <2>2, QuietStep
  <2>4. GdtInv'  BY <1>1, <1>2, <1>9, <2>1 DEF GdtInv, GdtFrames
  <2>5. PhaseInv' /\ CallInv'
    BY <1>1, <1>2, <1>9 DEF PhaseInv, CallInv, InRange
  <2> QED  BY <1>4, <1>5, <1>6, <2>3, <2>4, <2>5 DEF KernelInv
<1> QED  BY <1>8, <1>9 DEF SetupGdt, Proceed

(* The top level of the tables.                                            *)
LEMMA CreatePml4Step ==
  ASSUME ListInv, TakenInv, KernelInv, CreatePml4, ~ InLoader, UNCHANGED buildVars
  PROVE  KernelInv'
<1>1. /\ kpc = "pml4" /\ init_pml4 /\ pc = "boot" /\ i = 1 /\ cr3 = NoFrame
      /\ kpc' = (IF pc' = "halt" THEN "halt" ELSE "block")
      /\ UNCHANGED <<system, i, gdt, cr3>>
  BY DEF CreatePml4, KernelInv, PhaseInv, Proceed
<1>2. TablesInv /\ MapInv /\ SystemInv /\ PhaseInv /\ CallInv /\ SpaceInv /\ GdtInv
  BY DEF KernelInv
<1>3. TablesInv'  BY <1>1, <1>2, InitPml4Step
<1>4. MapInv' /\ KeepsSpace /\ pc' \in {"idle", "halt"} /\ UNCHANGED <<call, result>>
  BY <1>1, <1>2, InitPml4Maps
<1>5. SystemInv' /\ ~ InLoader'  BY <1>1, <1>2, SystemKept
<1>6. SpaceInv'  BY <1>1, <1>2, <1>4, SpaceStep DEF KeepsSpace
<1>7. free' \cup DOMAIN tables' \subseteq free \cup DOMAIN tables /\ held \subseteq held'
  BY <1>1, OfferedFacts, Pml4Takes DEF TakenInv
<1>8. GdtInv'  BY <1>1, <1>2, <1>7, GdtKept
<1>9. PhaseInv' /\ CallInv'
  BY <1>1, <1>2, <1>4 DEF PhaseInv, CallInv, InRange
<1> QED  BY <1>3, <1>4, <1>5, <1>6, <1>8, <1>9 DEF KernelInv

(* init_paging calls map_range.                                            *)
LEMMA BeginCall ==
  ASSUME KernelInv, ~ InLoader, kpc = "block", NEW c \in Arguments, c.paddr = c.vaddr,
         c.vaddr + c.length <= Wrap - PageSize, map_range(c),
         kpc' \in {"mapping", "mapping_fb"}, UNCHANGED <<system, i, gdt, cr3, buildVars>>,
         NEW pages,
         pages = {v \in VPages : c.vaddr \div PageSize <= v /\ PageSize * v < c.vaddr + c.length},
         kpc' = "mapping" => /\ i <= Len(system.blocks) /\ IsTouched(Block)
                             /\ pages = BlockPages(Block),
         kpc' = "mapping_fb" => /\ i > Len(system.blocks)
                                /\ pages = FbPages /\ 0 \notin FbPages
  PROVE  KernelInv'
<1>1. TablesInv /\ MapInv /\ SystemInv /\ PhaseInv /\ CallInv /\ SpaceInv /\ GdtInv
  BY DEF KernelInv
<1>2. cr3 = NoFrame  BY <1>1 DEF PhaseInv
<1>3. TablesInv'  BY <1>1, MapRangeStep
<1>4. MapInv' /\ KeepsSpace /\ pc' = "map_range"  BY MapRangeMaps
<1>5. SystemInv' /\ ~ InLoader' /\ FbPages' = FbPages  BY <1>1, SystemKept
<1>6. SpaceInv'  BY <1>1, <1>2, <1>4, SpaceStep DEF KeepsSpace
<1>7. GdtInv'
  <2>1. UNCHANGED <<held, tables>>  BY DEF map_range, allocator
  <2> QED  BY <1>1, <2>1, GdtKept
<1>8. /\ call'.op = "map_range" /\ call'.vaddr = c.vaddr /\ call'.paddr = c.paddr
      /\ call'.length = c.length
  BY DEF map_range, Enter
<1>9. InRange' /\ CallPages' = pages
  <2>1. c.vaddr \in Nat /\ c.length \in Nat  BY SizeFacts DEF Arguments
  <2>2. c.vaddr + c.length <= PhysicalWrap - 2 * PageSize
    BY <2>1, SizeFacts, PhysicalFacts
  <2> QED  BY <1>8, <2>2 DEF InRange, CallPages, FirstPage
<1>10. Block' = Block  BY DEF Block
<1>11. CallInv'  BY <1>5, <1>8, <1>9, <1>10 DEF CallInv
<1>12. PhaseInv'  BY <1>1, <1>2, <1>4, <1>8 DEF PhaseInv, Mapping
<1> QED  BY <1>3, <1>4, <1>5, <1>6, <1>7, <1>11, <1>12 DEF KernelInv

(* A step that leaves the tables alone.                                    *)
LEMMA IdleStep ==
  ASSUME KernelInv, ~ InLoader, UNCHANGED <<vars, system, gdt, buildVars>>
  PROVE  /\ TablesInv' /\ MapInv' /\ KeepsSpace /\ SystemInv' /\ ~ InLoader'
         /\ AllPages' = AllPages
<1>1. TablesInv /\ MapInv /\ SystemInv  BY DEF KernelInv
<1>2. TablesInv'  BY <1>1, StutterStep
<1>3. MapInv' /\ KeepsSpace  BY <1>1, StutterMaps DEF vars
<1>4. SystemInv' /\ ~ InLoader' /\ AllPages' = AllPages  BY <1>1, SystemKept
<1> QED  BY <1>2, <1>3, <1>4

(* One more block is dealt with.                                           *)
LEMMA BlockDone ==
  ASSUME ListInv, KernelInv, ~ InLoader, UNCHANGED <<vars, system, gdt, cr3, buildVars>>,
         pc = "idle", kpc \in {"block", "mapping"}, i <= Len(system.blocks),
         kpc' = "block", i' = i + 1,
         IsTouched(Block) => \A v \in BlockPages(Block) : Translate(v) = v
  PROVE  KernelInv'
<1>1. TablesInv /\ MapInv /\ SystemInv /\ PhaseInv /\ CallInv /\ SpaceInv /\ GdtInv
  BY DEF KernelInv
<1>2. /\ TablesInv' /\ MapInv' /\ KeepsSpace /\ SystemInv' /\ ~ InLoader'
      /\ AllPages' = AllPages
  BY IdleStep
<1>3. cr3 = NoFrame /\ i \in Nat \ {0} /\ pc' = "idle" /\ UNCHANGED <<call, held, tables>>
  BY <1>1 DEF PhaseInv, vars, allocator
<1>4. GdtInv'  BY <1>1, <1>3, GdtKept
<1>5. PhaseInv'  BY <1>3 DEF PhaseInv
<1>6. CallInv'  BY <1>1, <1>3 DEF CallInv, InRange
<1>7. SpaceInv'
  <2>1. \A v \in VPages : Translate(v)' # NotMapped => Translate(v)' = v /\ v \in AllPages
    BY <1>1, <1>2 DEF SpaceInv, KeepsSpace
  <2>2. ASSUME NEW k \in DOMAIN system.blocks, k < i + 1, IsTouched(system.blocks[k]),
               NEW v \in BlockPages(system.blocks[k])
        PROVE  Translate(v)' = v
    <3>1. v \in VPages  BY DEF BlockPages
    <3>2. k < i \/ k = i  BY <1>1, <1>3, <2>2, SystemSequence
    <3>3. Translate(v) = v  BY <1>1, <2>2, <3>2 DEF SpaceInv, Block
    <3> QED  BY <1>2, <3>1, <3>3 DEF KeepsSpace
  <2>3. \A k \in DOMAIN system.blocks : k < i + 1 /\ IsTouched(system.blocks[k]) =>
          \A v \in BlockPages(system.blocks[k]) : Translate(v)' = v
    BY <2>2
  <2> QED  BY <1>2, <1>3, <2>1, <2>3 DEF SpaceInv
<1> QED  BY <1>2, <1>4, <1>5, <1>6, <1>7 DEF KernelInv

LEMMA NextBlockStep ==
  ASSUME MemoryBelowTop, ListInv, KernelInv, NextBlock, ~ InLoader, UNCHANGED buildVars
  PROVE  KernelInv'
<1>1. /\ kpc = "block" /\ i <= Len(system.blocks) /\ UNCHANGED <<system, gdt, cr3>>
  BY DEF NextBlock
<1>2. SystemInv /\ PhaseInv  BY DEF KernelInv
<1>3. i \in DOMAIN system.blocks  BY <1>1, <1>2, SystemSequence DEF PhaseInv
<1>4. /\ Block.address \in Nat /\ Block.frames_total \in Nat
      /\ IsTouched(Block) => Block.address + Block.frames_total <= LastPage
  BY <1>2, <1>3, BlockFacts DEF Block
<1>5. CASE Mapped(Block)
  <2> DEFINE c == Identity(PageSize * StartOf(Block), PageSize * (EndOf(Block) - StartOf(Block)))
             pages == {v \in VPages : /\ c.vaddr \div PageSize <= v
                                      /\ PageSize * v < c.vaddr + c.length}
  <2>1. map_range(c) /\ kpc' = "mapping" /\ i' = i  BY <1>5 DEF NextBlock, Proceed
  <2>2. IsTouched(Block) /\ StartOf(Block) < EndOf(Block)  BY <1>5 DEF Mapped, IsTouched
  <2>3. /\ c \in Arguments /\ c.paddr = c.vaddr /\ c.vaddr + c.length <= Wrap - PageSize
        /\ pages = BlockPages(Block)
    BY <1>4, <2>2, BlockCall
  <2> HIDE DEF c
  <2> QED  BY <1>1, <2>1, <2>2, <2>3, BeginCall
<1>6. CASE ~ Mapped(Block)
  <2>1. i' = i + 1 /\ UNCHANGED <<vars, kpc>>  BY <1>6 DEF NextBlock
  <2>2. pc = "idle"  BY <1>1, <1>2 DEF PhaseInv
  <2>3. IsTouched(Block) => BlockPages(Block) = {}
    <3>1. IsTouched(Block) => ~ (StartOf(Block) < EndOf(Block))
      BY <1>6 DEF Mapped, IsTouched
    <3> QED  BY <1>4, <3>1, VPagesNat DEF BlockPages, BlockFrames, StartOf, EndOf
  <2> QED  BY <1>1, <2>1, <2>2, <2>3, BlockDone
<1> QED  BY <1>5, <1>6

(* map_range runs.                                                         *)
LEMMA MapStepStep ==
  ASSUME ListInv, TakenInv, KernelInv, MapStep, ~ InLoader, UNCHANGED buildVars
  PROVE  KernelInv'
<1>1. /\ kpc \in {"mapping", "mapping_fb"} /\ pc # "idle"
      /\ (Loop \/ map_large_page \/ map_page)
      /\ UNCHANGED <<system, kpc, i, gdt, cr3>>
  BY DEF MapStep, kernelVars
<1>2. TablesInv /\ MapInv /\ SystemInv /\ PhaseInv /\ CallInv /\ SpaceInv /\ GdtInv
  BY DEF KernelInv
<1>3. StateInv /\ InRange /\ call.vaddr = call.paddr /\ call.op = "map_range" /\ cr3 = NoFrame
  BY <1>1, <1>2 DEF TablesInv, CallInv, PhaseInv
<1>4. TablesInv'  BY <1>1, <1>2, LoopStep, MapLargePageStep, MapPageStep
<1>5. MapInv' /\ call' = call /\ Installs
  BY <1>1, <1>2, <1>3, LoopMaps, MapLargePageMaps, MapPageMaps, KeepsInstalls
<1>6. Mapping' \/ pc' = "idle"
  <2>1. CASE Loop  BY <1>2, <2>1, LoopMaps
  <2>2. CASE map_large_page  BY <1>2, <2>2, MapLargePageMaps
  <2>3. CASE map_page
    <3>1. \A value : Return(value) => pc' = "idle"  BY <1>3 DEF Return
    <3>2. next_table => pc' = pc  BY DEF next_table
    <3> QED  BY <2>3, <3>1, <3>2 DEF map_page, Advance, Mapping
  <2> QED  BY <1>1, <2>1, <2>2, <2>3
<1>7. SystemInv' /\ ~ InLoader' /\ FbPages' = FbPages  BY <1>1, <1>2, SystemKept
<1>8. SpaceInv'
  <2>1. CallPages \subseteq AllPages  BY <1>1, <1>2, CallPagesTouched
  <2>2. \A v \in VPages : Asked(v) = v  BY <1>3, IdentityAsked
  <2>3. \A v \in VPages : \/ Translate(v)' = Translate(v)
                          \/ v \in AllPages /\ Translate(v)' = v
    BY <1>5, <2>1, <2>2 DEF Installs, CallPages
  <2> QED  BY <1>1, <1>2, <1>3, <2>3, SpaceStep
<1>9. GdtInv'
  <2>1. free' \cup DOMAIN tables' \subseteq free \cup DOMAIN tables /\ held \subseteq held'
    BY <1>1, OfferedFacts, MappingTakes DEF TakenInv
  <2> QED  BY <1>1, <1>2, <2>1, GdtKept
<1>10. PhaseInv'  BY <1>1, <1>2, <1>3, <1>5, <1>6 DEF PhaseInv
<1>11. CallInv'
  <2>1. InRange' /\ CallPages' = CallPages /\ Block' = Block
    BY <1>1, <1>3, <1>5 DEF InRange, CallPages, FirstPage, Block
  <2> QED  BY <1>1, <1>2, <1>5, <1>7, <2>1 DEF CallInv
<1> QED  BY <1>4, <1>5, <1>7, <1>8, <1>9, <1>10, <1>11 DEF KernelInv

(* A call that has returned 0 has mapped its pages to themselves.          *)
LEMMA CallDone ==
  ASSUME KernelInv, kpc \in {"mapping", "mapping_fb"}, pc = "idle", result = 0
  PROVE  \A v \in CallPages : Translate(v) = v
<1>1. TablesInv /\ MapInv /\ PhaseInv /\ CallInv  BY DEF KernelInv
<1>2. StateInv /\ DoneInv /\ InRange /\ call.vaddr = call.paddr /\ call.op = "map_range"
  BY <1>1 DEF TablesInv, MapInv, CallInv, PhaseInv
<1>3. \A v \in VPages : Asked(v) = v  BY <1>2, IdentityAsked
<1> QED  BY <1>2, <1>3 DEF DoneInv, CallPages

(* The kernel stops.                                                       *)
LEMMA HaltStep ==
  ASSUME KernelInv, ~ InLoader, UNCHANGED <<vars, system, i, gdt, buildVars>>, kpc' = "halt",
         cr3' # NoFrame => /\ Len(gdt) = 2
                           /\ \A v \in VPages \cap AllPages : Translate(v) = v
  PROVE  KernelInv'
<1>1. PhaseInv /\ CallInv /\ SpaceInv /\ GdtInv  BY DEF KernelInv
<1>2. /\ TablesInv' /\ MapInv' /\ KeepsSpace /\ SystemInv' /\ ~ InLoader'
      /\ AllPages' = AllPages
  BY IdleStep
<1>3. UNCHANGED <<call, held, tables>>  BY DEF vars, allocator
<1>4. GdtInv'  BY <1>1, <1>3 DEF GdtInv, GdtFrames
<1>5. PhaseInv'  BY <1>1, <1>2 DEF PhaseInv
<1>6. CallInv'  BY <1>1, <1>3 DEF CallInv, InRange
<1>7. SpaceInv'
  <2>1. \A v \in VPages : Translate(v)' = Translate(v)  BY <1>2 DEF KeepsSpace
  <2>2. \A b : \A v \in BlockPages(b) : v \in VPages  BY DEF BlockPages
  <2>3. \A k \in DOMAIN system.blocks : k < i /\ IsTouched(system.blocks[k]) =>
          \A v \in BlockPages(system.blocks[k]) : Translate(v)' = v
    BY <1>1, <2>1, <2>2 DEF SpaceInv
  <2>4. \A v \in VPages : Translate(v)' # NotMapped => Translate(v)' = v /\ v \in AllPages
    BY <1>1, <2>1 DEF SpaceInv
  <2> QED  BY <1>2, <2>1, <2>3, <2>4 DEF SpaceInv
<1> QED  BY <1>2, <1>4, <1>5, <1>6, <1>7 DEF KernelInv

LEMMA BlockMappedStep ==
  ASSUME ListInv, KernelInv, BlockMapped, ~ InLoader, UNCHANGED buildVars
  PROVE  KernelInv'
<1>1. kpc = "mapping" /\ pc = "idle" /\ UNCHANGED <<vars, system, gdt, cr3>>
  BY DEF BlockMapped
<1>2. CallInv /\ PhaseInv  BY DEF KernelInv
<1>3. CASE result = 0 /\ kpc' = "block" /\ i' = i + 1
  <2>1. i <= Len(system.blocks) /\ CallPages = BlockPages(Block)  BY <1>1, <1>2 DEF CallInv
  <2>2. \A v \in BlockPages(Block) : Translate(v) = v  BY <1>1, <1>3, <2>1, CallDone
  <2> QED  BY <1>1, <1>3, <2>1, <2>2, BlockDone
<1>4. CASE kpc' = "halt" /\ UNCHANGED i
  <2>1. cr3 = NoFrame  BY <1>1, <1>2 DEF PhaseInv
  <2> QED  BY <1>1, <1>4, <2>1, HaltStep
<1> QED  BY <1>3, <1>4 DEF BlockMapped, Proceed

LEMMA MapFramebufferStep ==
  ASSUME FramebuffersFit, KernelInv, MapFramebuffer, ~ InLoader, UNCHANGED buildVars
  PROVE  KernelInv'
<1> DEFINE c == Identity(system.fb_start, system.fb_length)
           pages == {v \in VPages : /\ c.vaddr \div PageSize <= v
                                    /\ PageSize * v < c.vaddr + c.length}
<1>1. /\ kpc = "block" /\ i > Len(system.blocks) /\ map_range(c) /\ kpc' = "mapping_fb"
      /\ UNCHANGED <<system, i, gdt, cr3>>
  BY DEF MapFramebuffer, Proceed
<1>2. PICK fb \in Framebuffers : system.fb_start = fb.start /\ system.fb_length = fb.length
  BY DEF KernelInv, SystemInv
<1>3. /\ c \in Arguments /\ c.paddr = c.vaddr /\ c.vaddr + c.length <= Wrap - PageSize
      /\ pages = FbPages /\ 0 \notin FbPages
  BY <1>2, FramebufferCall
<1> HIDE DEF c
<1> QED  BY <1>1, <1>3, BeginCall

(* CR3 is loaded: all blocks and the framebuffer are mapped then.          *)
LEMMA SwitchStep ==
  ASSUME ListInv, KernelInv, Switch, ~ InLoader, UNCHANGED buildVars
  PROVE  KernelInv'
<1>1. /\ kpc = "mapping_fb" /\ pc = "idle" /\ kpc' = "halt"
      /\ cr3' = (IF result = 0 THEN pml4 ELSE cr3)
      /\ UNCHANGED <<vars, system, i, gdt>>
  BY DEF Switch, Proceed
<1>2. SystemInv /\ PhaseInv /\ CallInv /\ SpaceInv /\ GdtInv  BY DEF KernelInv
<1>3. cr3 = NoFrame /\ Len(gdt) = 2  BY <1>1, <1>2 DEF PhaseInv, GdtInv
<1>4. ASSUME result = 0, NEW v \in VPages, v \in AllPages
      PROVE  Translate(v) = v
  <2>1. CASE v \in FbPages
    <3>1. v \in CallPages  BY <1>1, <1>2, <2>1 DEF CallInv
    <3> QED  BY <1>1, <1>4, <3>1, CallDone
  <2>2. CASE v \in Touched
    <3>1. PICK k \in DOMAIN system.blocks : /\ IsTouched(system.blocks[k])
                                            /\ v \in BlockFrames(system.blocks[k])
      BY <2>2 DEF Touched, IsTouched
    <3>2. v \in BlockPages(system.blocks[k])  BY <1>4, <3>1 DEF BlockPages, AllPages
    <3>3. k < i  BY <1>1, <1>2, SystemSequence DEF CallInv, PhaseInv
    <3> QED  BY <1>2, <3>1, <3>2, <3>3 DEF SpaceInv
  <2> QED  BY <1>4, <2>1, <2>2 DEF AllPages
<1> QED  BY <1>1, <1>3, <1>4, HaltStep

LEMMA KernelStepStep ==
  ASSUME MemoryBelowTop, FramebuffersFit, ListInv, TakenInv, KernelInv, KernelStep
  PROVE  KernelInv'
  BY SetupGdtStep, CreatePml4Step, NextBlockStep, MapStepStep, BlockMappedStep,
     MapFramebufferStep, SwitchStep DEF KernelStep, kernel_start

-----------------------------------------------------------------------------
(* The composition.                                                        *)

(* Before the first table nothing is mapped.                               *)
LEMMA NothingMapped ==
  ASSUME pml4 = NoFrame
  PROVE  \A v : Translate(v) = NotMapped
<1>1. \A v : Pdp(v) = NoFrame  BY DEF Pdp, Below
<1>2. \A v : Pd(v) = NoFrame  BY <1>1 DEF Pd, Below
<1>3. \A v : Pt(v) = NoFrame  BY <1>2 DEF Pt, Below
<1>4. \A v : LeafOf(v) = Empty  BY <1>2, <1>3 DEF LeafOf
<1> QED  BY <1>4 DEF Translate, Empty

LEMMA EnterKernelStep ==
  ASSUME ListInv, KernelInv, EnterKernel, ~ InLoader'
  PROVE  KernelInv'
<1>1. InLoader /\ Build!Built  BY DEF EnterKernel
<1>2. TablesInv /\ MapInv /\ PhaseInv /\ CallInv /\ SpaceInv /\ GdtInv  BY DEF KernelInv
<1>3. Start({}, {}) /\ kpc = "gdt" /\ i = 1 /\ gdt = << >> /\ cr3 = NoFrame
  BY <1>1 DEF KernelInv, SystemInv
<1>4. UNCHANGED <<held, pml4, tables, pc, call, at, heap, result, kpc, i, gdt, cr3, buildVars>>
  BY DEF EnterKernel
<1>5. regions' = {Build!Frames(blocks[k]) : k \in Managed} /\ free' = Offered
  BY DEF EnterKernel, Offered
<1>6. MemoryInv'
  <2>1. ASSUME NEW k \in Managed
        PROVE  /\ Build!Frames(blocks[k]) \subseteq Nat
               /\ Build!FreeFrames(blocks[k]) \subseteq Build!Frames(blocks[k])
    <3>1. PICK n \in DOMAIN mmap : Describes(blocks[k], mmap[n])  BY DEF ListInv, Managed
    <3>2. mmap[n] \in Build!descriptor  BY MapsAssumption DEF ListInv
    <3>3. mmap[n].PhysicalStart \in Nat /\ mmap[n].NumberOfPages \in Nat
      BY <3>2, LoaderAssumption DEF Build!descriptor
    <3>4. Build!Frames(blocks[k]) = Build!Pages(mmap[n])
      BY <3>1 DEF Describes, Build!Frames, Build!Pages
    <3>5. Build!Pages(mmap[n]) \subseteq Nat  BY <3>3 DEF Build!Pages
    <3> QED  BY <3>1, <3>4, <3>5 DEF Describes
  <2>2. UNION regions' \subseteq Nat  BY <1>5, <2>1
  <2>3. free' \subseteq UNION regions'  BY <1>5, <2>1 DEF Offered
  <2>4. held' = {} /\ heap' = {} /\ DOMAIN tables' = {}  BY <1>3, <1>4 DEF Start
  <2> QED  BY <2>2, <2>3, <2>4 DEF MemoryInv
<1>7. StateInv' /\ ~ Walking'
  BY <1>2, <1>3, <1>4 DEF TablesInv, StateInv, Locals, Walking, Start
<1>8. TablesInv'  BY <1>2, <1>4, <1>6, <1>7, QuietStep
<1>9. MapInv' /\ KeepsSpace  BY <1>2, <1>4, StutterMaps
<1>10. SystemInv'
  <2>1. PICK fb \in Framebuffers :
          system' = [blocks |-> blocks, fb_start |-> fb.start, fb_length |-> fb.length]
    BY DEF EnterKernel
  <2>2. /\ system'.blocks = blocks' /\ system'.fb_start = fb.start
        /\ system'.fb_length = fb.length
    BY <1>4, <2>1 DEF buildVars
  <2> QED  BY <1>1, <1>4, <2>2 DEF SystemInv, Build!Built, buildVars
<1>11. PhaseInv' /\ CallInv' /\ GdtInv'
  BY <1>2, <1>3, <1>4 DEF PhaseInv, CallInv, InRange, GdtInv, GdtFrames
<1>12. SpaceInv'
  <2>1. \A v \in VPages : Translate(v)' = NotMapped
    BY <1>3, <1>9, NothingMapped DEF Start, KeepsSpace
  <2>2. \A k \in DOMAIN system'.blocks : ~ (k < i')
    <3>1. DOMAIN system'.blocks = 1 .. Len(blocks) /\ Len(blocks) \in Nat
      BY DEF EnterKernel, ListInv
    <3> QED  BY <1>3, <1>4, <3>1
  <2> QED  BY <1>3, <1>4, <2>1, <2>2 DEF SpaceInv
<1> QED  BY <1>8, <1>9, <1>10, <1>11, <1>12 DEF KernelInv

(* The loader leaves the kernel's state alone.                             *)
LEMMA LoaderKeeps ==
  ASSUME KernelInv, UNCHANGED bootVars, InLoader \/ UNCHANGED buildVars
  PROVE  KernelInv'
<1>1. TablesInv /\ MapInv /\ SystemInv /\ PhaseInv /\ CallInv /\ SpaceInv /\ GdtInv
  BY DEF KernelInv
<1>2. UNCHANGED vars /\ UNCHANGED <<system, kpc, i, gdt, cr3>>  BY DEF bootVars, kernelVars
<1>3. TablesInv'  BY <1>1, <1>2, StutterStep
<1>4. MapInv' /\ KeepsSpace  BY <1>1, <1>2, StutterMaps DEF vars
<1>5. (InLoader' <=> InLoader) /\ Touched' = Touched /\ FbPages' = FbPages /\ Block' = Block
  BY <1>2 DEF InLoader, Touched, FbPages, Block
<1>6. AllPages' = AllPages  BY <1>5 DEF AllPages
<1>7. SystemInv'
  <2>1. CASE InLoader  BY <1>1, <1>2, <1>5, <2>1 DEF SystemInv, Start, vars, allocator
  <2>2. CASE ~ InLoader  BY <1>1, <1>2, <2>2, SystemKept
  <2> QED  BY <2>1, <2>2
<1>8. UNCHANGED <<pc, call, held, tables>>  BY <1>2 DEF vars, allocator
<1>9. PhaseInv'  BY <1>1, <1>2, <1>5, <1>8 DEF PhaseInv, Mapping
<1>10. CallInv'
  <2>1. CallPages' = CallPages /\ InRange' = InRange
    BY <1>8 DEF CallPages, FirstPage, InRange
  <2> QED  BY <1>1, <1>2, <1>5, <1>8, <2>1 DEF CallInv
<1>11. GdtInv'  BY <1>1, <1>2, <1>8 DEF GdtInv, GdtFrames
<1>12. SpaceInv'
  <2>1. \A v \in VPages : Translate(v)' = Translate(v)  BY <1>4 DEF KeepsSpace
  <2>2. \A b : \A v \in BlockPages(b) : v \in VPages  BY DEF BlockPages
  <2>3. ~ InLoader => \A k \in DOMAIN system.blocks : k < i /\ IsTouched(system.blocks[k]) =>
          \A v \in BlockPages(system.blocks[k]) : Translate(v)' = v
    BY <1>1, <2>1, <2>2 DEF SpaceInv
  <2> QED  BY <1>1, <1>2, <1>5, <1>6, <2>1, <2>3 DEF SpaceInv
<1> QED  BY <1>3, <1>4, <1>7, <1>9, <1>10, <1>11, <1>12 DEF KernelInv

LEMMA KernelInvStep ==
  ASSUME MemoryBelowTop, FramebuffersFit, ListInv, TakenInv, KernelInv,
         [HandoverNext]_handoverVars
  PROVE  KernelInv'
<1>1. CASE LoaderStep  BY <1>1, LoaderKeeps DEF LoaderStep
<1>2. CASE EnterKernel  BY <1>2, EnterTakes, EnterKernelStep
<1>3. CASE KernelStep  BY <1>3, KernelStepStep
<1>4. CASE UNCHANGED handoverVars  BY <1>4, LoaderKeeps DEF handoverVars
<1> QED  BY <1>1, <1>2, <1>3, <1>4 DEF HandoverNext, Step, KernelHalted, handoverVars

LEMMA KernelInvInit ==
  ASSUME HandoverInit
  PROVE  KernelInv
<1>1. Start({}, {}) /\ InLoader /\ kpc = "gdt" /\ i = 1 /\ gdt = << >> /\ cr3 = NoFrame
  BY DEF HandoverInit, InLoader
<1>2. TablesInv  BY <1>1, StartInv
<1>3. MapInv  BY <1>1, MapInvInit
<1>4. SystemInv  BY <1>1 DEF SystemInv
<1>5. pc = "boot" /\ call = NoCall  BY <1>1 DEF Start
<1>6. PhaseInv  BY <1>1, <1>5 DEF PhaseInv
<1>7. CallInv  BY <1>1, <1>5, NoCallInRange DEF CallInv, InRange, NoCall
<1>8. SpaceInv  BY <1>1 DEF SpaceInv
<1>9. GdtInv  BY <1>1 DEF GdtInv, GdtFrames
<1> QED  BY <1>2, <1>3, <1>4, <1>6, <1>7, <1>8, <1>9 DEF KernelInv

(* While the kernel builds its tables every mapping is an identity of a    *)
(* page it is to map, the blocks it has passed are mapped, and its GDT is  *)
(* apart from its tables.                                                  *)
THEOREM KernelInvariant ==
  ASSUME MemoryBelowTop, FramebuffersFit
  PROVE  HandoverSpec => [](ListInv /\ TakenInv /\ KernelInv)
<1>1. HandoverInit => ListInv /\ TakenInv /\ KernelInv  BY TakenInit, KernelInvInit
<1>2. ListInv /\ TakenInv /\ KernelInv /\ [HandoverNext]_handoverVars
        => (ListInv /\ TakenInv /\ KernelInv)'
  BY TakenStep, KernelInvStep
<1> QED  BY <1>1, <1>2, PTL DEF HandoverSpec

(* When CR3 is loaded, the blocks of RAM, ACPI and runtime memory and the  *)
(* framebuffer translate to themselves, and nothing else does, page 0      *)
(* included, for any list of blocks and any sizes.                         *)
THEOREM KernelMapsIdentity ==
  ASSUME MemoryBelowTop, FramebuffersFit
  PROVE  HandoverSpec => []IdentityMapped
<1>1. SpaceInv /\ PhaseInv => IdentityMapped
  BY DEF SpaceInv, PhaseInv, IdentityMapped, AllPages
<1>2. KernelInv => IdentityMapped  BY <1>1 DEF KernelInv
<1> QED  BY <1>2, KernelInvariant, PTL

(* The frames that were on offer are pages that the kernel maps.           *)
LEMMA OfferedMapped ==
  ASSUME MemoryBelowTop, ListInv, SystemInv, ~ InLoader
  PROVE  Offered \subseteq VPages \cap AllPages
<1>1. SUFFICES ASSUME NEW f \in Offered PROVE f \in VPages /\ f \in AllPages
  OBVIOUS
<1>2. f \in Nat /\ f # 0  BY OfferedFacts
<1>3. PICK k \in DOMAIN blocks : f \in Build!FreeFrames(blocks[k])  BY DEF Offered, Managed
<1>4. PICK n \in DOMAIN mmap : Describes(blocks[k], mmap[n])  BY DEF ListInv
<1>5. mmap[n].Type = "EfiConventionalMemory" /\ f \in Build!Pages(mmap[n])
  BY <1>3, <1>4 DEF Describes
<1>6. system.blocks = blocks  BY DEF SystemInv
<1>7. IsTouched(blocks[k])  BY <1>4, <1>5 DEF Describes, IsTouched, Build!TypeOf
<1>8. f \in BlockFrames(blocks[k])  BY <1>4, <1>5 DEF Describes, Build!Pages, BlockFrames
<1>9. f \in Touched  BY <1>3, <1>6, <1>7, <1>8 DEF Touched, IsTouched
<1>10. f \in VPages
  BY <1>2, <1>3, <1>6, <1>7, <1>8, BlockFacts, PageNumbers DEF BlockFrames
<1> QED  BY <1>2, <1>9, <1>10 DEF AllPages

(* After the switch the kernel's tables and its GDT are still where it     *)
(* looks for them, each in a frame of its own.                             *)
THEOREM KernelReachesItself ==
  ASSUME MemoryBelowTop, FramebuffersFit
  PROVE  HandoverSpec => []ReachesItself
<1>1. ListInv /\ TakenInv /\ KernelInv => ReachesItself
  <2> SUFFICES ASSUME ListInv, TakenInv, KernelInv, cr3 # NoFrame
               PROVE  /\ \A t \in DOMAIN tables \cup {gdt[1], gdt[2]} : Translate(t) = t
                      /\ gdt[1] # gdt[2]
                      /\ gdt[1] \notin DOMAIN tables /\ gdt[2] \notin DOMAIN tables
    BY DEF ReachesItself
  <2>1. SystemInv /\ PhaseInv /\ SpaceInv /\ GdtInv  BY DEF KernelInv
  <2>2. ~ InLoader /\ Len(gdt) = 2  BY <2>1 DEF PhaseInv, GdtInv
  <2>3. DOMAIN gdt = 1 .. 2  BY <2>2 DEF TakenInv
  <2>4. 1 \in DOMAIN gdt /\ 2 \in DOMAIN gdt  BY <2>3
  <2>5. gdt[1] \in GdtFrames /\ gdt[2] \in GdtFrames  BY <2>4 DEF GdtFrames
  <2>6. gdt[1] # gdt[2] /\ gdt[1] \notin DOMAIN tables /\ gdt[2] \notin DOMAIN tables
    BY <2>1, <2>4, <2>5 DEF GdtInv
  <2>7. DOMAIN tables \cup {gdt[1], gdt[2]} \subseteq Offered  BY <2>2, <2>5 DEF TakenInv
  <2>8. \A t \in Offered : Translate(t) = t  BY <2>1, <2>2, OfferedMapped DEF SpaceInv
  <2> QED  BY <2>6, <2>7, <2>8
<1> QED  BY <1>1, KernelInvariant, PTL

(* All RAM but page 0 is mapped when CR3 is loaded, if the block list has  *)
(* a slot for every region of the final map.                               *)
THEOREM ListedRamStaysMapped ==
  ASSUME MemoryBelowTop, FramebuffersFit
  PROVE  HandoverSpec => []RamStaysMappedIfListed
<1>1. ListInv /\ KernelInv => RamStaysMappedIfListed
  <2> SUFFICES ASSUME ListInv, KernelInv, Len(blocks) = Build!block_count(mmap),
                      cr3 # NoFrame, NEW v \in Ram \ {0}
               PROVE  Translate(v) = v
    BY DEF RamStaysMappedIfListed, RamStaysMapped
  <2>1. SystemInv /\ PhaseInv /\ SpaceInv  BY DEF KernelInv
  <2>2. ~ InLoader /\ pos > Len(mmap) /\ system.blocks = blocks
    BY <2>1 DEF PhaseInv, SystemInv, Build!Built
  <2>3. PICK n \in DOMAIN mmap : Build!is_ram_type(mmap[n].Type) /\ v \in Build!Pages(mmap[n])
    BY DEF Ram
  <2>4. mmap \in MemoryMaps /\ mmap \in Seq(Build!descriptor)  BY MapsAssumption DEF ListInv
  <2>5. mmap[n] \in Build!descriptor  BY <2>4
  <2>6. mmap[n].PhysicalStart \in Nat /\ mmap[n].NumberOfPages \in Nat
    BY <2>5, LoaderAssumption DEF Build!descriptor
  <2>7. v \in Nat /\ mmap[n].NumberOfPages # 0  BY <2>3, <2>6 DEF Build!Pages
  <2>8. n < pos  BY <2>2, <2>4 DEF ListInv
  <2>9. Len(blocks) \in Nat /\ ~ (Len(blocks) < Build!block_count(mmap))  BY DEF ListInv
  <2>10. PICK k \in DOMAIN blocks : Describes(blocks[k], mmap[n])
    BY <2>7, <2>8, <2>9 DEF ListInv, NonEmpty
  <2>11. IsTouched(blocks[k])
    BY <2>3, <2>10 DEF Describes, IsTouched, Build!TypeOf, Build!is_ram_type
  <2>12. v \in BlockFrames(blocks[k])  BY <2>3, <2>10 DEF Describes, Build!Pages, BlockFrames
  <2>13. v \in Touched  BY <2>2, <2>11, <2>12 DEF Touched, IsTouched
  <2>14. v \in VPages
    BY <2>1, <2>2, <2>7, <2>11, <2>12, BlockFacts, PageNumbers DEF BlockFrames
  <2> QED  BY <2>1, <2>13, <2>14 DEF SpaceInv, AllPages
<1> QED  BY <1>1, KernelInvariant, PTL

=============================================================================
