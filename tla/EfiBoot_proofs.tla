--------------------------- MODULE EfiBoot_proofs ---------------------------
(***************************************************************************)
(* Theorems about the boot stage: for every set of memory maps, any slack  *)
(* and any number of changes that the firmware makes by itself, the loader *)
(* keeps the properties that EfiBoot states.  The argument for the blocks  *)
(* that build_pmm makes is the one of BuildPmm_proofs; what is new is that *)
(* the map it works on is the one in force when Boot Services ended.       *)
(***************************************************************************)
EXTENDS EfiBoot, BuildPmm_proofs

-----------------------------------------------------------------------------
(* What a memory map says of a page.                                       *)

(* The pages of RAM.                                                       *)
RamSet(map) ==
  UNION {Pages(map[i]) : i \in {k \in DOMAIN map : is_ram_type(map[k].Type)}}

(* The sets of pages are those that the layout gives the type.             *)
LEMMA LayoutDecides ==
  ASSUME NEW map, NEW p
  PROVE  /\ p \in LoaderPages(map) <=> <<p, "EfiLoaderData">> \in Layout(map)
         /\ p \in Conventional(map) <=> <<p, "EfiConventionalMemory">> \in Layout(map)
         /\ p \in RamSet(map) <=> \E t : is_ram_type(t) /\ <<p, t>> \in Layout(map)
<1>1. \A t : <<p, t>> \in Layout(map) <=> \E i \in DOMAIN map : p \in Pages(map[i]) /\ map[i].Type = t
  BY DEF Layout
<1>2. p \in LoaderPages(map) <=> <<p, "EfiLoaderData">> \in Layout(map)
  BY <1>1 DEF LoaderPages
<1>3. p \in Conventional(map) <=> <<p, "EfiConventionalMemory">> \in Layout(map)
  BY <1>1 DEF Conventional
<1>4. p \in RamSet(map) <=> \E t : is_ram_type(t) /\ <<p, t>> \in Layout(map)
  <2>1. ASSUME p \in RamSet(map) PROVE \E t : is_ram_type(t) /\ <<p, t>> \in Layout(map)
    BY <1>1, <2>1 DEF RamSet
  <2>2. ASSUME NEW t, is_ram_type(t), <<p, t>> \in Layout(map) PROVE p \in RamSet(map)
    BY <1>1, <2>2 DEF RamSet
  <2> QED  BY <2>1, <2>2
<1> QED  BY <1>2, <1>3, <1>4

(* A map of the firmware is a sequence of descriptors, its pages are       *)
(* numbers, and no page is both loader data and conventional memory.       *)
LEMMA MapFacts ==
  ASSUME NEW map \in Maps
  PROVE  /\ map \in MemoryMaps /\ map \in Seq(descriptor) /\ Len(map) \in Nat /\ Len(map) > 0
         /\ block_count(map) \in Nat /\ ram_frames(map) \in Nat
         /\ LoaderPages(map) \subseteq Nat /\ Conventional(map) \subseteq Nat
         /\ LoaderPages(map) \cap Conventional(map) = {}
<1>1. map \in MemoryMaps /\ Len(map) > 0  BY DEF Maps
<1>2. map \in Seq(descriptor)  BY <1>1, MemoryMapsAssumption
<1>3. Len(map) \in Nat  BY <1>2
<1>4. \A i \in DOMAIN map : Pages(map[i]) \subseteq Nat
  <2> SUFFICES ASSUME NEW i \in DOMAIN map PROVE Pages(map[i]) \subseteq Nat  OBVIOUS
  <2>1. map[i] \in descriptor  BY <1>2
  <2> QED  BY <2>1, WrapAssumption DEF Pages, descriptor
<1>5. LoaderPages(map) \subseteq Nat /\ Conventional(map) \subseteq Nat
  BY <1>4 DEF LoaderPages, Conventional
<1>6. \A i, j \in DOMAIN map : i # j => Pages(map[i]) \cap Pages(map[j]) = {}
  BY <1>1, MemoryMapsAssumption
<1>7. LoaderPages(map) \cap Conventional(map) = {}
  BY <1>6 DEF LoaderPages, Conventional
<1> QED  BY <1>1, <1>2, <1>3, <1>5, <1>7, CountsFinite

(* reserve_pmm counts every page of RAM once, as the firmware describes    *)
(* every page once.                                                        *)
LEMMA RamCounted ==
  ASSUME NEW map \in MemoryMaps
  PROVE  IsFiniteSet(RamSet(map)) /\ Cardinality(RamSet(map)) = ram_frames(map)
<1>1. map \in Seq(descriptor)  BY MemoryMapsAssumption
<1>2. IsFiniteSet(RamPages(map))  BY <1>1, CountsFinite
<1> DEFINE page == [x \in RamPages(map) |-> map[x[1]].PhysicalStart + x[2] - 1]
<1>3. \A x \in RamPages(map) :
        /\ x[1] \in DOMAIN map /\ is_ram_type(map[x[1]].Type)
        /\ x[2] \in 1 .. map[x[1]].NumberOfPages
        /\ x = <<x[1], x[2]>>
  BY DEF RamPages
<1>4. \A i \in DOMAIN map : map[i].PhysicalStart \in Nat /\ map[i].NumberOfPages \in Nat
  <2> SUFFICES ASSUME NEW i \in DOMAIN map
               PROVE map[i].PhysicalStart \in Nat /\ map[i].NumberOfPages \in Nat
    OBVIOUS
  <2>1. map[i] \in descriptor  BY <1>1
  <2> QED  BY <2>1, WrapAssumption DEF descriptor
<1>5. \A x \in RamPages(map) : page[x] \in Pages(map[x[1]])
  BY <1>3, <1>4 DEF Pages
<1>6. page \in [RamPages(map) -> RamSet(map)]
  BY <1>3, <1>5 DEF RamSet
<1>7. \A x, y \in RamPages(map) : page[x] = page[y] => x = y
  <2> SUFFICES ASSUME NEW x \in RamPages(map), NEW y \in RamPages(map), page[x] = page[y]
               PROVE  x = y
    OBVIOUS
  <2>1. x[1] = y[1]  BY <1>3, <1>5, MemoryMapsAssumption
  <2>2. x[2] = y[2]  BY <2>1, <1>3, <1>4
  <2> QED  BY <2>1, <2>2, <1>3
<1>8. \A p \in RamSet(map) : \E x \in RamPages(map) : page[x] = p
  <2> SUFFICES ASSUME NEW p \in RamSet(map) PROVE \E x \in RamPages(map) : page[x] = p
    OBVIOUS
  <2>1. PICK i \in DOMAIN map : is_ram_type(map[i].Type) /\ p \in Pages(map[i])
    BY DEF RamSet
  <2> DEFINE k == p - map[i].PhysicalStart + 1
  <2>2. p \in Int /\ k \in 1 .. map[i].NumberOfPages  BY <2>1, <1>4 DEF Pages
  <2>3. <<i, k>> \in RamPages(map)  BY <2>1, <2>2 DEF RamPages
  <2>4. page[<<i, k>>] = p  BY <2>2, <2>3, <1>4
  <2> QED  BY <2>3, <2>4
<1> HIDE DEF page
<1>9. page \in Bijection(RamPages(map), RamSet(map))
  BY <1>6, <1>7, <1>8 DEF Bijection, Injection, Surjection, IsInjective
<1>10. ExistsBijection(RamPages(map), RamSet(map))  BY <1>9 DEF ExistsBijection
<1> QED  BY <1>2, <1>10, FS_Bijection DEF ram_frames

-----------------------------------------------------------------------------
(* What the firmware's calls do to the map.                                *)

LEMMA RetypeFacts ==
  ASSUME BootTypeOK, NEW page, NEW type, Retype(page, type)
  PROVE  /\ fwmap' \in Maps
         /\ Len(fwmap') <= Len(fwmap) + 2
         /\ block_count(fwmap') <= block_count(fwmap) + 2
         /\ current' \in BOOLEAN /\ (current' => current /\ fwmap' = fwmap)
         /\ \A p : p # page => (p \in LoaderPages(fwmap') <=> p \in LoaderPages(fwmap))
         /\ type = "EfiLoaderData" => page \in LoaderPages(fwmap')
         /\ is_ram_type(type) /\ page \in RamSet(fwmap) => ram_frames(fwmap') = ram_frames(fwmap)
<1> DEFINE layout == {entry \in Layout(fwmap) : entry[1] # page} \cup {<<page, type>>}
<1>1. PICK map \in Maps : Layout(map) = layout /\ BecomesMap(map)
  BY DEF Retype, LayoutOf, BootTypeOK
<1>2. /\ fwmap' = map
      /\ Len(fwmap') <= Len(fwmap) + 2 /\ block_count(fwmap') <= block_count(fwmap) + 2
      /\ current' = (current /\ map = fwmap)
  BY <1>1 DEF BecomesMap, SplitCost
<1>3. current' \in BOOLEAN /\ (current' => current /\ fwmap' = fwmap)
  BY <1>2, Zenon DEF BootTypeOK
<1>4. \A p, t : p # page => (<<p, t>> \in Layout(map) <=> <<p, t>> \in Layout(fwmap))
  BY <1>1
<1>5. \A t : <<page, t>> \in Layout(map) <=> t = type  BY <1>1
<1>6. \A p : p # page => (p \in LoaderPages(map) <=> p \in LoaderPages(fwmap))
  BY <1>4, LayoutDecides
<1>7. type = "EfiLoaderData" => page \in LoaderPages(map)  BY <1>5, LayoutDecides
<1>8. ASSUME is_ram_type(type), page \in RamSet(fwmap) PROVE ram_frames(map) = ram_frames(fwmap)
  <2>1. \A p : p \in RamSet(map) <=> p \in RamSet(fwmap)
    <3> TAKE p
    <3>1. CASE p = page  BY <3>1, <1>5, <1>8, LayoutDecides
    <3>2. CASE p # page  BY <3>2, <1>4, LayoutDecides
    <3> QED  BY <3>1, <3>2
  <2>2. RamSet(map) = RamSet(fwmap)  BY <2>1
  <2> QED  BY <2>2, <1>1, RamCounted DEF BootTypeOK, Maps
<1> QED  BY <1>1, <1>2, <1>3, <1>6, <1>7, <1>8

(* Loader data and conventional memory are RAM.                            *)
LEMMA PoolIsRam ==
  ASSUME NEW map, NEW p \in Conventional(map) \cup LoaderPages(map)
  PROVE  p \in RamSet(map)
  BY DEF Conventional, LoaderPages, RamSet, is_ram_type

(* A buffer comes from RAM, and what the loader had it keeps.              *)
LEMMA AllocateFacts ==
  ASSUME BootTypeOK, NEW page, AllocatePool(page)
  PROVE  /\ page \in Nat
         /\ fwmap' \in Maps
         /\ Len(fwmap') <= Len(fwmap) + 2
         /\ block_count(fwmap') <= block_count(fwmap) + 2
         /\ current' \in BOOLEAN /\ (current' => current /\ fwmap' = fwmap)
         /\ LoaderPages(fwmap) \cup {page} \subseteq LoaderPages(fwmap')
         /\ ram_frames(fwmap') = ram_frames(fwmap)
<1>1. /\ page \in Conventional(fwmap) \cup LoaderPages(fwmap)
      /\ Retype(page, "EfiLoaderData")
  BY DEF AllocatePool
<1>2. page \in Nat /\ page \in RamSet(fwmap)  BY <1>1, MapFacts, PoolIsRam DEF BootTypeOK
<1>3. is_ram_type("EfiLoaderData")  BY DEF is_ram_type
<1> QED  BY <1>1, <1>2, <1>3, RetypeFacts

(* Freeing the buffer leaves the buffers that outlive the loader alone.    *)
LEMMA FreeFacts ==
  ASSUME BootTypeOK, NEW page \in LoaderPages(fwmap), FreePool(page),
         owned \subseteq LoaderPages(fwmap)
  PROVE  /\ fwmap' \in Maps
         /\ Len(fwmap') <= Len(fwmap) + 2
         /\ block_count(fwmap') <= block_count(fwmap) + 2
         /\ current' \in BOOLEAN /\ (current' => current /\ fwmap' = fwmap)
         /\ owned \subseteq LoaderPages(fwmap')
         /\ ram_frames(fwmap') = ram_frames(fwmap)
<1>1. page \in RamSet(fwmap)  BY PoolIsRam
<1>2. is_ram_type("EfiLoaderData") /\ is_ram_type("EfiConventionalMemory")
  BY DEF is_ram_type
<1>3. CASE Retype(page, "EfiLoaderData")  BY <1>1, <1>2, <1>3, RetypeFacts
<1>4. CASE page \notin owned /\ Retype(page, "EfiConventionalMemory")
  BY <1>1, <1>2, <1>4, RetypeFacts
<1> QED  BY <1>3, <1>4 DEF FreePool

-----------------------------------------------------------------------------
(* The inductive invariant.                                                *)

(* The sizes that reserve_pmm computed fit each other.                     *)
Sized == /\ storage \in [block_capacity: Nat, bitmap_words: Nat]
         /\ counted \in Nat
         /\ storage.bitmap_words = counted \div WordBits + storage.block_capacity

(* The provisional buffer exists in getEFIMemoryMap only.                  *)
TempInv ==
  /\ pc \notin {"query", "free_small", "free_failed", "free_provisional"} => temp = NoPage
  /\ pc \in {"free_small", "free_failed", "free_provisional"} => temp # NoPage
  /\ temp # NoPage => temp \in LoaderPages(fwmap)

(* The buffers that outlive the loader are loader data of the map.         *)
OwnedInv == owned \subseteq LoaderPages(fwmap)

ResultInv == result = "EFI_BUFFER_TOO_SMALL" => pc \in {"free_small", "alloc_map", "hang"}

(* The map grows by at most two descriptors for each change since the size *)
(* was taken: those of the firmware and the allocation of the buffer.  A   *)
(* capacity of 0 is the size query that failed.                            *)
CapacityInv ==
  /\ pc = "final_alloc" /\ capacity # 0 =>
       Len(fwmap) + MapSlack <= capacity + 2 * (events - marks.query)
  /\ pc \in {"get_map", "exit"} /\ capacity # 0 =>
       Len(fwmap) + MapSlack <= capacity + 2 * (1 + events - marks.query)
  /\ HangsOnlyIfSlackUsedUp

(* The same for the block slots, which reserve_pmm counted before it freed *)
(* its map and before two allocations.                                     *)
Afterwards == {"free_provisional", "alloc_storage", "final_query", "final_alloc",
               "get_map", "exit", "build", "kernel_start"}

PoolCalls == IF pc = "free_provisional" THEN 0
             ELSE IF pc = "alloc_storage" THEN 1
             ELSE IF pc \in {"final_query", "final_alloc"} THEN 2
             ELSE 3

SlotsInv ==
  /\ marks.reserve <= events
  /\ pc \in Afterwards =>
       /\ block_count(fwmap) + BlockSlack
            <= storage.block_capacity + 2 * (PoolCalls + events - marks.reserve)
       /\ events = marks.reserve => ram_frames(fwmap) = counted

(* build_pmm has a block for every region, if there is a slot for it.      *)
ListInv == block_count(mmap) <= storage.block_capacity =>
             Len(blocks) = Cardinality(BlocksBefore(mmap, pos))

(* A key that is current belongs to the map that efi_main has, so that is  *)
(* the map in force when Boot Services end.                                *)
MapInv ==
  /\ pc = "exit" /\ current => mmap = fwmap
  /\ pc \in {"build", "kernel_start"} => mmap = fwmap /\ StorageInv /\ ListInv
  /\ pc = "kernel_start" => Built

BootInv == /\ BootTypeOK /\ Sized /\ TempInv /\ OwnedInv
           /\ ResultInv /\ CapacityInv /\ SlotsInv /\ MapInv

LEMMA BootInvInit == BootInit => BootInv
<1> SUFFICES ASSUME BootInit PROVE BootInv  OBVIOUS
<1> USE DEF BootInit
<1>1. 0 \div WordBits = 0  BY WordBitsAssumption
<1>2. BootTypeOK
  <2>1. current \in BOOLEAN  BY Zenon
  <2>2. fwmap \in Maps  OBVIOUS
  <2>3. marks \in [reserve: 0 .. MaxEvents, query: 0 .. MaxEvents]  BY SlackAssumption
  <2> HIDE DEF BootInit
  <2>4. /\ pc = "font" /\ result = "EFI_ERROR" /\ owned = {} /\ temp = NoPage
        /\ size = 0 /\ capacity = 0 /\ events = 0
    BY DEF BootInit
  <2> QED  BY <2>1, <2>2, <2>3, <2>4, SlackAssumption DEF BootTypeOK, Final
<1>3. Sized  BY <1>1 DEF Sized
<1> QED
  BY <1>2, <1>3 DEF BootInv, TempInv, OwnedInv, ResultInv, CapacityInv,
     HangsOnlyIfSlackUsedUp, SlotsInv, Afterwards, MapInv, NoPage

(* The facts about numbers that the steps use.                             *)
LEMMA BootNumbers ==
  ASSUME BootInv
  PROVE  /\ fwmap \in Maps /\ fwmap \in MemoryMaps /\ fwmap \in Seq(descriptor)
         /\ Len(fwmap) \in Nat /\ Len(fwmap) > 0
         /\ block_count(fwmap) \in Nat /\ ram_frames(fwmap) \in Nat
         /\ size \in Nat /\ capacity \in Nat /\ events \in Nat
         /\ marks.reserve \in Nat /\ marks.query \in Nat
         /\ storage.block_capacity \in Nat /\ storage.bitmap_words \in Nat
         /\ counted \in Nat
         /\ RetrySlack \in Nat /\ MapSlack \in Nat /\ MaxEvents \in Nat /\ BlockSlack \in Nat
<1>1. BootTypeOK /\ Sized  BY DEF BootInv
<1>2. fwmap \in Maps  BY <1>1 DEF BootTypeOK
<1>3. /\ size \in Nat /\ capacity \in Nat /\ events \in Nat
      /\ marks.reserve \in Nat /\ marks.query \in Nat
  BY <1>1, SlackAssumption DEF BootTypeOK
<1>4. storage.block_capacity \in Nat /\ storage.bitmap_words \in Nat /\ counted \in Nat
  BY <1>1 DEF Sized
<1> QED  BY <1>2, <1>3, <1>4, MapFacts, SlackAssumption, BlockSlackAssumption

-----------------------------------------------------------------------------
(* The steps.                                                              *)

(* The loop of build_pmm keeps its list complete.                          *)
LEMMA ListInvStep == StorageInv /\ ListInv /\ build_pmm => ListInv'
<1> SUFFICES ASSUME StorageInv, ListInv, build_pmm,
                    block_count(mmap) <= storage.block_capacity
             PROVE  Len(blocks') = Cardinality(BlocksBefore(mmap, pos')) /\ mmap' = mmap
  BY DEF ListInv, build_pmm, SkipEmpty, StopWhenFull, AddUnmanaged, AddReclaimable, AddUsable,
         Add
<1>1. BuildInv /\ pos <= Len(mmap)
  BY DEF StorageInv, build_pmm, SkipEmpty, StopWhenFull, AddUnmanaged, AddReclaimable,
         AddUsable, TakesBlock
<1>2. pos \in DOMAIN mmap /\ mmap \in Seq(descriptor)
  BY <1>1, CurrentDescriptor DEF BuildInv, BuildTypeOK
<1>3. Len(blocks) = Cardinality(BlocksBefore(mmap, pos))  BY DEF ListInv
<1>4. /\ Cardinality(BlocksBefore(mmap, pos)) \in Nat
      /\ Cardinality(BlocksBefore(mmap, pos + 1)) =
           Cardinality(BlocksBefore(mmap, pos)) + (IF mmap[pos].NumberOfPages # 0 THEN 1 ELSE 0)
      /\ Cardinality(BlocksBefore(mmap, pos + 1)) <= block_count(mmap)
  BY <1>2, BlocksStep
<1>5. CASE SkipEmpty  BY <1>5, <1>3, <1>4 DEF SkipEmpty
<1>6. CASE StopWhenFull
  <2>1. block_count(mmap) \in Nat /\ storage.block_capacity \in Nat
    BY <1>1, <1>2, CountsFinite DEF BuildInv, BuildTypeOK
  <2> QED  BY <1>6, <1>3, <1>4, <2>1 DEF StopWhenFull
<1>7. ASSUME NEW block, NEW words, TakesBlock, Add(block, words)
      PROVE  Len(blocks') = Cardinality(BlocksBefore(mmap, pos')) /\ mmap' = mmap
  <2>1. blocks \in Seq(pm_block)  BY <1>1 DEF BuildInv, BuildTypeOK
  <2>2. Len(blocks') = Len(blocks) + 1  BY <1>7, <2>1 DEF Add
  <2> QED  BY <1>7, <1>3, <1>4, <2>2 DEF Add, TakesBlock
<1> QED
  BY <1>5, <1>6, <1>7 DEF build_pmm, AddUnmanaged, AddReclaimable, AddUsable

(* One more change of the map costs at most two descriptors.               *)
LEMMA OneMoreChange ==
  ASSUME NEW n \in Nat, NEW m \in Nat, m <= n + 2, NEW slack \in Nat, NEW bound \in Nat,
         NEW k \in Int, n + slack <= bound + 2 * k
  PROVE  m + slack <= bound + 2 * (k + 1)
  OBVIOUS

(* A buffer that is kept, or no memory for it.                             *)
LEMMA KeepStep ==
  ASSUME BootInv, NEW label, NEW next, Keep(label, next),
         <<label, next>> \in {<<"font", "kernel">>, <<"kernel", "system">>,
                              <<"system", "rsdp2">>, <<"alloc_storage", "final_query">>,
                              <<"final_alloc", "get_map">>}
  PROVE  BootInv'
<1>1. /\ pc = label /\ UNCHANGED <<buildVars, result, temp, size, capacity, events, marks>>
  BY DEF Keep
<1>2. BootTypeOK /\ Sized /\ TempInv /\ OwnedInv /\ ResultInv /\ CapacityInv /\ SlotsInv /\ MapInv
  BY DEF BootInv
<1>3. /\ Len(fwmap) \in Nat /\ block_count(fwmap) \in Nat /\ capacity \in Nat
      /\ events \in Nat /\ marks.reserve \in Nat /\ marks.query \in Nat
      /\ storage.block_capacity \in Nat /\ MapSlack \in Nat /\ BlockSlack \in Nat
  BY BootNumbers
<1>4. CASE /\ UNCHANGED <<fwmap, current, owned>> /\ pc' = "hang"
  <2>1. BootTypeOK'  BY <1>1, <1>2, <1>4 DEF BootTypeOK, Final
  <2>2. Sized'  BY <1>1, <1>2 DEF Sized, buildVars
  <2>3. TempInv' /\ OwnedInv' /\ ResultInv'
    BY <1>1, <1>2, <1>4 DEF TempInv, OwnedInv, ResultInv
  <2>4. CapacityInv' /\ SlotsInv' /\ MapInv'
    BY <1>1, <1>2, <1>4 DEF ResultInv, CapacityInv, SlotsInv, MapInv, Afterwards,
       HangsOnlyIfSlackUsedUp
  <2> QED  BY <2>1, <2>2, <2>3, <2>4 DEF BootInv
<1>5. ASSUME NEW page, AllocatePool(page), owned' = owned \cup {page}, pc' = next
      PROVE  BootInv'
  <2>1. /\ page \in Nat /\ fwmap' \in Maps
        /\ Len(fwmap') <= Len(fwmap) + 2
        /\ block_count(fwmap') <= block_count(fwmap) + 2
        /\ current' \in BOOLEAN /\ (current' => current /\ fwmap' = fwmap)
        /\ LoaderPages(fwmap) \cup {page} \subseteq LoaderPages(fwmap')
        /\ ram_frames(fwmap') = ram_frames(fwmap)
    BY <1>2, <1>5, AllocateFacts
  <2>2. Len(fwmap') \in Nat /\ block_count(fwmap') \in Nat  BY <2>1, MapFacts
  <2>3. BootTypeOK'  BY <1>1, <1>2, <1>5, <2>1 DEF BootTypeOK, Final
  <2>4. Sized'  BY <1>1, <1>2 DEF Sized, buildVars
  <2>5. TempInv' /\ OwnedInv' /\ ResultInv'
    BY <1>1, <1>2, <1>5, <2>1 DEF TempInv, OwnedInv, ResultInv
  <2>6. CapacityInv'
    <3>1. CASE label = "final_alloc" /\ capacity # 0
      <4>1. Len(fwmap) + MapSlack <= capacity + 2 * (events - marks.query)
        BY <1>1, <1>2, <3>1 DEF CapacityInv
      <4>2. Len(fwmap') + MapSlack <= capacity + 2 * (1 + events - marks.query)
        <5> DEFINE k == events - marks.query
        <5>1. k \in Int /\ k + 1 = 1 + events - marks.query  BY <1>3
        <5>2. Len(fwmap) + MapSlack <= capacity + 2 * k  BY <4>1
        <5> HIDE DEF k
        <5>3. Len(fwmap') + MapSlack <= capacity + 2 * (k + 1)
          BY <5>1, <5>2, <1>3, <2>1, <2>2, OneMoreChange
        <5> QED  BY <5>1, <5>3
      <4> QED  BY <4>2, <3>1, <1>1, <1>5 DEF CapacityInv, HangsOnlyIfSlackUsedUp
    <3>2. CASE label = "final_alloc" /\ capacity = 0
      BY <3>2, <1>1, <1>5 DEF CapacityInv, HangsOnlyIfSlackUsedUp
    <3>3. CASE label # "final_alloc"
      BY <3>3, <1>1, <1>5 DEF CapacityInv, HangsOnlyIfSlackUsedUp
    <3> QED  BY <3>1, <3>2, <3>3
  <2>7. SlotsInv'
    <3>1. CASE label \in {"alloc_storage", "final_alloc"}
      <4>1. PoolCalls' = PoolCalls + 1 /\ PoolCalls \in Nat
        BY <1>1, <1>5, <3>1 DEF PoolCalls
      <4>2. /\ block_count(fwmap) + BlockSlack
                 <= storage.block_capacity + 2 * (PoolCalls + events - marks.reserve)
            /\ events = marks.reserve => ram_frames(fwmap) = counted
            /\ marks.reserve <= events
        BY <1>1, <1>2, <3>1 DEF SlotsInv, Afterwards
      <4>3. block_count(fwmap') + BlockSlack
              <= storage.block_capacity + 2 * (PoolCalls' + events - marks.reserve)
        <5> DEFINE k == PoolCalls + events - marks.reserve
        <5>1. k \in Int /\ k + 1 = PoolCalls' + events - marks.reserve  BY <1>3, <4>1
        <5>2. block_count(fwmap) + BlockSlack <= storage.block_capacity + 2 * k  BY <4>2
        <5> HIDE DEF k
        <5>3. block_count(fwmap') + BlockSlack <= storage.block_capacity + 2 * (k + 1)
          BY <5>1, <5>2, <1>3, <2>1, <2>2, OneMoreChange
        <5> QED  BY <5>1, <5>3
      <4> QED  BY <4>2, <4>3, <1>1, <2>1 DEF SlotsInv, buildVars
    <3>2. CASE label \notin {"alloc_storage", "final_alloc"}
      BY <3>2, <1>1, <1>2, <1>5 DEF SlotsInv, Afterwards
    <3> QED  BY <3>1, <3>2
  <2>8. MapInv'  BY <1>1, <1>5 DEF MapInv
  <2> QED  BY <2>3, <2>4, <2>5, <2>6, <2>7, <2>8 DEF BootInv
<1> QED  BY <1>4, <1>5 DEF Keep, Goto

(* The provisional buffer is freed.                                        *)
LEMMA FreeMapStep ==
  ASSUME BootInv, NEW label, NEW next, FreeMap(label, next),
         <<label, next>> \in {<<"free_small", "alloc_map">>, <<"free_failed", "hang">>,
                              <<"free_provisional", "alloc_storage">>}
  PROVE  BootInv'
<1>1. /\ pc = label /\ FreePool(temp) /\ temp' = NoPage /\ pc' = next
      /\ UNCHANGED <<buildVars, result, owned, size, capacity, events, marks>>
  BY DEF FreeMap, Goto
<1>2. BootTypeOK /\ Sized /\ TempInv /\ OwnedInv /\ ResultInv /\ CapacityInv /\ SlotsInv /\ MapInv
  BY DEF BootInv
<1>3. temp \in LoaderPages(fwmap)  BY <1>1, <1>2 DEF TempInv
<1>4. /\ fwmap' \in Maps
      /\ Len(fwmap') <= Len(fwmap) + 2
      /\ block_count(fwmap') <= block_count(fwmap) + 2
      /\ current' \in BOOLEAN /\ (current' => current /\ fwmap' = fwmap)
      /\ owned \subseteq LoaderPages(fwmap')
      /\ ram_frames(fwmap') = ram_frames(fwmap)
  BY <1>1, <1>2, <1>3, FreeFacts DEF OwnedInv
<1>5. Len(fwmap') \in Nat /\ block_count(fwmap') \in Nat  BY <1>4, MapFacts
<1>6. BootTypeOK'  BY <1>1, <1>2, <1>4 DEF BootTypeOK, Final
<1>7. Sized'  BY <1>1, <1>2 DEF Sized, buildVars
<1>8. TempInv' /\ OwnedInv' /\ ResultInv'
  BY <1>1, <1>2, <1>4 DEF TempInv, OwnedInv, ResultInv
<1>9. CapacityInv' /\ MapInv'
  BY <1>1, <1>2 DEF ResultInv, CapacityInv, HangsOnlyIfSlackUsedUp, MapInv
<1>10. SlotsInv'
  <2>1. CASE label = "free_provisional"
    <3>1. PoolCalls' = 1 /\ PoolCalls = 0  BY <1>1, <2>1 DEF PoolCalls
    <3>2. /\ block_count(fwmap) + BlockSlack
               <= storage.block_capacity + 2 * (PoolCalls + events - marks.reserve)
          /\ events = marks.reserve => ram_frames(fwmap) = counted
          /\ marks.reserve <= events
      BY <1>1, <1>2, <2>1 DEF SlotsInv, Afterwards
    <3>3. /\ block_count(fwmap) \in Nat /\ events \in Nat /\ marks.reserve \in Nat
          /\ storage.block_capacity \in Nat /\ BlockSlack \in Nat
      BY BootNumbers
    <3>4. block_count(fwmap') + BlockSlack
            <= storage.block_capacity + 2 * (PoolCalls' + events - marks.reserve)
      <4> DEFINE k == PoolCalls + events - marks.reserve
      <4>1. k \in Int /\ k + 1 = PoolCalls' + events - marks.reserve  BY <3>1, <3>3
      <4>2. block_count(fwmap) + BlockSlack <= storage.block_capacity + 2 * k  BY <3>2
      <4> HIDE DEF k
      <4>3. block_count(fwmap') + BlockSlack <= storage.block_capacity + 2 * (k + 1)
        BY <4>1, <4>2, <3>3, <1>4, <1>5, OneMoreChange
      <4> QED  BY <4>1, <4>3
    <3> QED  BY <3>2, <3>4, <1>1, <1>4 DEF SlotsInv, buildVars
  <2>2. CASE label # "free_provisional"
    BY <2>2, <1>1, <1>2 DEF SlotsInv, Afterwards
  <2> QED  BY <2>1, <2>2
<1> QED  BY <1>6, <1>7, <1>8, <1>9, <1>10 DEF BootInv

(* The firmware changes the map by itself.                                 *)
LEMMA FirmwareStep == BootInv /\ FirmwareEvent => BootInv'
<1> SUFFICES ASSUME BootInv, FirmwareEvent PROVE BootInv'  OBVIOUS
<1>1. /\ pc \notin Final \cup {"build"} /\ events < MaxEvents /\ events' = events + 1
      /\ UNCHANGED <<buildVars, pc, result, owned, temp, size, capacity, marks>>
  BY DEF FirmwareEvent
<1>2. BootTypeOK /\ Sized /\ TempInv /\ OwnedInv /\ ResultInv /\ CapacityInv /\ SlotsInv /\ MapInv
  BY DEF BootInv
<1>3. PICK map \in Maps : /\ owned \cup ({temp} \ {NoPage}) \subseteq LoaderPages(map)
                          /\ BecomesMap(map)
  BY DEF FirmwareEvent
<1>4. /\ fwmap' = map /\ Len(fwmap') <= Len(fwmap) + 2
      /\ block_count(fwmap') <= block_count(fwmap) + 2
      /\ current' = (current /\ map = fwmap)
  BY <1>3 DEF BecomesMap, SplitCost
<1>5. current' \in BOOLEAN /\ (current' => current /\ fwmap' = fwmap)
  BY <1>2, <1>4, Zenon DEF BootTypeOK
<1>6. /\ Len(fwmap) \in Nat /\ block_count(fwmap) \in Nat /\ capacity \in Nat
      /\ events \in Nat /\ marks.reserve \in Nat /\ marks.query \in Nat
      /\ storage.block_capacity \in Nat /\ MapSlack \in Nat /\ BlockSlack \in Nat
      /\ MaxEvents \in Nat
  BY BootNumbers
<1>7. Len(fwmap') \in Nat /\ block_count(fwmap') \in Nat  BY <1>3, <1>4, MapFacts
<1>8. BootTypeOK'  BY <1>1, <1>2, <1>3, <1>4, <1>5, <1>6 DEF BootTypeOK
<1>9. Sized'  BY <1>1, <1>2 DEF Sized, buildVars
<1>10. TempInv' /\ OwnedInv' /\ ResultInv'
  BY <1>1, <1>2, <1>3, <1>4 DEF TempInv, OwnedInv, ResultInv
<1>11. CapacityInv'
  <2>1. HangsOnlyIfSlackUsedUp'  BY <1>1 DEF HangsOnlyIfSlackUsedUp, Final
  <2>2. ASSUME NEW n \in Nat, Len(fwmap) + MapSlack <= capacity + 2 * (n + events - marks.query)
        PROVE  Len(fwmap') + MapSlack <= capacity' + 2 * (n + events' - marks'.query)
    <3> DEFINE k == n + events - marks.query
    <3>1. k \in Int /\ k + 1 = n + events' - marks'.query  BY <1>1, <1>6
    <3>2. Len(fwmap) + MapSlack <= capacity + 2 * k  BY <2>2
    <3> HIDE DEF k
    <3>3. Len(fwmap') + MapSlack <= capacity + 2 * (k + 1)
      BY <3>1, <3>2, <1>4, <1>6, <1>7, OneMoreChange
    <3> QED  BY <3>1, <3>3, <1>1
  <2>3. CASE pc = "final_alloc" /\ capacity # 0
    <3>1. Len(fwmap) + MapSlack <= capacity + 2 * (0 + events - marks.query)
      BY <2>3, <1>2, <1>6 DEF CapacityInv
    <3>2. Len(fwmap') + MapSlack <= capacity' + 2 * (0 + events' - marks'.query)
      BY <3>1, <2>2
    <3>3. 0 + events' - marks'.query = events' - marks'.query  BY <1>1, <1>6
    <3> QED  BY <3>2, <3>3, <2>1, <2>3, <1>1 DEF CapacityInv
  <2>4. CASE pc \in {"get_map", "exit"} /\ capacity # 0
    <3>1. Len(fwmap') + MapSlack <= capacity' + 2 * (1 + events' - marks'.query)
      BY <2>2, <2>4, <1>2 DEF CapacityInv
    <3> QED  BY <3>1, <2>1, <2>4, <1>1 DEF CapacityInv
  <2>5. CASE pc \notin {"final_alloc", "get_map", "exit"} \/ capacity = 0
    BY <2>1, <2>5, <1>1 DEF CapacityInv
  <2> QED  BY <2>3, <2>4, <2>5
<1>12. SlotsInv'
  <2>1. marks'.reserve <= events' /\ events' # marks'.reserve
    BY <1>1, <1>2, <1>6 DEF SlotsInv
  <2>2. CASE pc \in Afterwards
    <3> DEFINE k == PoolCalls + events - marks.reserve
    <3>1. PoolCalls \in Nat /\ PoolCalls' = PoolCalls  BY <1>1 DEF PoolCalls
    <3>2. k \in Int /\ k + 1 = PoolCalls' + events' - marks'.reserve  BY <3>1, <1>1, <1>6
    <3>3. block_count(fwmap) + BlockSlack <= storage.block_capacity + 2 * k
      BY <2>2, <1>2 DEF SlotsInv
    <3> HIDE DEF k
    <3>4. block_count(fwmap') + BlockSlack <= storage.block_capacity + 2 * (k + 1)
      BY <3>2, <3>3, <1>4, <1>6, <1>7, OneMoreChange
    <3> QED  BY <3>2, <3>4, <2>1, <1>1 DEF SlotsInv, buildVars
  <2>3. CASE pc \notin Afterwards  BY <2>1, <2>3, <1>1 DEF SlotsInv
  <2> QED  BY <2>2, <2>3
<1>13. MapInv'  BY <1>1, <1>2, <1>5 DEF MapInv, Final, buildVars
<1> QED  BY <1>8, <1>9, <1>10, <1>11, <1>12, <1>13 DEF BootInv

(* getEFIMemoryMap: the query that succeeds fixes the sizes.               *)
LEMMA QuerySucceedsStep == BootInv /\ QuerySucceeds => BootInv'
<1> SUFFICES ASSUME BootInv, QuerySucceeds PROVE BootInv'  OBVIOUS
<1>1. /\ pc = "query" /\ temp # NoPage
      /\ result' = "EFI_SUCCESS" /\ size' = Len(fwmap) /\ current' = TRUE
      /\ storage' = pmm_storage(fwmap) /\ counted' = ram_frames(fwmap)
      /\ marks' = [marks EXCEPT !.reserve = events]
      /\ pc' = "free_provisional"
      /\ UNCHANGED <<mmap, pos, words_left, blocks, fwmap, owned, temp, capacity, events>>
  BY DEF QuerySucceeds, Goto
<1>2. BootTypeOK /\ Sized /\ TempInv /\ OwnedInv /\ ResultInv /\ CapacityInv /\ SlotsInv /\ MapInv
  BY DEF BootInv
<1>3. /\ Len(fwmap) \in Nat /\ block_count(fwmap) \in Nat /\ ram_frames(fwmap) \in Nat
      /\ events \in Nat /\ BlockSlack \in Nat /\ MaxEvents \in Nat
  BY BootNumbers
<1>4. marks' \in [reserve: 0 .. MaxEvents, query: 0 .. MaxEvents] /\ marks'.reserve = events
  BY <1>1, <1>2, <1>3 DEF BootTypeOK
<1>5. current' \in BOOLEAN  BY <1>1, Zenon
<1>6. BootTypeOK'  BY <1>1, <1>2, <1>3, <1>4, <1>5 DEF BootTypeOK
<1>7. Sized'
  <2>1. ram_frames(fwmap) \div WordBits \in Nat
    <3>1. WordBits \in Nat /\ WordBits > 0  BY WordBitsAssumption
    <3> QED  BY <1>3, <3>1
  <2> QED  BY <1>1, <1>3, <2>1 DEF Sized, pmm_storage
<1>8. TempInv' /\ OwnedInv' /\ ResultInv'
  BY <1>1, <1>2 DEF TempInv, OwnedInv, ResultInv
<1>9. CapacityInv' /\ MapInv'  BY <1>1 DEF CapacityInv, HangsOnlyIfSlackUsedUp, MapInv
<1>10. SlotsInv'
  <2>1. PoolCalls' = 0  BY <1>1 DEF PoolCalls
  <2>2. storage'.block_capacity = block_count(fwmap) + BlockSlack  BY <1>1 DEF pmm_storage
  <2>3. PoolCalls' + events' - marks'.reserve = 0  BY <1>1, <1>3, <1>4, <2>1
  <2>4. block_count(fwmap') + BlockSlack <= storage'.block_capacity + 2 * 0
    BY <1>1, <1>3, <2>2
  <2> QED  BY <1>1, <1>3, <1>4, <2>3, <2>4 DEF SlotsInv
<1> QED  BY <1>6, <1>7, <1>8, <1>9, <1>10 DEF BootInv

(* The buffer of getEFIMemoryMap.                                          *)
LEMMA AllocMapStep == BootInv /\ AllocMap => BootInv'
<1> SUFFICES ASSUME BootInv, AllocMap PROVE BootInv'  OBVIOUS
<1>1. /\ pc = "alloc_map" /\ size' = size + RetrySlack
      /\ UNCHANGED <<buildVars, owned, capacity, events, marks>>
  BY DEF AllocMap, GrownSize
<1>2. BootTypeOK /\ Sized /\ TempInv /\ OwnedInv /\ ResultInv /\ CapacityInv /\ SlotsInv /\ MapInv
  BY DEF BootInv
<1>3. size' \in Nat  BY <1>1, BootNumbers
<1>4. Sized'  BY <1>1, <1>2 DEF Sized, buildVars
<1>5. CASE /\ result' = "EFI_ERROR" /\ pc' = "hang" /\ UNCHANGED <<fwmap, current, temp>>
  <2>1. BootTypeOK'  BY <1>1, <1>2, <1>3, <1>5 DEF BootTypeOK, Final
  <2>2. TempInv' /\ OwnedInv' /\ ResultInv'
    BY <1>1, <1>2, <1>5 DEF TempInv, OwnedInv, ResultInv
  <2>3. CapacityInv' /\ SlotsInv' /\ MapInv'
    BY <1>1, <1>2, <1>5 DEF CapacityInv, HangsOnlyIfSlackUsedUp, SlotsInv, Afterwards, MapInv
  <2> QED  BY <1>4, <2>1, <2>2, <2>3 DEF BootInv
<1>6. ASSUME NEW page, AllocatePool(page), temp' = page, result' = "EFI_SUCCESS", pc' = "query"
      PROVE  BootInv'
  <2>1. /\ page \in Nat /\ fwmap' \in Maps /\ current' \in BOOLEAN
        /\ LoaderPages(fwmap) \cup {page} \subseteq LoaderPages(fwmap')
    BY <1>2, <1>6, AllocateFacts
  <2>2. BootTypeOK'  BY <1>1, <1>2, <1>3, <1>6, <2>1 DEF BootTypeOK
  <2>3. TempInv' /\ OwnedInv' /\ ResultInv'
    BY <1>1, <1>2, <1>6, <2>1 DEF TempInv, OwnedInv, ResultInv
  <2>4. CapacityInv' /\ SlotsInv' /\ MapInv'
    BY <1>1, <1>2, <1>6 DEF CapacityInv, HangsOnlyIfSlackUsedUp, SlotsInv, Afterwards, MapInv
  <2> QED  BY <1>4, <2>2, <2>3, <2>4 DEF BootInv
<1> QED  BY <1>5, <1>6 DEF AllocMap, Goto

(* The calls before the final map that change neither the memory map nor   *)
(* what the loader has allocated.                                          *)
LEMMA QuietStep ==
  ASSUME BootInv, get_rsdp2 \/ framebuffer_init \/ QueryTooSmall \/ QueryFails
  PROVE  BootInv'
<1>1. /\ UNCHANGED <<buildVars, fwmap, current, owned, temp, capacity, events, marks>>
      /\ size' \in {size, Len(fwmap)}
      /\ \/ pc = "rsdp2" /\ pc' \in {"framebuffer", "hang"} /\ result' = result
         \/ pc = "framebuffer" /\ pc' \in {"query", "fault"} /\ result' = result
         \/ /\ pc = "query" /\ result' = "EFI_BUFFER_TOO_SMALL"
            /\ pc' = IF temp # NoPage THEN "free_small" ELSE "alloc_map"
         \/ /\ pc = "query" /\ result' = "EFI_ERROR"
            /\ pc' = IF temp # NoPage THEN "free_failed" ELSE "hang"
  BY DEF get_rsdp2, framebuffer_init, QueryTooSmall, QueryFails, Goto
<1>2. BootTypeOK /\ Sized /\ TempInv /\ OwnedInv /\ ResultInv /\ CapacityInv /\ SlotsInv /\ MapInv
  BY DEF BootInv
<1>3. size' \in Nat  BY <1>1, BootNumbers
<1>4. BootTypeOK'  BY <1>1, <1>2, <1>3 DEF BootTypeOK, Final
<1>5. Sized'  BY <1>1, <1>2 DEF Sized, buildVars
<1>6. TempInv' /\ OwnedInv' /\ ResultInv'
  BY <1>1, <1>2 DEF TempInv, OwnedInv, ResultInv
<1>7. CapacityInv' /\ SlotsInv' /\ MapInv'
  BY <1>1, <1>2 DEF ResultInv, CapacityInv, HangsOnlyIfSlackUsedUp, SlotsInv, Afterwards, MapInv
<1> QED  BY <1>4, <1>5, <1>6, <1>7 DEF BootInv

(* The size query, the final map and ExitBootServices.                     *)
LEMMA FinalQueryStep == BootInv /\ FinalQuery => BootInv'
<1> SUFFICES ASSUME BootInv, FinalQuery PROVE BootInv'  OBVIOUS
<1>1. /\ pc = "final_query" /\ pc' = "final_alloc"
      /\ \/ /\ size' = Len(fwmap) /\ capacity' = Len(fwmap) + MapSlack
            /\ marks' = [marks EXCEPT !.query = events]
         \/ size' = 0 /\ capacity' = 0 /\ marks' = marks
      /\ UNCHANGED <<buildVars, result, fwmap, current, owned, temp, events>>
  BY DEF FinalQuery, Goto
<1>2. BootTypeOK /\ Sized /\ TempInv /\ OwnedInv /\ ResultInv /\ CapacityInv /\ SlotsInv /\ MapInv
  BY DEF BootInv
<1>3. /\ Len(fwmap) \in Nat /\ events \in Nat /\ MapSlack \in Nat /\ MaxEvents \in Nat
  BY BootNumbers
<1>4. /\ marks' \in [reserve: 0 .. MaxEvents, query: 0 .. MaxEvents]
      /\ capacity' # 0 => capacity' = Len(fwmap) + MapSlack /\ marks'.query = events
      /\ marks'.reserve = marks.reserve
  BY <1>1, <1>2, <1>3 DEF BootTypeOK
<1>5. BootTypeOK'  BY <1>1, <1>2, <1>3, <1>4 DEF BootTypeOK
<1>6. Sized'  BY <1>1, <1>2 DEF Sized, buildVars
<1>7. TempInv' /\ OwnedInv' /\ ResultInv' /\ MapInv'
  BY <1>1, <1>2 DEF TempInv, OwnedInv, ResultInv, MapInv
<1>8. CapacityInv'
  BY <1>1, <1>3, <1>4 DEF CapacityInv, HangsOnlyIfSlackUsedUp
<1>9. SlotsInv'
  <2>1. PoolCalls' = PoolCalls  BY <1>1 DEF PoolCalls
  <2> QED  BY <1>1, <1>2, <1>4, <2>1 DEF SlotsInv, Afterwards, buildVars
<1> QED  BY <1>5, <1>6, <1>7, <1>8, <1>9 DEF BootInv

LEMMA FinalMapStep ==
  ASSUME BootInv, GetFinalMap \/ GetFinalMapFails \/ ExitStaleKey \/ ExitFails
  PROVE  BootInv'
<1>1. /\ UNCHANGED <<storage, counted, pos, words_left, blocks,
                     fwmap, owned, temp, capacity, events, marks>>
      /\ \/ /\ pc = "get_map" /\ pc' = "exit" /\ result' = "EFI_SUCCESS"
            /\ mmap' = fwmap /\ size' = Len(fwmap) /\ current' = TRUE
         \/ /\ pc = "get_map" /\ pc' = "hang" /\ mmap' = mmap /\ current' = current
            /\ \/ /\ Len(fwmap) > capacity
                  /\ result' = "EFI_BUFFER_TOO_SMALL" /\ size' = Len(fwmap)
               \/ result' = "EFI_ERROR" /\ size' = size
         \/ /\ pc = "exit" /\ mmap' = mmap /\ current' = current /\ size' = size
            /\ \/ ~ current /\ pc' = "get_map" /\ result' = "EFI_INVALID_PARAMETER"
               \/ pc' = "halt" /\ result' = "EFI_ERROR"
  BY DEF GetFinalMap, GetFinalMapFails, ExitStaleKey, ExitFails, OfferedSize, Goto, buildVars
<1>2. BootTypeOK /\ Sized /\ TempInv /\ OwnedInv /\ ResultInv /\ CapacityInv /\ SlotsInv /\ MapInv
  BY DEF BootInv
<1>3. /\ Len(fwmap) \in Nat /\ size \in Nat /\ capacity \in Nat /\ events \in Nat
      /\ marks.query \in Nat /\ MapSlack \in Nat
  BY BootNumbers
<1>4. size' \in Nat  BY <1>1, <1>3
<1>5. current' \in BOOLEAN  BY <1>1, <1>2, Zenon DEF BootTypeOK
<1>6. BootTypeOK'  BY <1>1, <1>2, <1>4, <1>5 DEF BootTypeOK, Final
<1>7. Sized'  BY <1>1, <1>2 DEF Sized
<1>8. TempInv' /\ OwnedInv' /\ ResultInv'
  BY <1>1, <1>2 DEF TempInv, OwnedInv, ResultInv
<1>9. CapacityInv'
  <2>1. pc \in {"get_map", "exit"}  BY <1>1
  <2>2. capacity # 0 => Len(fwmap) + MapSlack <= capacity + 2 * (1 + events - marks.query)
    BY <2>1, <1>2 DEF CapacityInv
  <2>3. capacity # 0 /\ Len(fwmap) > capacity => 2 * (1 + events - marks.query) > MapSlack
    <3> DEFINE n == 2 * (1 + events - marks.query)
    <3>1. n \in Int  BY <1>3
    <3>2. capacity # 0 => Len(fwmap) + MapSlack <= capacity + n  BY <2>2
    <3> HIDE DEF n
    <3>3. capacity # 0 /\ Len(fwmap) > capacity => n > MapSlack  BY <3>1, <3>2, <1>3
    <3> QED  BY <3>3 DEF n
  <2>4. HangsOnlyIfSlackUsedUp'
    BY <2>3, <1>1 DEF HangsOnlyIfSlackUsedUp, SlackUsedUp, SplitCost
  <2> QED  BY <2>2, <2>4, <1>1 DEF CapacityInv
<1>10. SlotsInv'
  <2>1. pc' \in Afterwards => PoolCalls' = PoolCalls  BY <1>1 DEF PoolCalls, Afterwards
  <2>2. pc \in Afterwards  BY <1>1 DEF Afterwards
  <2> QED  BY <1>1, <1>2, <2>1, <2>2 DEF SlotsInv
<1>11. MapInv'  BY <1>1 DEF MapInv
<1> QED  BY <1>6, <1>7, <1>8, <1>9, <1>10, <1>11 DEF BootInv

(* ExitBootServices accepts the key: the map is the one in force, and      *)
(* build_pmm starts on it.                                                 *)
LEMMA ExitSucceedsStep == BootInv /\ ExitSucceeds => BootInv'
<1> SUFFICES ASSUME BootInv, ExitSucceeds PROVE BootInv'  OBVIOUS
<1>1. /\ pc = "exit" /\ current /\ pc' = "build" /\ result' = "EFI_SUCCESS"
      /\ pos' = 1 /\ words_left' = storage.bitmap_words /\ blocks' = <<>>
      /\ UNCHANGED <<storage, counted, mmap, fwmap, current, owned, temp, size, capacity,
                     events, marks>>
  BY DEF ExitSucceeds, Goto
<1>2. BootTypeOK /\ Sized /\ TempInv /\ OwnedInv /\ ResultInv /\ CapacityInv /\ SlotsInv /\ MapInv
  BY DEF BootInv
<1>3. BootTypeOK'  BY <1>1, <1>2 DEF BootTypeOK
<1>4. Sized'  BY <1>1, <1>2 DEF Sized
<1>5. TempInv' /\ OwnedInv' /\ ResultInv'
  BY <1>1, <1>2 DEF TempInv, OwnedInv, ResultInv
<1>6. CapacityInv'  BY <1>1 DEF CapacityInv, HangsOnlyIfSlackUsedUp
<1>7. SlotsInv'
  <2>1. PoolCalls' = PoolCalls  BY <1>1 DEF PoolCalls
  <2> QED  BY <1>1, <1>2, <2>1 DEF SlotsInv, Afterwards
<1>8. mmap' = fwmap' /\ mmap' \in MemoryMaps /\ mmap' \in Seq(descriptor)
  BY <1>1, <1>2, BootNumbers DEF MapInv
<1>9. Len(mmap') \in Nat /\ storage'.bitmap_words \in Nat /\ storage'.block_capacity \in Nat
  BY <1>1, <1>8, BootNumbers
<1>10. Len(blocks') = 0 /\ DOMAIN blocks' = {} /\ blocks' \in Seq(pm_block)  BY <1>1
<1>11. BuildTypeOK'
  <2>1. pos' \in 1 .. Len(mmap') + 1  BY <1>1, <1>9
  <2>2. words_left' \in 0 .. storage'.bitmap_words  BY <1>1, <1>9
  <2> QED  BY <1>4, <1>8, <1>9, <1>10, <2>1, <2>2 DEF BuildTypeOK, Sized
<1>12. BuildInv'  BY <1>8, <1>10, <1>11 DEF BuildInv, BlocksDisjoint
<1>13. Cardinality(RamBefore(mmap', pos')) = 0 /\ Cardinality(BlocksBefore(mmap', pos')) = 0
  BY <1>1, <1>8, NothingAtStart
<1>14. StorageInv'
  <2>1. WordsUsed' = 0  BY <1>1, <1>9 DEF WordsUsed
  <2>2. WasteBounded'  BY <1>10, <1>13, <2>1, WordBitsAssumption DEF WasteBounded
  <2>3. Managed(blocks')  BY <1>10 DEF Managed
  <2> QED  BY <1>4, <1>10, <1>12, <1>13, <2>2, <2>3 DEF StorageInv, Sized
<1>15. ListInv'  BY <1>10, <1>13 DEF ListInv
<1> QED  BY <1>1, <1>3, <1>4, <1>5, <1>6, <1>7, <1>8, <1>14, <1>15 DEF BootInv, MapInv

(* build_pmm, and the entry of the kernel.                                 *)
LEMMA BuildPart == BootInv /\ (BuildStep \/ EnterKernel) => BootInv'
<1> SUFFICES ASSUME BootInv, BuildStep \/ EnterKernel PROVE BootInv'  OBVIOUS
<1>1. /\ pc = "build" /\ UNCHANGED <<result, fwmap, current, owned, temp, size, capacity,
                                     events, marks>>
      /\ \/ pc' = pc /\ build_pmm
         \/ pc' = "kernel_start" /\ Built /\ UNCHANGED buildVars
  BY DEF BuildStep, EnterKernel, Goto, bootVars
<1>2. BootTypeOK /\ Sized /\ TempInv /\ OwnedInv /\ ResultInv /\ CapacityInv /\ SlotsInv /\ MapInv
  BY DEF BootInv
<1>3. storage' = storage /\ counted' = counted /\ mmap' = mmap
  BY <1>1 DEF build_pmm, SkipEmpty, StopWhenFull, AddUnmanaged, AddReclaimable, AddUsable,
     Add, buildVars
<1>4. BootTypeOK'  BY <1>1, <1>2 DEF BootTypeOK, Final
<1>5. Sized'  BY <1>2, <1>3 DEF Sized
<1>6. TempInv' /\ OwnedInv' /\ ResultInv'
  BY <1>1, <1>2 DEF TempInv, OwnedInv, ResultInv
<1>7. CapacityInv'  BY <1>1 DEF CapacityInv, HangsOnlyIfSlackUsedUp
<1>8. SlotsInv'
  <2>1. PoolCalls' = PoolCalls  BY <1>1 DEF PoolCalls
  <2> QED  BY <1>1, <1>2, <1>3, <2>1 DEF SlotsInv, Afterwards
<1>9. mmap = fwmap /\ StorageInv /\ ListInv  BY <1>1, <1>2 DEF MapInv
<1>10. StorageInv'  BY <1>1, <1>9, StorageInvStep DEF Next
<1>11. ListInv'
  <2>1. CASE build_pmm  BY <2>1, <1>9, ListInvStep
  <2>2. CASE UNCHANGED buildVars  BY <2>2, <1>9 DEF ListInv, buildVars
  <2> QED  BY <2>1, <2>2, <1>1
<1>12. pc' = "kernel_start" => Built'  BY <1>1 DEF Built, buildVars
<1>13. MapInv'  BY <1>1, <1>3, <1>9, <1>10, <1>11, <1>12 DEF MapInv
<1> QED  BY <1>4, <1>5, <1>6, <1>7, <1>8, <1>13 DEF BootInv

LEMMA BootInvStep == BootInv /\ [BootNext]_vars => BootInv'
<1> SUFFICES ASSUME BootInv, [BootNext]_vars PROVE BootInv'  OBVIOUS
<1>1. CASE UNCHANGED vars
  <2>1. UNCHANGED <<buildVars, bootVars>>  BY <1>1 DEF vars
  <2>2. Sized' /\ TempInv' /\ OwnedInv' /\ ResultInv' /\ CapacityInv' /\ BootTypeOK'
    BY <2>1 DEF buildVars, bootVars, BootInv, Sized, TempInv, OwnedInv, ResultInv, CapacityInv,
       HangsOnlyIfSlackUsedUp, SlackUsedUp, BootTypeOK
  <2>3. SlotsInv'  BY <2>1 DEF buildVars, bootVars, BootInv, SlotsInv, PoolCalls
  <2>4. StorageInv => StorageInv'  BY <2>1, StorageInvStep
  <2>5. MapInv'  BY <2>1, <2>4 DEF buildVars, bootVars, BootInv, MapInv, ListInv, Built
  <2> QED  BY <2>2, <2>3, <2>5 DEF BootInv
<1>2. CASE FirmwareEvent  BY <1>2, FirmwareStep
<1>3. CASE Halted  BY <1>1, <1>3 DEF Halted
<1>4. CASE ReadFont \/ ReadKernel \/ NewSystem \/ FinalAlloc \/ Keep("alloc_storage", "final_query")
  BY <1>4, KeepStep DEF ReadFont, ReadKernel, NewSystem, FinalAlloc
<1>5. CASE \/ FreeMap("free_small", "alloc_map") \/ FreeMap("free_failed", "hang")
           \/ FreeMap("free_provisional", "alloc_storage")
  BY <1>5, FreeMapStep
<1>6. CASE get_rsdp2 \/ framebuffer_init \/ QueryTooSmall \/ QueryFails
  BY <1>6, QuietStep
<1>7. CASE QuerySucceeds  BY <1>7, QuerySucceedsStep
<1>8. CASE AllocMap  BY <1>8, AllocMapStep
<1>9. CASE FinalQuery  BY <1>9, FinalQueryStep
<1>10. CASE GetFinalMap \/ GetFinalMapFails \/ ExitStaleKey \/ ExitFails
  BY <1>10, FinalMapStep
<1>11. CASE ExitSucceeds  BY <1>11, ExitSucceedsStep
<1>12. CASE BuildStep \/ EnterKernel  BY <1>12, BuildPart
<1> QED
  BY <1>1, <1>2, <1>3, <1>4, <1>5, <1>6, <1>7, <1>8, <1>9, <1>10, <1>11, <1>12
  DEF BootNext, efi_main, reserve_pmm, getEFIMemoryMap

-----------------------------------------------------------------------------

(* The state of the boot stays in range, whatever the firmware does; the   *)
(* sizes that the loader passes to GetMemoryMap are numbers, however often *)
(* it asks again.                                                          *)
THEOREM BootTypeCorrect == BootSpec => []BootTypeOK
<1>1. BootInv => BootTypeOK  BY DEF BootInv
<1> QED  BY <1>1, BootInvInit, BootInvStep, PTL DEF BootSpec

(* The race between GetMemoryMap and ExitBootServices: no frame on offer   *)
(* to the kernel holds anything of the loader, and all of them are free in *)
(* the map that was in force when Boot Services ended.                     *)
THEOREM BootOffersOnlyUnused == BootSpec => []OffersOnlyUnusedMemory
<1>1. BootInv => OffersOnlyUnusedMemory
  <2> SUFFICES ASSUME BootInv, pc \in {"build", "kernel_start"}, NEW i \in DOMAIN blocks
               PROVE  /\ FreeFrames(blocks[i]) \subseteq Conventional(fwmap)
                      /\ FreeFrames(blocks[i]) \cap owned = {}
    BY DEF OffersOnlyUnusedMemory
  <2>1. mmap = fwmap /\ BuildInv  BY DEF BootInv, MapInv, StorageInv
  <2>2. FreeFrames(blocks[i]) \subseteq Conventional(fwmap)  BY <2>1 DEF BuildInv, GoodBlock
  <2>3. LoaderPages(fwmap) \cap Conventional(fwmap) = {}  BY BootNumbers, MapFacts
  <2>4. owned \subseteq LoaderPages(fwmap)  BY DEF BootInv, OwnedInv
  <2> QED  BY <2>2, <2>3, <2>4
<1> QED  BY <1>1, BootInvInit, BootInvStep, PTL DEF BootSpec

(* efi_main gives up on the final map only after more changes by the       *)
(* firmware than the slack of its buffer allows, for any slack, unless the *)
(* size query failed and the buffer has no bytes.                          *)
THEOREM BootHangsOnlyIfSlackUsedUp == BootSpec => []HangsOnlyIfSlackUsedUp
<1>1. BootInv => HangsOnlyIfSlackUsedUp  BY DEF BootInv, CapacityInv
<1> QED  BY <1>1, BootInvInit, BootInvStep, PTL DEF BootSpec

(* No path through getEFIMemoryMap and reserve_pmm leaks the provisional   *)
(* map.                                                                    *)
THEOREM BootFreesProvisionalMap == BootSpec => []ProvisionalMapFreed
<1>1. BootInv => ProvisionalMapFreed
  BY DEF BootInv, TempInv, ProvisionalMapFreed, Final
<1> QED  BY <1>1, BootInvInit, BootInvStep, PTL DEF BootSpec

(* PMM_BLOCK_SLACK is enough for what the loader itself does after it      *)
(* reserved the storage, and for each change by the firmware that is left  *)
(* of it: the kernel learns of every region, and of all of its RAM if the  *)
(* firmware changed nothing.                                               *)
THEOREM BootSlackSuffices == BootSpec => []SlackCoversBoot
<1>1. BootInv => SlackCoversBoot
  <2> SUFFICES ASSUME BootInv, pc = "kernel_start",
                      SplitCost * (3 + events - marks.reserve) <= BlockSlack
               PROVE  /\ Len(blocks) = block_count(mmap)
                      /\ events = marks.reserve => ~ RanOut
    BY DEF SlackCoversBoot
  <2>1. mmap = fwmap /\ StorageInv /\ ListInv /\ Built  BY DEF BootInv, MapInv
  <2>2. /\ block_count(fwmap) \in Nat /\ events \in Nat /\ marks.reserve \in Nat
        /\ storage.block_capacity \in Nat /\ BlockSlack \in Nat
        /\ mmap \in Seq(descriptor)
    BY <2>1, BootNumbers
  <2>3. block_count(mmap) <= storage.block_capacity
    <3> DEFINE n == 2 * (3 + events - marks.reserve)
    <3>1. n \in Int  BY <2>2
    <3>2. PoolCalls = 3 /\ pc \in Afterwards  BY DEF PoolCalls, Afterwards
    <3>3. block_count(fwmap) + BlockSlack <= storage.block_capacity + n
      BY <3>2 DEF BootInv, SlotsInv
    <3>4. n <= BlockSlack  BY DEF SplitCost
    <3> HIDE DEF n
    <3> QED  BY <2>1, <2>2, <3>1, <3>3, <3>4
  <2>4. pos = Len(mmap) + 1
    BY <2>1 DEF StorageInv, BuildInv, BuildTypeOK, Built
  <2>5. Len(blocks) = block_count(mmap)
    BY <2>1, <2>2, <2>3, <2>4, BlocksAtEnd DEF ListInv
  <2>6. ASSUME events = marks.reserve PROVE ~ RanOut
    <3>1. ram_frames(mmap) = counted /\ counted \in Nat
      BY <2>1, <2>6, BootNumbers DEF BootInv, SlotsInv, Afterwards
    <3>2. NotGrown  BY <2>3, <3>1 DEF NotGrown
    <3>3. Managed(blocks)  BY <2>1, <3>2 DEF StorageInv
    <3>4. Len(blocks) \in Nat  BY <2>1, StorageFacts
    <3> QED  BY <2>5, <3>3, <3>4 DEF RanOut, Managed
  <2> QED  BY <2>5, <2>6
<1> QED  BY <1>1, BootInvInit, BootInvStep, PTL DEF BootSpec
=============================================================================
