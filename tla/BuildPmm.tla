------------------------------ MODULE BuildPmm ------------------------------
(***************************************************************************)
(* How the loader builds the physical memory manager, efi-stage/efi_pmm.c. *)
(* reserve_pmm sizes the storage from a provisional memory map while Boot  *)
(* Services can still allocate; build_pmm fills it from the final map,     *)
(* which may be a different one.  One step is one iteration of the loop of *)
(* build_pmm.                                                              *)
(***************************************************************************)
EXTENDS PmmBlocks

CONSTANTS
  MemoryMaps,  \* the memory maps that the firmware may report
  BlockSlack   \* PMM_BLOCK_SLACK: 16 in the code

ASSUME BlockSlackAssumption == BlockSlack \in Nat

(* EFI_MEMORY_TYPE, the part the loader tells apart, and any other value.  *)
efi_type == {"EfiLoaderCode", "EfiLoaderData", "EfiBootServicesCode",
             "EfiBootServicesData", "EfiConventionalMemory",
             "EfiACPIReclaimMemory", "EfiACPIMemoryNVS",
             "EfiRuntimeServicesCode", "EfiRuntimeServicesData",
             "EfiMemoryMappedIO", "EfiMemoryMappedIOPortSpace", "Other"}

(* EFI_MEMORY_DESCRIPTOR, in pages (a page is a frame).                    *)
descriptor == [Type: efi_type, PhysicalStart: Nat, NumberOfPages: 0 .. Wrap - 1]

Pages(d) == d.PhysicalStart .. d.PhysicalStart + d.NumberOfPages - 1

(* The firmware describes every page at most once.                         *)
ASSUME MemoryMapsAssumption ==
  \A map \in MemoryMaps :
     /\ map \in Seq(descriptor)
     /\ \A i, j \in DOMAIN map : i # j => Pages(map[i]) \cap Pages(map[j]) = {}

-----------------------------------------------------------------------------
(* reserve_pmm: the two counts over the provisional map, and the storage.  *)

is_ram_type(type) ==
  type \in {"EfiLoaderCode", "EfiLoaderData", "EfiBootServicesCode",
            "EfiBootServicesData", "EfiConventionalMemory"}

block_count(map) == Cardinality({i \in DOMAIN map : map[i].NumberOfPages # 0})

(* The sum of NumberOfPages over the descriptors of RAM.                   *)
RamPages(map) ==
  UNION {{i} \X (1 .. map[i].NumberOfPages) :
           i \in {k \in DOMAIN map : is_ram_type(map[k].Type)}}
ram_frames(map) == Cardinality(RamPages(map))

(* Two mistakes: one spare block too few, and no spare word for the        *)
(* partial last word of each block.                                        *)
StorageOneShort(map) ==
  LET capacity == block_count(map) + BlockSlack - 1
  IN  [block_capacity |-> capacity,
       bitmap_words   |-> ram_frames(map) \div WordBits + capacity]

StorageWithoutPartialWords(map) ==
  [block_capacity |-> block_count(map) + BlockSlack,
   bitmap_words   |-> ram_frames(map) \div WordBits]

pmm_storage(map) ==
  LET capacity == block_count(map) + BlockSlack
  IN  [block_capacity |-> capacity,
       bitmap_words   |-> ram_frames(map) \div WordBits + capacity]

-----------------------------------------------------------------------------

VARIABLES
  storage,     \* the sizes that reserve_pmm allocated
  counted,     \* ram_frames of the provisional map (reserve_pmm's local)
  mmap,        \* the final memory map
  pos,         \* the descriptor that offset points to
  words_left,  \* words of storage->bitmap not given to a block
  blocks       \* physical_memory->blocks[0 .. block_count - 1]

buildVars == <<storage, counted, mmap, pos, words_left, blocks>>

(* The start of build_pmm, for storage reserved from the map provisional.  *)
StartBuild(provisional, final) ==
  /\ storage = pmm_storage(provisional)
  /\ counted = ram_frames(provisional)
  /\ mmap = final
  /\ pos = 1
  /\ words_left = storage.bitmap_words
  /\ blocks = <<>>

Init == \E provisional, final \in MemoryMaps : StartBuild(provisional, final)

-----------------------------------------------------------------------------
(* A mistake: Boot Services are over, so treat their memory as free.       *)
TypeOfFreeingEarly(type) ==
  IF type \in {"EfiConventionalMemory", "EfiLoaderData", "EfiBootServicesData"}
    THEN "PM_USABLE" ELSE "PM_RESERVED"

(* The switch on desc->Type.                                               *)
TypeOf(type) ==
  CASE type = "EfiConventionalMemory" -> "PM_USABLE"
    [] type \in {"EfiLoaderCode", "EfiLoaderData", "EfiBootServicesCode",
                 "EfiBootServicesData"} -> "PM_RECLAIMABLE"
    [] type = "EfiACPIReclaimMemory" -> "PM_ACPI_RECLAIM"
    [] type = "EfiACPIMemoryNVS" -> "PM_ACPI_NVS"
    [] type \in {"EfiRuntimeServicesCode", "EfiRuntimeServicesData"} -> "PM_FIRMWARE"
    [] type \in {"EfiMemoryMappedIO", "EfiMemoryMappedIOPortSpace"} -> "PM_MMIO"
    [] OTHER -> "PM_RESERVED"

(* The bits past the end of the block: ~0ULL << (NumberOfPages % 64) in    *)
(* the last word, if that word is partial.                                 *)
PaddingBits(pages) ==
  LET last == frame_map_size(pages) - 1
  IN  IF pages % WordBits # 0
        THEN {WordBits * last + k : k \in pages % WordBits .. WordBits - 1}
        ELSE {}

(* A mistake: offering the bits past the end.                              *)
UsableBitsWithoutPadding(d) == IF d.PhysicalStart = 0 THEN {0} ELSE {}

(* The bits set in the bitmap of a new PM_USABLE block.                    *)
UsableBits(d) ==
  PaddingBits(d.NumberOfPages) \cup (IF d.PhysicalStart = 0 THEN {0} ELSE {})

Unmanaged(d) ==
  [address |-> d.PhysicalStart, frames_total |-> d.NumberOfPages,
   frames_free |-> 0, has_map |-> FALSE, map |-> {}, type |-> TypeOf(d.Type)]

Reclaimable(d) ==
  [Unmanaged(d) EXCEPT !.has_map = TRUE, !.map = MapBits(d.NumberOfPages)]

Usable(d) ==
  [Unmanaged(d) EXCEPT !.has_map = TRUE, !.map = UsableBits(d),
     !.frames_free = Minus(d.NumberOfPages, IF d.PhysicalStart = 0 THEN 1 ELSE 0)]

Words(d) == frame_map_size(d.NumberOfPages)

(* A mistake: the words are taken without testing that they are left.      *)
GetsMapUnchecked(d) == TypeOf(d.Type) \in {"PM_USABLE", "PM_RECLAIMABLE"}

(* A descriptor gets a bitmap if it is RAM and enough words are left.      *)
GetsMap(d) == /\ TypeOf(d.Type) \in {"PM_USABLE", "PM_RECLAIMABLE"}
              /\ Words(d) <= words_left

(* The next descriptor takes one of the block slots.                       *)
TakesBlock == /\ pos <= Len(mmap)
              /\ mmap[pos].NumberOfPages # 0
              /\ Len(blocks) # storage.block_capacity

Add(block, words) == /\ blocks' = Append(blocks, block)
                     /\ words_left' = words_left - words
                     /\ pos' = pos + 1
                     /\ UNCHANGED <<storage, counted, mmap>>

SkipEmpty == /\ pos <= Len(mmap)
             /\ mmap[pos].NumberOfPages = 0
             /\ pos' = pos + 1
             /\ UNCHANGED <<storage, counted, mmap, words_left, blocks>>

(* break: the rest of the map gets no block.                               *)
StopWhenFull == /\ pos <= Len(mmap)
                /\ mmap[pos].NumberOfPages # 0
                /\ Len(blocks) = storage.block_capacity
                /\ pos' = Len(mmap) + 1
                /\ UNCHANGED <<storage, counted, mmap, words_left, blocks>>

AddUnmanaged == /\ TakesBlock
                /\ ~ GetsMap(mmap[pos])
                /\ Add(Unmanaged(mmap[pos]), 0)

AddReclaimable == /\ TakesBlock
                  /\ GetsMap(mmap[pos])
                  /\ TypeOf(mmap[pos].Type) = "PM_RECLAIMABLE"
                  /\ Add(Reclaimable(mmap[pos]), Words(mmap[pos]))

AddUsable == /\ TakesBlock
             /\ GetsMap(mmap[pos])
             /\ TypeOf(mmap[pos].Type) = "PM_USABLE"
             /\ Add(Usable(mmap[pos]), Words(mmap[pos]))

build_pmm == \/ SkipEmpty \/ StopWhenFull
             \/ AddUnmanaged \/ AddReclaimable \/ AddUsable

Built == pos > Len(mmap)

Next == build_pmm

Spec == Init /\ [][Next]_buildVars

-----------------------------------------------------------------------------

(* build_pmm fills at most block_capacity blocks and gives out at most     *)
(* bitmap_words words of the bitmap.                                       *)
BuildTypeOK ==
  /\ storage \in [block_capacity: Nat, bitmap_words: Nat]
  /\ counted \in Nat
  /\ mmap \in Seq(descriptor)
  /\ pos \in 1 .. Len(mmap) + 1
  /\ words_left \in 0 .. storage.bitmap_words
  /\ blocks \in Seq(pm_block)
  /\ Len(blocks) <= storage.block_capacity

(* What PhysicalMemory assumes of the blocks it is handed: counters that   *)
(* match the bitmaps, no bit past the end of a block on offer, frame 0     *)
(* never on offer, and disjoint blocks.                                    *)
HandsOverConsistentBlocks ==
  /\ \A i \in DOMAIN blocks : /\ BlockConsistent(blocks[i])
                              /\ 0 \notin FreeFrames(blocks[i])
  /\ BlocksDisjoint(blocks)

(* "never hands out a frame that's in use", also if the storage runs out   *)
(* half way: at any point of the loop of build_pmm every frame on offer is *)
(* conventional memory of the final map.                                   *)
Conventional(map) ==
  UNION {Pages(map[i]) : i \in {k \in DOMAIN map : map[k].Type = "EfiConventionalMemory"}}

OffersOnlyConventional ==
  \A i \in DOMAIN blocks : FreeFrames(blocks[i]) \subseteq Conventional(mmap)

(* "Each block wastes at most one partial word, hence + block_capacity":   *)
(* the storage runs out only if the final map has more RAM, or too many    *)
(* more descriptors, than the provisional one.                             *)
RanOut ==
  \/ \E i \in DOMAIN blocks : /\ blocks[i].type \in {"PM_USABLE", "PM_RECLAIMABLE"}
                              /\ ~ blocks[i].has_map
  \/ Built /\ Len(blocks) < block_count(mmap)

RunsOutOnlyIfMapGrew ==
  RanOut => \/ ram_frames(mmap) > counted
            \/ block_count(mmap) > storage.block_capacity
=============================================================================
