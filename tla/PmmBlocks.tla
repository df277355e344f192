----------------------------- MODULE PmmBlocks -----------------------------
(***************************************************************************)
(* The data structures of the physical memory manager, declared in         *)
(* kernel/memory/physical.h and shared by the loader (efi_pmm.c fills      *)
(* them) and by the kernel (physical.c allocates from them).               *)
(*                                                                         *)
(* Physical addresses are counted in frames: every address the code        *)
(* handles is a multiple of frame_size, so the multiplications and the     *)
(* divisions by frame_size cancel.  A bitmap is the set of the indexes of  *)
(* the bits that are 1 (frame in use); bit b of word w is index            *)
(* WordBits * w + b.  A NULL map is has_map = FALSE.                       *)
(***************************************************************************)
EXTENDS Integers, FiniteSets, Sequences

CONSTANTS
  WordBits,  \* bits in a word of the bitmap: 64 in the code
  Wrap       \* number of values of a uint64_t: 2^64 in the code

ASSUME WordBitsAssumption == WordBits \in Nat \ {0}
ASSUME WrapAssumption     == Wrap \in Nat \ {0}

(* enum pm_type *)
pm_type == {"PM_USABLE", "PM_RECLAIMABLE", "PM_ACPI_RECLAIM", "PM_ACPI_NVS",
            "PM_FIRMWARE", "PM_MMIO", "PM_RESERVED"}

(* frame_map_size: the words that a bitmap of frame_count bits needs.  The *)
(* last word may hold bits past the end of the block.                      *)
frame_map_size(frame_count) == (frame_count + WordBits - 1) \div WordBits

MapBits(frame_count) == 0 .. WordBits * frame_map_size(frame_count) - 1

(* struct pm_block, without the attributes, which no code reads.           *)
pm_block == [address     : Nat,
             frames_total: 0 .. Wrap - 1,
             frames_free : 0 .. Wrap - 1,
             has_map     : BOOLEAN,
             map         : SUBSET Nat,
             type        : pm_type]

(* The frames of a block, and the clear bits of its bitmap: all of them,   *)
(* also those past the end of the block if they ever became 0.             *)
Frames(b)   == b.address .. b.address + b.frames_total - 1
FreeBits(b) == IF b.has_map THEN MapBits(b.frames_total) \ b.map ELSE {}

(* The frames a block's bitmap offers, and those it records as in use.     *)
FreeFrames(b) == {b.address + bit : bit \in FreeBits(b)}
UsedFrames(b) == IF b.has_map
                   THEN {f \in Frames(b) : f - b.address \in b.map}
                   ELSE {}

(* uint64_t subtraction.                                                   *)
Minus(n, m) == IF n >= m THEN n - m ELSE n - m + Wrap
Plus(n, m)  == IF n + m < Wrap THEN n + m ELSE n + m - Wrap

(***************************************************************************)
(* What the allocator relies on in every block: the counter agrees with    *)
(* the bitmap, the bits past the end of the block are never offered, and   *)
(* an unmanaged block never looks as if it had a free frame.               *)
(***************************************************************************)
BlockConsistent(b) ==
  /\ b.frames_free = Cardinality(FreeBits(b))
  /\ \A bit \in FreeBits(b) : bit < b.frames_total
  /\ b.map \subseteq MapBits(b.frames_total)

(* The memory map lists every frame once, so two blocks share no frame.    *)
BlocksDisjoint(blocks) ==
  \A i, j \in DOMAIN blocks :
     i # j => Frames(blocks[i]) \cap Frames(blocks[j]) = {}
=============================================================================
