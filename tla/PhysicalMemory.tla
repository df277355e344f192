--------------------------- MODULE PhysicalMemory ---------------------------
(***************************************************************************)
(* The kernel's physical memory manager, kernel/memory/physical.c: a list  *)
(* of blocks with a bitmap and a free counter each, single frames and runs *)
(* of frames taken first-fit, frames given back one at a time.  Nothing    *)
(* runs concurrently with it (interrupts are off and there is one CPU), so *)
(* every call is one step.                                                 *)
(*                                                                         *)
(* held, reserved and last are not in the code: they record who uses a     *)
(* frame and what the last call returned, for the properties to speak of.  *)
(***************************************************************************)
EXTENDS PmmBlocks

CONSTANTS
  Pmms,      \* the block lists that build_pmm may hand over
  Counts,    \* the counts passed to frames_allocate
  Freeable   \* the addresses passed to frame_free

(* build_pmm hands over consistent, disjoint blocks that do not offer    *)
(* frame 0 (see BuildPmm).                                                 *)
ASSUME PmmsAssumption ==
  \A pmm \in Pmms : /\ pmm \in Seq(pm_block)
                    /\ \A i \in DOMAIN pmm : BlockConsistent(pmm[i])
                    /\ \A i \in DOMAIN pmm : 0 \notin FreeFrames(pmm[i])
                    /\ BlocksDisjoint(pmm)
ASSUME CountsAssumption   == Counts \subseteq Nat
ASSUME FreeableAssumption == Freeable \subseteq Nat

VARIABLES
  blocks,    \* physical_memory->blocks[0 .. block_count - 1]
  held,      \* frames returned to callers and not freed since
  reserved,  \* frames in use since boot and not freed since
  last       \* the last call: operation, argument and result

vars == <<blocks, held, reserved, last>>

(* The return value 0xFFFFFFFFFFFFFFFF.                                    *)
NoFrame == -1

Call(op, arg, result) == last' = [op |-> op, arg |-> arg, result |-> result]

Init ==
  /\ blocks \in Pmms
  /\ held = {}
  /\ reserved = UNION {UsedFrames(blocks[i]) : i \in DOMAIN blocks}
  /\ last = [op |-> "boot", arg |-> 0, result |-> NoFrame]

-----------------------------------------------------------------------------

(* A mistake: a signed counter that the caller decrements as well.         *)
ClaimCountingTwice(b, bits, count) ==
  [b EXCEPT !.map = @ \cup bits, !.frames_free = @ - 2 * count]

(* A block after count of its bits were set.                               *)
Claim(b, bits, count) ==
  [b EXCEPT !.map = @ \cup bits, !.frames_free = Minus(@, count)]

(* frame_allocate looks into a block whose counter is not 0, and           *)
(* frame_allocate_from_block finds its first clear bit.                    *)
Offers(b) == b.frames_free # 0 /\ FreeBits(b) # {}

(* A mistake: the address counts the bits of one word only, "entry * 64"   *)
(* is left out.                                                            *)
FrameOfWordOnly(i, bit) ==
  /\ bit \in FreeBits(blocks[i])
  /\ \A other \in FreeBits(blocks[i]) : bit <= other
  /\ blocks' = [blocks EXCEPT ![i] = Claim(@, {bit}, 1)]
  /\ held' = held \cup {blocks[i].address + (bit % WordBits)}
  /\ Call("frame_allocate", 1, blocks[i].address + (bit % WordBits))
  /\ UNCHANGED reserved

frame_allocate_from_block(i, bit) ==
  /\ bit \in FreeBits(blocks[i])
  /\ \A other \in FreeBits(blocks[i]) : bit <= other
  /\ blocks' = [blocks EXCEPT ![i] = Claim(@, {bit}, 1)]
  /\ held' = held \cup {blocks[i].address + bit}
  /\ Call("frame_allocate", 1, blocks[i].address + bit)
  /\ UNCHANGED reserved

frame_allocate ==
  \/ \E i \in DOMAIN blocks :
        /\ Offers(blocks[i])
        /\ \A j \in 1 .. i - 1 : ~ Offers(blocks[j])
        /\ \E bit \in FreeBits(blocks[i]) : frame_allocate_from_block(i, bit)
  \/ /\ \A i \in DOMAIN blocks : ~ Offers(blocks[i])
     /\ Call("frame_allocate", 1, NoFrame)
     /\ UNCHANGED <<blocks, held, reserved>>

-----------------------------------------------------------------------------

(* frame_is_used, for the frames of one run.                               *)
Run(start, count) == start .. start + count - 1

(* A mistake: the run also counts the used frame it starts after.          *)
IsFreeRunAfterUsed(b, start, count) ==
  \A f \in Run(start, count) : f < b.frames_total /\ (f = start \/ f \notin b.map)

IsFreeRun(b, start, count) ==
  \A f \in Run(start, count) : f < b.frames_total /\ f \notin b.map

(* A mistake: the test of the counter is one too strict.                   *)
OffersRunStrict(b, count) ==
  /\ b.has_map
  /\ b.frames_free > count
  /\ \E start \in 0 .. b.frames_total - 1 : IsFreeRun(b, start, count)

OffersRun(b, count) ==
  /\ b.has_map
  /\ b.frames_free >= count
  /\ \E start \in 0 .. b.frames_total - 1 : IsFreeRun(b, start, count)

(* The scan keeps the length of the run of clear bits that ends at the     *)
(* current frame and stops as soon as it is count: at the lowest start.    *)
frames_allocate_from_block(i, start, count) ==
  /\ IsFreeRun(blocks[i], start, count)
  /\ \A other \in 0 .. start - 1 : ~ IsFreeRun(blocks[i], other, count)
  /\ blocks' = [blocks EXCEPT ![i] = Claim(@, Run(start, count), count)]
  /\ held' = held \cup Run(blocks[i].address + start, count)
  /\ Call("frames_allocate", count, blocks[i].address + start)
  /\ UNCHANGED reserved

frames_allocate(count) ==
  \/ \E i \in DOMAIN blocks :
        /\ count > 0
        /\ OffersRun(blocks[i], count)
        /\ \A j \in 1 .. i - 1 : ~ OffersRun(blocks[j], count)
        /\ \E start \in 0 .. blocks[i].frames_total - 1 :
              frames_allocate_from_block(i, start, count)
  \/ /\ count = 0 \/ \A i \in DOMAIN blocks : ~ OffersRun(blocks[i], count)
     /\ Call("frames_allocate", count, NoFrame)
     /\ UNCHANGED <<blocks, held, reserved>>

-----------------------------------------------------------------------------

(* A mistake: count every free, also that of a frame that is free already. *)
FreeCountingTwice(b, address) ==
  IF ~ b.has_map THEN b
  ELSE [b EXCEPT !.frames_free = Plus(@, 1), !.map = @ \ {address - b.address}]

(* frame_free_from_block leaves an unmanaged block alone and counts a      *)
(* frame only if its bit was set: freeing a free frame changes nothing.    *)
frame_free_from_block(b, address) ==
  LET bit == address - b.address
  IN  IF ~ b.has_map THEN b
      ELSE [b EXCEPT !.frames_free = IF bit \in b.map THEN Plus(@, 1) ELSE @,
                     !.map         = @ \ {bit}]

frame_free(address) ==
  /\ \/ \E i \in DOMAIN blocks :
           /\ address \in Frames(blocks[i])
           /\ \A j \in 1 .. i - 1 : address \notin Frames(blocks[j])
           /\ blocks' = [blocks EXCEPT ![i] = frame_free_from_block(@, address)]
     \/ /\ \A i \in DOMAIN blocks : address \notin Frames(blocks[i])
        /\ UNCHANGED blocks
  /\ held' = held \ {address}
  /\ reserved' = reserved \ {address}
  /\ Call("frame_free", address, NoFrame)

-----------------------------------------------------------------------------

Next ==
  \/ frame_allocate
  \/ \E count \in Counts : frames_allocate(count)
  \/ \E address \in Freeable : frame_free(address)

Spec == Init /\ [][Next]_vars

-----------------------------------------------------------------------------

(* The state of the allocator; frames_free is a uint64_t that never wraps. *)
TypeOK ==
  /\ blocks \in Seq(pm_block)
  /\ held \subseteq Nat
  /\ reserved \subseteq Nat
  /\ last \in [op    : {"boot", "frame_allocate", "frames_allocate", "frame_free"},
               arg   : Nat,
               result: Nat \cup {NoFrame}]

(* After any sequence of allocations and frees, double frees included, the *)
(* counter of every block is the number of clear bits of its bitmap, no    *)
(* bit past the end of a block is clear, and a block without a bitmap      *)
(* counts 0: frame_allocate, which does not test for NULL, never reads     *)
(* through a NULL map.                                                     *)
CountersExact == \A i \in DOMAIN blocks : BlockConsistent(blocks[i])

(* The bitmaps say exactly who owns what: a bit is set if and only if the  *)
(* frame is held by a caller or in use since boot.  No frame is handed out *)
(* twice and none is lost.                                                 *)
OwnershipExact ==
  /\ held \cap reserved = {}
  /\ held \cup reserved = UNION {UsedFrames(blocks[i]) : i \in DOMAIN blocks}

(* "Never hand out physical address 0: callers can't tell it from NULL."   *)
(* efi_pmm.c sets the bit once, at boot.                                   *)
ZeroNeverHandedOut == 0 \notin held

(* Bitmaps, counters and first-fit search implement the abstract           *)
(* allocator: what frame_allocate and frames_allocate return was free and  *)
(* contiguous, and they fail only if no block has such a run.              *)
Managed == {Frames(blocks[i]) : i \in {k \in DOMAIN blocks : blocks[k].has_map}}
Free    == UNION {FreeFrames(blocks[i]) : i \in DOMAIN blocks}

Abstract == INSTANCE FrameAllocator WITH regions <- Managed, free <- Free

ImplementsFrameAllocator == Abstract!Spec
=============================================================================
