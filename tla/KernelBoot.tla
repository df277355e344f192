----------------------------- MODULE KernelBoot -----------------------------
(***************************************************************************)
(* kernel_start and init_paging, kernel/kernel.c: the kernel takes two     *)
(* frames for the GDT, builds page tables from the blocks that the loader  *)
(* handed over, and switches to them.  The calls of map_range are those of *)
(* Paging, step by step.  Handover says what the kernel is handed.         *)
(***************************************************************************)
EXTENDS Paging, Sequences

VARIABLES
  system,  \* system->physical_memory and system->fb
  kpc,     \* where kernel_start is
  i,       \* the loop variable of init_paging
  gdt,     \* the frames of the GDT descriptor and of the GDT
  cr3      \* the tables in use, NoFrame for the firmware's

kernelVars == <<system, kpc, i, gdt, cr3>>
bootVars == <<vars, kernelVars>>

BlockFrames(b) == b.address .. b.address + b.frames_total - 1

Proceed(label) == kpc' = label

(* frame_allocate, twice; without a frame the kernel halts.                *)
SetupGdt ==
  /\ kpc = "gdt"
  /\ \/ \E f \in free : /\ Take("frame_allocate", 1, f)
                        /\ gdt' = Append(gdt, f)
                        /\ Proceed(IF Len(gdt) = 1 THEN "pml4" ELSE "gdt")
     \/ Memory!Refuse("frame_allocate", 1) /\ Proceed("halt") /\ UNCHANGED gdt
  /\ UNCHANGED <<pml4, tables, pc, call, at, heap, result, system, i, cr3>>

CreatePml4 ==
  /\ kpc = "pml4" /\ init_pml4
  /\ Proceed(IF pc' = "halt" THEN "halt" ELSE "block")
  /\ UNCHANGED <<system, i, gdt, cr3>>

-----------------------------------------------------------------------------
(* The loop over the blocks.                                               *)

Block == system.blocks[i]

(* A mistake: block 0 is mapped from address 0 on.                         *)
StartFromZero(b) == b.address

(* Page 0 stays unmapped.                                                  *)
StartOf(b) == IF b.address < 1 THEN 1 ELSE b.address
EndOf(b)   == b.address + b.frames_total

(* A mistake: only what is in use when the kernel starts.                  *)
MappedIfInUse(b) == /\ b.type \notin {"PM_USABLE", "PM_MMIO", "PM_RESERVED"}
                    /\ StartOf(b) < EndOf(b)

Mapped(b) == b.type \notin {"PM_MMIO", "PM_RESERVED"} /\ StartOf(b) < EndOf(b)

Identity(start, length) ==
  [vaddr |-> start, paddr |-> start, length |-> length, flags |-> {"READ_WRITE"}]

NextBlock ==
  /\ kpc = "block" /\ i <= Len(system.blocks)
  /\ \/ /\ Mapped(Block)
        /\ map_range(Identity(PageSize * StartOf(Block),
                              PageSize * (EndOf(Block) - StartOf(Block))))
        /\ Proceed("mapping") /\ UNCHANGED i
     \/ /\ ~ Mapped(Block)
        /\ i' = i + 1 /\ UNCHANGED <<vars, kpc>>
  /\ UNCHANGED <<system, gdt, cr3>>

(* map_range is running.                                                   *)
MapStep == /\ kpc \in {"mapping", "mapping_fb"} /\ pc # "idle"
           /\ Loop \/ map_large_page \/ map_page
           /\ UNCHANGED kernelVars

BlockMapped ==
  /\ kpc = "mapping" /\ pc = "idle"
  /\ \/ result = 0 /\ Proceed("block") /\ i' = i + 1
     \/ result = -1 /\ Proceed("halt") /\ UNCHANGED i
  /\ UNCHANGED <<vars, system, gdt, cr3>>

MapFramebuffer ==
  /\ kpc = "block" /\ i > Len(system.blocks)
  /\ map_range(Identity(system.fb_start, system.fb_length))
  /\ Proceed("mapping_fb")
  /\ UNCHANGED <<system, i, gdt, cr3>>

(* init_paging fails, or loads CR3; both end in a hlt loop.                *)
Switch ==
  /\ kpc = "mapping_fb" /\ pc = "idle"
  /\ cr3' = IF result = 0 THEN pml4 ELSE cr3
  /\ Proceed("halt")
  /\ UNCHANGED <<vars, system, i, gdt>>

kernel_start == \/ SetupGdt \/ CreatePml4 \/ NextBlock \/ MapStep \/ BlockMapped
                \/ MapFramebuffer \/ Switch

KernelHalted == kpc = "halt" /\ UNCHANGED bootVars

KernelNext == kernel_start \/ KernelHalted

-----------------------------------------------------------------------------

(* "identity map every region the kernel may still touch": when CR3 is     *)
(* loaded, RAM of every kind, the ACPI and runtime regions and the         *)
(* framebuffer translate to themselves, whatever the order and alignment   *)
(* of the blocks, "Page 0 stays unmapped so NULL dereferences fault", and  *)
(* nothing else is mapped.                                                 *)
Touched ==
  UNION {BlockFrames(system.blocks[k]) :
           k \in {n \in DOMAIN system.blocks :
                    system.blocks[n].type \notin {"PM_MMIO", "PM_RESERVED"}}}
FbPages == {p \in VPages : p >= system.fb_start \div PageSize
                           /\ p * PageSize < system.fb_start + system.fb_length}

IdentityMapped ==
  cr3 # NoFrame =>
    \A v \in VPages :
       Translate(v) = IF v \in (Touched \cup FbPages) \ {0} THEN v ELSE NotMapped

(* "Tables are reached by their physical address, so this relies on them   *)
(* being identity mapped": after the switch the tables and the GDT, each   *)
(* in a frame of its own, are still where the kernel looks for them.       *)
ReachesItself ==
  cr3 # NoFrame =>
    /\ \A t \in DOMAIN tables \cup {gdt[1], gdt[2]} : Translate(t) = t
    /\ gdt[1] # gdt[2] /\ gdt[1] \notin DOMAIN tables /\ gdt[2] \notin DOMAIN tables

(* The kernel ends in its hlt loop, with new tables or with the old ones.  *)
KernelEnds == <>(kpc = "halt")
=============================================================================
