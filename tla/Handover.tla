------------------------------ MODULE Handover ------------------------------
(***************************************************************************)
(* The loader and the kernel, composed: build_pmm (BuildPmm) fills the     *)
(* block list from the final memory map, efi_main passes it to             *)
(* kernel_start (KernelBoot), and init_paging maps what is in the list.    *)
(* The kernel gets every list that build_pmm makes, also those it made     *)
(* when its storage ran out.                                               *)
(***************************************************************************)
EXTENDS KernelBoot

CONSTANTS
  MemoryMaps, BlockSlack, WordBits, CounterWrap,  \* as in BuildPmm
  Framebuffers                                    \* system->fb: start, length

ASSUME FramebuffersAssumption == Framebuffers \subseteq [start: Nat, length: Nat]

VARIABLES storage, counted, mmap, pos, words_left, blocks  \* as in BuildPmm

Build == INSTANCE BuildPmm WITH Wrap <- CounterWrap

ASSUME LoaderAssumption == /\ WordBits \in Nat \ {0} /\ CounterWrap \in Nat \ {0}
                           /\ BlockSlack \in Nat
ASSUME MapsAssumption ==
  \A map \in MemoryMaps :
     /\ map \in Seq(Build!descriptor)
     /\ \A k, n \in DOMAIN map : k # n => Build!Pages(map[k]) \cap Build!Pages(map[n]) = {}

buildVars == <<storage, counted, mmap, pos, words_left, blocks>>
handoverVars == <<bootVars, buildVars>>

(* Before kernel_start is called.                                          *)
NoSystem == [blocks |-> << >>, fb_start |-> -1, fb_length |-> 0]
InLoader == system = NoSystem

HandoverInit ==
  /\ Build!Init
  /\ Start({}, {}) /\ system = NoSystem
  /\ kpc = "gdt" /\ i = 1 /\ gdt = << >> /\ cr3 = NoFrame

LoaderStep == InLoader /\ Build!build_pmm /\ UNCHANGED bootVars

Managed == {k \in DOMAIN blocks : blocks[k].has_map}

(* kernel_start(system): the allocator of the kernel is the bitmaps that   *)
(* build_pmm filled.                                                       *)
EnterKernel ==
  /\ InLoader /\ Build!Built
  /\ \E fb \in Framebuffers :
        system' = [blocks |-> blocks, fb_start |-> fb.start, fb_length |-> fb.length]
  /\ regions' = {Build!Frames(blocks[k]) : k \in Managed}
  /\ free' = UNION {Build!FreeFrames(blocks[k]) : k \in Managed}
  /\ UNCHANGED <<held, last, pml4, tables, pc, call, at, heap, result,
                 kpc, i, gdt, cr3, buildVars>>

KernelStep == ~ InLoader /\ kernel_start /\ UNCHANGED buildVars

Step == LoaderStep \/ EnterKernel \/ KernelStep

HandoverNext == Step \/ (KernelHalted /\ UNCHANGED buildVars)

(* The processor keeps executing the loader and then the kernel.           *)
HandoverSpec ==
  HandoverInit /\ [][HandoverNext]_handoverVars /\ WF_handoverVars(Step)

-----------------------------------------------------------------------------

(* "Only PM_USABLE frames start out free", so that the kernel's tables and *)
(* its GDT never land on the kernel, the block list, boot data or a frame  *)
(* past the end of a region: all of them are in conventional memory of the *)
(* final map, and not at address 0, however the storage was cut short.     *)
KernelTakesOnlyUnused ==
  DOMAIN tables \cup {gdt[k] : k \in DOMAIN gdt}
    \subseteq Build!Conventional(mmap) \ {0}

(* "RAM of every kind the firmware reported (the kernel image, its stack,  *)
(* the PMM, boot data and the page tables all live there)" is identity     *)
(* mapped when CR3 is loaded.                                              *)
Ram == UNION {Build!Pages(mmap[k]) :
                k \in {n \in DOMAIN mmap : Build!is_ram_type(mmap[n].Type)}}

RamStaysMapped ==
  cr3 # NoFrame => \A v \in Ram \ {0} : Translate(v) = v

(* It is, if there was a slot for every region of the final map; that the  *)
(* bitmaps ran out does not matter.                                        *)
RamStaysMappedIfListed ==
  Len(blocks) = Build!block_count(mmap) => RamStaysMapped
=============================================================================
