------------------------------ MODULE EfiBoot ------------------------------
(***************************************************************************)
(* The boot stage, efi-stage/main.c (efi_main), with getEFIMemoryMap       *)
(* (efi_mmap.c) and reserve_pmm (efi_pmm.c): load the files, size and      *)
(* reserve the storage of the memory manager from a provisional memory     *)
(* map, take the final map, leave Boot Services with its key, build the    *)
(* memory manager and enter the kernel.                                    *)
(*                                                                         *)
(* Until ExitBootServices succeeds the firmware still runs: its timers and *)
(* drivers may change the memory map between any two calls of the loader.  *)
(* One step is one call into the firmware with the loader's own            *)
(* computation that follows it.  A pool buffer is one page, possibly       *)
(* shared with other buffers.  Sizes of maps are counted in descriptors.   *)
(***************************************************************************)
EXTENDS BuildPmm

CONSTANTS
  RetrySlack,  \* spare descriptors in getEFIMemoryMap: 2 in the code
  MapSlack,    \* spare descriptors in efi_main's final buffer: 8 in the code
  MaxEvents    \* bound: how often the firmware changes the map by itself

ASSUME SlackAssumption == /\ RetrySlack \in Nat
                          /\ MapSlack \in Nat
                          /\ MaxEvents \in Nat

(* Splitting a region around an allocation adds two descriptors, so at     *)
(* most two more of them have pages.                                       *)
SplitCost == 2

VARIABLES
  pc,         \* where efi_main is
  result,     \* what the last GetMemoryMap or ExitBootServices returned
  fwmap,      \* the firmware's memory map at this moment
  current,    \* mmap.key is the key of the map at this moment
  owned,      \* pages of the buffers that outlive the loader
  temp,       \* the page of getEFIMemoryMap's buffer, NoPage if NULL
  size,       \* mmap.size
  capacity,   \* map_capacity
  events,     \* changes of the map by the firmware itself (for the properties)
  marks       \* events when the sizes were taken (for the properties)

bootVars == <<pc, result, fwmap, current, owned, temp, size, capacity, events, marks>>
vars == <<buildVars, bootVars>>

NoPage == -1

(* No map is empty: a query with a NULL buffer and size 0 is too small.    *)
Maps == {map \in MemoryMaps : Len(map) > 0}

(* efi_main never leaves these: the kernel's and the loader's hlt loops,   *)
(* and a fault the firmware does not return from.                          *)
Final == {"kernel_start", "hang", "halt", "fault"}

BootInit ==
  /\ pc = "font" /\ result = "EFI_ERROR"
  /\ fwmap \in Maps /\ current = FALSE
  /\ owned = {} /\ temp = NoPage
  /\ size = 0 /\ capacity = 0
  /\ events = 0 /\ marks = [reserve |-> 0, query |-> 0]
  /\ storage = [block_capacity |-> 0, bitmap_words |-> 0] /\ counted = 0
  /\ mmap = <<>> /\ pos = 1 /\ words_left = 0 /\ blocks = <<>>

-----------------------------------------------------------------------------
(* The firmware's side: external, as the loader uses it.                   *)

LoaderPages(map) ==
  UNION {Pages(map[i]) : i \in {k \in DOMAIN map : map[k].Type = "EfiLoaderData"}}

(* The pages that a map describes, each with its type.                     *)
Layout(map) == UNION {Pages(map[i]) \X {map[i].Type} : i \in DOMAIN map}
LayoutOf    == [map \in Maps |-> Layout(map)]

(* A change of the map makes every key given out before it stale.          *)
BecomesMap(map) == /\ Len(map) <= Len(fwmap) + SplitCost
                   /\ block_count(map) <= block_count(fwmap) + SplitCost
                   /\ fwmap' = map
                   /\ current' = (current /\ map = fwmap)

(* The type of one page changes.                                           *)
Retype(page, type) ==
  LET layout == {entry \in LayoutOf[fwmap] : entry[1] # page} \cup {<<page, type>>}
  IN  \E map \in Maps : LayoutOf[map] = layout /\ BecomesMap(map)

(* AllocatePool(EfiLoaderData): a page of conventional memory, or room in  *)
(* a page the pool already has.                                            *)
AllocatePool(page) == /\ page \in Conventional(fwmap) \cup LoaderPages(fwmap)
                      /\ Retype(page, "EfiLoaderData")

(* FreePool: the page leaves the pool only if no other buffer is in it.    *)
FreePool(page) == \/ Retype(page, "EfiLoaderData")
                  \/ page \notin owned /\ Retype(page, "EfiConventionalMemory")

(* The firmware allocates or frees memory of its own.                      *)
FirmwareEvent ==
  /\ pc \notin Final \cup {"build"}
  /\ events < MaxEvents
  /\ events' = events + 1
  /\ \E map \in Maps \ {fwmap} :
        /\ owned \cup ({temp} \ {NoPage}) \subseteq LoaderPages(map)
        /\ BecomesMap(map)
  /\ UNCHANGED <<buildVars, pc, result, owned, temp, size, capacity, marks>>

-----------------------------------------------------------------------------
(* The loader up to reserve_pmm.                                           *)

Goto(next) == pc' = next

(* efi_malloc of a buffer that is never freed, at label; without memory    *)
(* the loader hangs.                                                       *)
Keep(label, next) ==
  /\ pc = label
  /\ \/ \E page \in Conventional(fwmap) \cup LoaderPages(fwmap) :
           AllocatePool(page) /\ owned' = owned \cup {page} /\ Goto(next)
     \/ UNCHANGED <<fwmap, current, owned>> /\ Goto("hang")
  /\ UNCHANGED <<buildVars, result, temp, size, capacity, events, marks>>

(* efi_fread keeps one buffer if it succeeds and none if it fails.         *)
ReadFont   == Keep("font", "kernel")
ReadKernel == Keep("kernel", "system")
NewSystem  == Keep("system", "rsdp2")

(* A firmware without an ACPI 2.0 table stops the loader.                  *)
get_rsdp2 ==
  /\ pc = "rsdp2"
  /\ Goto("framebuffer") \/ Goto("hang")
  /\ UNCHANGED <<buildVars, result, fwmap, current, owned, temp, size, capacity,
                 events, marks>>

(* framebuffer_init reads through the pointer get_gop returns, NULL too if *)
(* there is no graphics output: that read faults or yields garbage.        *)
framebuffer_init ==
  /\ pc = "framebuffer"
  /\ Goto("query") \/ Goto("fault")
  /\ UNCHANGED <<buildVars, result, fwmap, current, owned, temp, size, capacity,
                 events, marks>>

-----------------------------------------------------------------------------
(* getEFIMemoryMap, called by reserve_pmm.                                 *)

QuerySucceeds ==
  /\ pc = "query" /\ temp # NoPage /\ Len(fwmap) <= size
  /\ result' = "EFI_SUCCESS" /\ size' = Len(fwmap) /\ current' = TRUE
  /\ storage' = pmm_storage(fwmap) /\ counted' = ram_frames(fwmap)
  /\ marks' = [marks EXCEPT !.reserve = events]
  /\ Goto("free_provisional")
  /\ UNCHANGED <<mmap, pos, words_left, blocks, fwmap, owned, temp, capacity, events>>

(* The firmware reports the size it needs.                                 *)
QueryTooSmall ==
  /\ pc = "query" /\ Len(fwmap) > size
  /\ result' = "EFI_BUFFER_TOO_SMALL" /\ size' = Len(fwmap)
  /\ IF temp # NoPage THEN Goto("free_small") ELSE Goto("alloc_map")
  /\ UNCHANGED <<buildVars, fwmap, current, owned, temp, capacity, events, marks>>

QueryFails ==
  /\ pc = "query"
  /\ result' = "EFI_ERROR"
  /\ IF temp # NoPage THEN Goto("free_failed") ELSE Goto("hang")
  /\ UNCHANGED <<buildVars, fwmap, current, owned, temp, size, capacity, events, marks>>

(* The three places that free the buffer.                                  *)
FreeMap(label, next) ==
  /\ pc = label
  /\ FreePool(temp) /\ temp' = NoPage /\ Goto(next)
  /\ UNCHANGED <<buildVars, result, owned, size, capacity, events, marks>>

(* Two mistakes: "=" for "+=", so the buffer never grows with the map, and *)
(* "-=".                                                                   *)
GrownSizeFixed  == RetrySlack
GrownSizeShrunk == size - RetrySlack

(* mmap->size += 2 * mmap->descriptorSize                                  *)
GrownSize == size + RetrySlack

AllocMap ==
  /\ pc = "alloc_map"
  /\ size' = GrownSize
  /\ \/ \E page \in Conventional(fwmap) \cup LoaderPages(fwmap) :
           /\ AllocatePool(page) /\ temp' = page
           /\ result' = "EFI_SUCCESS" /\ Goto("query")
     \/ /\ result' = "EFI_ERROR" /\ Goto("hang")
        /\ UNCHANGED <<fwmap, current, temp>>
  /\ UNCHANGED <<buildVars, owned, capacity, events, marks>>

(* A mistake: the error path returns without freeing.                      *)
getEFIMemoryMapLeaking ==
  \/ QuerySucceeds \/ QueryTooSmall \/ AllocMap \/ FreeMap("free_small", "alloc_map")
  \/ pc = "free_failed" /\ Goto("hang")
       /\ UNCHANGED <<buildVars, result, fwmap, current, owned, temp, size, capacity,
                      events, marks>>
  \/ QueryFails

getEFIMemoryMap == \/ QuerySucceeds \/ QueryTooSmall \/ QueryFails \/ AllocMap
                   \/ FreeMap("free_small", "alloc_map")
                   \/ FreeMap("free_failed", "hang")

(* reserve_pmm frees the provisional map and allocates the storage it      *)
(* computed from it.                                                       *)
reserve_pmm == \/ getEFIMemoryMap
               \/ FreeMap("free_provisional", "alloc_storage")
               \/ Keep("alloc_storage", "final_query")

-----------------------------------------------------------------------------
(* The final memory map and ExitBootServices.                              *)

(* A size query with a NULL buffer: "too small", with the size, or a       *)
(* failure, which leaves size and descriptorSize 0.  Nobody looks at the   *)
(* status: a failure goes on with a buffer of no bytes.                    *)
FinalQuery ==
  /\ pc = "final_query"
  /\ \/ /\ size' = Len(fwmap) /\ capacity' = Len(fwmap) + MapSlack
        /\ marks' = [marks EXCEPT !.query = events]
     \/ size' = 0 /\ capacity' = 0 /\ UNCHANGED marks
  /\ Goto("final_alloc")
  /\ UNCHANGED <<buildVars, result, fwmap, current, owned, temp, events>>

FinalAlloc == Keep("final_alloc", "get_map")

(* A mistake: the size is reset once, before the loop.                     *)
OfferedSizeStale == IF result = "EFI_INVALID_PARAMETER" THEN size ELSE capacity

(* mmap.size = map_capacity, at the head of the loop.                      *)
OfferedSize == capacity

(* A mistake: a retry takes a new key and keeps the old map.               *)
GetFinalMapOnce ==
  /\ pc = "get_map" /\ Len(fwmap) <= OfferedSize
  /\ mmap' = IF result = "EFI_INVALID_PARAMETER" THEN mmap ELSE fwmap
  /\ size' = Len(fwmap) /\ current' = TRUE
  /\ result' = "EFI_SUCCESS" /\ Goto("exit")
  /\ UNCHANGED <<storage, counted, pos, words_left, blocks,
                 fwmap, owned, temp, capacity, events, marks>>

GetFinalMap ==
  /\ pc = "get_map" /\ Len(fwmap) <= OfferedSize
  /\ mmap' = fwmap /\ size' = Len(fwmap) /\ current' = TRUE
  /\ result' = "EFI_SUCCESS" /\ Goto("exit")
  /\ UNCHANGED <<storage, counted, pos, words_left, blocks,
                 fwmap, owned, temp, capacity, events, marks>>

(* The map outgrew the buffer, or any other error: the loader hangs.       *)
GetFinalMapFails ==
  /\ pc = "get_map"
  /\ \/ Len(fwmap) > OfferedSize /\ result' = "EFI_BUFFER_TOO_SMALL" /\ size' = Len(fwmap)
     \/ result' = "EFI_ERROR" /\ UNCHANGED size
  /\ Goto("hang")
  /\ UNCHANGED <<buildVars, fwmap, current, owned, temp, capacity, events, marks>>

ExitSucceeds ==
  /\ pc = "exit" /\ current
  /\ result' = "EFI_SUCCESS" /\ Goto("build")
  /\ pos' = 1 /\ words_left' = storage.bitmap_words /\ blocks' = <<>>
  /\ UNCHANGED <<storage, counted, mmap, fwmap, current, owned, temp, size, capacity,
                 events, marks>>

(* A stale key is EFI_INVALID_PARAMETER: try again with a new map.         *)
ExitStaleKey ==
  /\ pc = "exit" /\ ~ current
  /\ result' = "EFI_INVALID_PARAMETER" /\ Goto("get_map")
  /\ UNCHANGED <<buildVars, fwmap, current, owned, temp, size, capacity, events, marks>>

ExitFails ==
  /\ pc = "exit"
  /\ result' = "EFI_ERROR" /\ Goto("halt")
  /\ UNCHANGED <<buildVars, fwmap, current, owned, temp, size, capacity, events, marks>>

-----------------------------------------------------------------------------

BuildStep == pc = "build" /\ build_pmm /\ UNCHANGED bootVars

EnterKernel ==
  /\ pc = "build" /\ Built
  /\ Goto("kernel_start")
  /\ UNCHANGED <<buildVars, result, fwmap, current, owned, temp, size, capacity,
                 events, marks>>

(* for(;;) cli; hlt                                                        *)
Halted == pc \in Final /\ UNCHANGED vars

efi_main ==
  \/ ReadFont \/ ReadKernel \/ NewSystem \/ get_rsdp2 \/ framebuffer_init
  \/ reserve_pmm \/ FinalQuery \/ FinalAlloc
  \/ GetFinalMap \/ GetFinalMapFails
  \/ ExitSucceeds \/ ExitStaleKey \/ ExitFails
  \/ BuildStep \/ EnterKernel

BootNext == efi_main \/ FirmwareEvent \/ Halted

(* The processor keeps executing the loader.  Nothing is assumed of the    *)
(* firmware but that it changes the map finitely often (MaxEvents).        *)
BootSpec == BootInit /\ [][BootNext]_vars /\ WF_vars(efi_main)

-----------------------------------------------------------------------------

(* The state of the boot; the sizes passed to GetMemoryMap never wrap.     *)
BootTypeOK ==
  /\ pc \in Final \cup {"font", "kernel", "system", "rsdp2", "framebuffer", "query",
                        "free_small", "free_failed", "alloc_map", "free_provisional",
                        "alloc_storage", "final_query", "final_alloc", "get_map",
                        "exit", "build"}
  /\ result \in {"EFI_SUCCESS", "EFI_ERROR", "EFI_BUFFER_TOO_SMALL",
                 "EFI_INVALID_PARAMETER"}
  /\ fwmap \in Maps
  /\ current \in BOOLEAN
  /\ owned \subseteq Nat
  /\ temp \in Nat \cup {NoPage}
  /\ size \in Nat /\ capacity \in Nat
  /\ events \in 0 .. MaxEvents
  /\ marks \in [reserve: 0 .. MaxEvents, query: 0 .. MaxEvents]

(* "never hands out a frame that's in use", across the race with the       *)
(* firmware: whatever the firmware does between GetMemoryMap and           *)
(* ExitBootServices, the frames on offer are conventional memory of the    *)
(* map that was in force when Boot Services ended, and none of them holds  *)
(* the kernel, the font, the system record, the map or the PMM itself.     *)
OffersOnlyUnusedMemory ==
  pc \in {"build", "kernel_start"} =>
     \A i \in DOMAIN blocks : /\ FreeFrames(blocks[i]) \subseteq Conventional(fwmap)
                              /\ FreeFrames(blocks[i]) \cap owned = {}

(* More changes by the firmware itself, after the size was taken, than the *)
(* slack of the final buffer allows next to its own allocation.            *)
SlackUsedUp == SplitCost * (1 + events - marks.query) > MapSlack

(* "slack for this allocation and for ExitBootServices retries": efi_main  *)
(* gives up on the final map only if the map is larger than the buffer,    *)
(* and if there is a buffer at all that takes more than (MapSlack - 2) / 2 *)
(* changes by the firmware, however often ExitBootServices was tried.  The *)
(* buffer has no bytes only if the size query failed: no map is empty.     *)
HangsOnlyIfSlackUsedUp ==
  pc = "hang" /\ result = "EFI_BUFFER_TOO_SMALL" =>
     /\ Len(fwmap) > capacity
     /\ capacity = 0 \/ SlackUsedUp

(* "Extra pm_block slots for descriptors that appear between the           *)
(* provisional map and the final one": freeing the provisional map and     *)
(* allocating the storage and the final map cost at most six blocks.  If   *)
(* the rest of the slack covers the firmware's own changes, the kernel     *)
(* learns of every region; if there were none, all of its RAM is managed.  *)
SlackCoversBoot ==
  pc = "kernel_start" /\ SplitCost * (3 + events - marks.reserve) <= BlockSlack =>
     /\ Len(blocks) = block_count(mmap)
     /\ events = marks.reserve => ~ RanOut

(* getEFIMemoryMap and reserve_pmm give the provisional buffer back on     *)
(* every path, the failing ones too.                                       *)
ProvisionalMapFreed ==
  pc \in Final \cup {"alloc_map", "alloc_storage", "final_query", "final_alloc",
                     "get_map", "exit", "build"} => temp = NoPage

(* The two retry loops end: the boot reaches the kernel or stops with an   *)
(* error.                                                                  *)
BootEnds == <>(pc \in Final)
=============================================================================
