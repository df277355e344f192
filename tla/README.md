# A TLA+ verification of echOS

echOS is a small x86-64 operating system: a UEFI loader (`efi-stage/`), a kernel
(`kernel/`) and a small C library (`lib/`).  This directory holds TLA+ modules that model
it, TLC configurations that check them on small instances, and TLAPS proofs of the
properties that matter most.  The core is what everything else in the system stands
on: which frames of physical memory may be handed out, who decides that, and when, and
which addresses the kernel's page tables give them.  Around it are the loader's file
reading, the kernel's descriptor tables, its console, the walks over ACPI tables and the
library.

Contents: [the system](#the-system), [the modules](#the-modules-and-the-code),
[the runs](#the-runs), [the proofs](#the-proofs), [findings](#findings),
[what is not modelled](#what-is-not-modelled), [the plan](#the-plan).

## The system

The machine boots in two stages that are linked together and run on one processor.

1. `efi_main` (the loader) reads the font and the kernel file, finds the ACPI root
   pointer, looks up the framebuffer, reserves storage for the physical memory manager,
   fetches the final memory map, leaves Boot Services, fills the memory manager from
   that map and calls `kernel_start`.
2. `kernel_start` prints to the framebuffer, allocates two frames for the GDT, loads it,
   builds identity-mapping page tables from the list of memory blocks and loads CR3.

Interrupts are off from `ExitBootServices` on and there is one processor, so nothing in
the kernel runs concurrently.  The only concurrency of the system is in the loader: until
Boot Services end, firmware timers and drivers may allocate and free memory, and so
change the memory map, between any two calls of the loader.

### Components

| Component | State | Operations | Uses |
|---|---|---|---|
| Physical memory manager (`kernel/memory/physical.c`) | list of `pm_block`: address, `frames_total`, `frames_free`, bitmap or NULL, type | `frame_allocate`, `frames_allocate`, `frame_free` | the blocks `build_pmm` made |
| Building of the manager (`efi-stage/efi_pmm.c`) | `pmm_storage`: block slots and bitmap words | `reserve_pmm`, `build_pmm` | memory map, `efi_malloc` |
| Boot stage (`efi-stage/main.c`, `efi_mmap.c`, `efi_malloc.c`) | memory map buffer, its size and key, the buffers it allocated | `efi_main`, `getEFIMemoryMap` | firmware |
| File reading (`efi-stage/efi_fs.c`) | open volume and file handles, buffer | `efi_fread` | firmware, `efi_malloc` |
| Boot video (`efi-stage/efi_video.c`) | `framebuffer_t` | `framebuffer_init` | firmware |
| Paging (`kernel/memory/paging.c`) | four-level tables in frames of their own | `init_pml4`, `map_page`, `map_large_page`, `map_range` | `frame_allocate` |
| Heap (`kernel/memory/heap.c`) | none of its own | `get_heap` | `frames_allocate`, `map_range`, `frame_free` |
| Kernel start (`kernel/kernel.c`) | `colonel_t` | `kernel_start`, `init_paging` | all of the kernel |
| Descriptors (`kernel/gdt.c`, `gdt_flush.s`, `idt.c`) | packed table entries, segment registers | `gdt_entry_create`, `gdt_entry_add`, `gdt_flush`, `idt_init`, `idt_entry_add`, `idt_set`, dumps | a frame for the GDT |
| ACPI (`kernel/acpi/`) | firmware tables, read only | `xsdt_get_table`, `madt_get_processor_local_apic_count` | `memcmp` |
| Page table dump (`kernel/memory/paging_debug.c`) | none | `dump_pte`, `dump_pde`, `dump_pdpe` | console |
| Console (`kernel/drivers/ssfn_fb.c`) | cursor, pitch, font | `ssfn_setup`, `ssfn_put`, `ssfn_printf` | `vsprintf`, `ssfn_putc` of `include/ssfn.h` |
| Library (`lib/`) | none; `lib/stack.c` keeps a stack | string functions, `itoa`, `vsprintf`, stack | |

### What is hard in it

- **A race with the firmware.**  The map that `GetMemoryMap` returned may be out of date
  when `ExitBootServices` is called.  The loader retries on a stale key; a retry must
  offer the whole buffer again, must rebuild from the new map, and must end.  The size of
  that buffer comes from a call whose status nobody looks at.
- **Sizes taken from one state and used in another.**  `reserve_pmm` sizes blocks and
  bitmap words from a provisional map; `build_pmm` fills them from the final one.  Every
  allocation between the two, the storage itself included, may split a region.
- **Boundaries.**  The last word of a bitmap is partial; a run may be exactly as long as
  the free count, or end at the last frame of a block; frame 0 is special; addresses wrap
  in the last page of the address space; `reverse_string` needs a byte more than it has.
- **Long call sequences.**  `frame_allocate` does not test a block's map for NULL: it is
  safe only because the counter of an unmanaged block stays 0 through every sequence of
  calls, double frees and frees of foreign addresses included.
- **Partial failure.**  A buffer allocated in an earlier round of a retry loop, handles of
  volumes that did not have the file, or frames mapped half way, must be released exactly
  once.
- **What one stage leaves to the next.**  A block list that was cut short is safe to
  allocate from, but it is also the list of what the kernel maps.
- **Narrow and mixed integers.**  The cursor is an `int16_t` compared with a `size_t`; a
  pitch is kept in 16 bits; lengths the firmware wrote are subtracted from unsigned.
- **Leftovers.**  The GDT is filled in a frame that was not cleared; hexadecimal numbers are
  written to a buffer without a terminating NUL.

The hazards, each with its source line and with the properties that would catch it, are
listed in `PROJECT.json`.

### What makes each component correct

- *Physical memory manager*: counters agree with bitmaps; no frame is handed out twice,
  lost, or taken from outside a block; a request is refused only if it cannot be served.
- *Building*: never more blocks or words than were reserved; only conventional memory of
  the final map is on offer; storage suffices unless the map really grew.
- *Boot stage*: the frames on offer are unused at the moment Boot Services end, whatever
  the firmware did; the slacks last as long as their comments say; loops end; temporary
  buffers are freed.
- *Paging and heap*: a successful call translates every page of its range to what was
  asked for and touches no other page, a call fails only for the two reasons its comment
  names, every table has a frame of its own, no upper level takes away what a leaf
  grants, and every call returns (but for one kind, see [the runs](#the-runs)).
- *File reading*: on failure nothing is allocated and nothing is open; on success the
  buffer is the whole file, from the first volume that has it.
- *Kernel start*: when CR3 is loaded, everything the kernel touches, its own tables
  included, is identity-mapped, and page 0 is not; its frames come from unused memory.
- *Descriptors*: a selector or vector finds the entry that was meant, whole, whatever the
  memory held before; packing loses and mixes no bits.
- *ACPI*: a well-formed table gives the right answer; a walk leaves a table only if its
  Length is wrong, and ends unless a record is empty.
- *Console*: characters are drawn with their glyphs, inside the screen and not over each
  other.
- *Library*: copies, comparisons, numerals and formatted text are what their reference
  definitions say.

## The modules and the code

| Module | Models | Notes |
|---|---|---|
| `PmmBlocks` | `physical.h` | the data structures, shared by loader and kernel |
| `FrameAllocator` | (abstract) | what the manager promises its callers |
| `PhysicalMemory` | `physical.c` | one action per public function; implements `FrameAllocator` |
| `BuildPmm` | `efi_pmm.c` | sizing as operators, one action per way through the loop of `build_pmm` |
| `EfiBoot` | `main.c`, `efi_mmap.c`, `efi_malloc.c`, `reserve_pmm` | the loader and the firmware; extends `BuildPmm` |
| `AddressSpace` | (abstract) | what page tables are for: a partial function from pages to frames |
| `Paging` | `paging.c`, `heap.c` | over the abstract allocator; implements `AddressSpace` |
| `KernelBoot` | `kernel.c` | `kernel_start` and `init_paging`; extends `Paging` |
| `Handover` | `main.c` 137-140 | `BuildPmm` and `KernelBoot` composed |
| `EfiFread` | `efi_fs.c` | the call that `EfiBoot` takes as one step |
| `CString` | `lib/string/mem*.c`, `str*.c` | on a small memory, one step per iteration |
| `Itoa` | `lib/string/itoa.c` | one step per digit |
| `Vsprintf` | `lib/stdio/vsprintf.c` | one step per iteration of the loop over the format |
| `Console` | `ssfn_fb.c`, `ssfn_putc` of `ssfn.h` | one step per character |
| `Acpi` | `xsdt.c`, `madt.c` | one step per entry |
| `Bits` | | words as sets of bits, for the two modules below |
| `Gdt` | `gdt.c`, `gdt_flush.s`, `kernel.c` 65-95 | one step per entry and per register |
| `Idt` | `idt.c` | one action per function |
| `Routines` | | `EfiFread`, `CString`, `Itoa`, `Vsprintf`, `Console`, `Gdt`, `Idt` and `Acpi` side by side |
| `MCPhysicalMemory`, `MCBuildPmm`, `MCEfiBoot`, `MCPaging`, `MCHandover`, `MCRoutines` | | constants for TLC |
| `PmmBlocks_proofs`, `PhysicalMemory_proofs`, `BuildPmm_proofs`, `EfiBoot_proofs`, `Paging_proofs`, `PagingRefinement_proofs`, `Handover_proofs`, `Routines_proofs` | | theorems about the module that each is named after; `Routines_proofs` about each of the eight parts and about `Routines` |

### PmmBlocks

Addresses are counted in frames: every address that reaches this code is a multiple of
`frame_size`, so its multiplications and divisions cancel.  A bitmap is the set of the
indexes of its 1 bits; bit *b* of word *w* has index `WordBits * w + b`.  The word size is
a constant, so that a partial last word occurs in small instances; it is 64 in the code.
`FreeBits` deliberately includes the bits past the end of a block: if one of them ever
became 0, `frame_allocate_from_block` would find it.  `frames_free` is unsigned:
`Minus` and `Plus` wrap at `Wrap`, which is 2^64 in the code.

### PhysicalMemory

| Code | Model |
|---|---|
| `physical_memory->blocks` | `blocks` |
| `frame_allocate`, `frame_allocate_from_block` | first block that `Offers`, its lowest clear bit; or failure |
| `frames_allocate`, `frames_allocate_from_block`, `frame_is_used` | first block that `OffersRun`, the lowest start of a free run; or failure |
| `frame_free`, `frame_free_from_block` | first block with the address; no effect on unmanaged blocks and on foreign addresses |
| 0xFFFFFFFFFFFFFFFF | `NoFrame` |

The word-by-word and bit-by-bit loops are replaced by what they compute, the least clear
bit and the least start of a run.  `held`, `reserved` and `last` are history variables.
Calls are atomic, because nothing runs concurrently with them.  The block lists to start
from are a constant, `Pmms`, about which the module assumes what `BuildPmm` establishes
(`HandsOverConsistentBlocks`).  Callers may pass any address of `Freeable` to
`frame_free` at any time: frames they do not hold, frames that are free, frames of
unmanaged blocks and addresses outside every block.

### BuildPmm

`pmm_storage` is the sizing of `reserve_pmm`.  One step is one iteration of the loop of
`build_pmm`: an empty descriptor (`continue`), no slot left (`break`), a block without a
bitmap, a reclaimable block, a usable block.  `words_left` is the local of that name;
`counted` keeps the `ram_frames` of the provisional map, for the properties.  The two
memory maps are arbitrary members of `MemoryMaps`; the only assumption on a map is that
it describes no page twice.  Block attributes are left out, since no code reads them.

### EfiBoot

`pc` is where `efi_main` is, with the calls of `reserve_pmm` and `getEFIMemoryMap`
inlined.  One step is one call into the firmware and the loader's computation up to the
next call.  The firmware is external and modelled from how the loader uses it:

- `fwmap` is the map in force, `current` says whether the key that the loader has is the
  key of that map; any change makes it stale;
- `AllocatePool(EfiLoaderData)` gives a page of conventional memory or room in a page
  the pool already has; `FreePool` may or may not give a page back;
- `FirmwareEvent` changes the map in any way that leaves the loader's own pages alone, up
  to `MaxEvents` times, between any two steps of the loader before Boot Services end;
- a single change adds at most two descriptors, and two that are not empty (`SplitCost`): a
  region is split in three;
- every call may fail with an error of its own.

For one call this goes unnoticed: `efi_main` ignores the status of the size query before its
loop (`main.c:101-103`).  If that fails, `size` and `descriptorSize` stay 0, the buffer is of no
bytes (`capacity = 0`), and the first `GetMemoryMap` of the loop finds it too small
(`FinalQuery`).  `HangsOnlyIfSlackUsedUp` therefore has two cases, a buffer that the map outgrew and
no buffer at all, and says that there is no third; the comment in the loop ("EFI_BUFFER_TOO_SMALL
means the map outgrew the slack reserved above", `main.c:114`) knows only the first.

Sizes of maps are counted in descriptors.  A read through the NULL pointer that
`get_gop` returns on a machine without graphics output either faults or continues with
garbage; both are allowed.  `efi_fread` is one step here (a buffer that is kept, or
failure); `EfiFread` shows that this is what is left of it.

### Paging

Page tables use frames, and nothing else of the allocator: so `Paging` takes it as
`FrameAllocator`, which `PhysicalMemory` is proved to implement, and adds only that the
lowest free frames are taken (`Take`), as both functions search upwards.

| Code | Model |
|---|---|
| memory of a frame used as a table | `tables[frame]`, a function from `Slots` to entries; `tables` is defined exactly for the frames `alloc_table` returned |
| a 64-bit entry | a record: the present and page-size bits, the address, and the flag bits a caller can pass |
| `next_table` | `Create` or `Follow`; `NoNextTable` when it returns NULL |
| `map_page`, `map_large_page` | one step per call of `next_table`, one for the leaf |
| `map_range` | `Enter` (rounding), `Loop`, `Advance`, `FallBack`, `Return` |
| `get_heap` | `get_heap`, the steps of `map_range`, and `ReleaseHeap`, one step per `frame_free` |

The steps are this small because a call can run out of frames between any two of them, and
what it has written by then stays.  Addresses are counted in parts of a page, `PageSize`
parts to a page, so that an address can be unaligned.  `Wrap` is the end of the address
space: in the code an address is 64 bits wide of which the tables look at 48, and the
model lets both end at the same place, the top of the canonical upper half.  A physical
address is counted modulo `PhysicalWrap`, 2^52 in the code: the bits above are masked off
when an entry is written, and nothing else looks at them.  The walk
of the processor (`LeafOf`, `Translate`) is external.  Upper entries never have the
page-size bit set by this code, so `next_table` returns NULL for a large page at no level;
the test is in the model and without effect, as in the code: `map_page` looks at the
large page itself before it calls `next_table`.

`AddressSpace` has one function from pages to frames.  A call may set the pages it was asked
for, one or several at a time, to the frames it was asked for, and nothing else; it may
fail at any time; if it succeeds, all of them are set.

### KernelBoot

The actions of `kernel_start` and `init_paging`, on a `system` that is given: a list of blocks and a
framebuffer.  Their calls of `frame_allocate`, `init_pml4` and `map_range` are the actions of
`Paging`.  The five entries of the GDT and `gdt_flush` have a module of their own, `Gdt`, and
the messages are left out; they touch nothing but the GDT's own frames and the screen.
`fb_length` is taken as a number (the code multiplies the dimensions of the screen).

### Handover

`Build` is an instance of `BuildPmm`, whose variables stay with the composition; the rest
is `KernelBoot`.  `EnterKernel` is the call of `kernel_start`: the system it is given has the
blocks that `build_pmm` made and one of `Framebuffers`, and the allocator of the kernel is the
bitmaps of those blocks.  `Paging` takes the lowest free frame, `frame_allocate` the lowest of
the first block that has one; the two agree if the usable regions are sorted by address, and
the instance has only such maps.  The proofs do not depend on it: of `Take` they use only that the
abstract allocator granted the frames.

### EfiFread

One step is one call into the firmware, and each may fail.  What a machine has is a
sequence of volumes, each of which has no protocol, cannot be opened, does not have the file
or has it.  The firmware's side is two sets, of what is `open` and of what is allocated
(`pool`).  The variable `file` is not kept: `efi_fread` leaves the loop by `break` exactly
when it is set.

### CString, Itoa and Vsprintf

`CString` keeps a memory, the function that runs on it with its arguments, and a counter.
`strcpy` is `memcpy` with a length from `strlen`, and `strcmp` the loop of `memcmp` with
another length, as in the code.  A `char` is signed.  What the memory was before is kept
for the properties.  Calls are restricted to ranges inside the memory, and a string is one
that has a NUL; ranges may overlap.  `Itoa` represents a character by its distance from `'0'`.  Negation
of the smallest int is undefined in C; both outcomes that compilers produce are allowed.

`reverse_string` copies a string of *n* characters and its NUL into an array of *n* bytes
(`itoa.c:8-9`): **every conversion of a number other than 0 writes one byte behind `temp`**.  What
that byte hits is up to the build.  The array is variable in length, and a compiler for x86-64
rounds the room it makes for one up to 16 bytes, the alignment of the stack, so the byte is
padding unless *n* is a multiple of 16, and then it is the first byte of what the function saved
before.  `Terminate` has both outcomes: with padding (`Padded`, for arrays of multiples of
`StackAlign`) the reversal goes on, without it the state may also be `"corrupt"`, from which
nothing is known.  `HitsPadding`, a part of `WritesNumeral`, says that decimal conversions, the
only ones with a caller, never get there: "-2147483648" has 11 characters.  Another base would (a
number of 16 binary digits does, and so does the one of 8 in the instance).  No comment or test says
anything of this array, so there is no violating run for it; it is wrong all the same, and `temp`
should have a byte more.

In `Vsprintf` a character of the output is one of the format or one of the text of an
argument, so that it can be seen which argument a character came from; `temp` is modelled
with its contents, because `x32toa` and `x64toa` leave what is behind their digits.
`Reading` is the reference: what the format says in the sense of `printf`, read from left to right,
with the arguments it takes and the longest number so far; a hexadecimal number after a longer one
is not ok, because the end of the longer one would show.

### Console

One step is `ssfn_put` of one character: `ssfn_putc`, the line feed at the edge, and the
margins.  A font has its table of characters, compressed as in the file format: entries are
glyphs or gaps, a gap of *n* characters is stored as *n* - 1, and the entries together stand for
every code up to `LastCode` (`Encodes`, an assumption on the fonts).  A glyph has fragments, sets
of pixels; what the code skips (fragments of other kinds, empty ones) a font does not have
here.  `drawn` is the set of byte offsets that were written, from the cursor and the pitch
with the integer widths of the code.  The kernel leaves `ssfn_dst.w`, `.h` and `.bg` at 0, so the
renderer's tests for clipping and its painting of a background have no effect and are left
out.

### Acpi

A MADT is a Length and a sequence of records, an XSDT a Length and the signatures of the
tables it points to.  `walk` becomes `outside` when a walk goes on behind the last record or
entry: what it would read there is not known.

### Gdt and Idt

Words are sets of the numbers of their 1 bits, so that shifting and masking are exact for
64 bits.  `Gdt` fills the table entry by entry, as `kernel_start` does, and loads GDTR, the data
selectors and CS in the order of `gdt_flush`; how the processor reads a descriptor is
external.  `probe` holds arguments of `gdt_entry_create` other than those of `kernel_start`.
`Idt` allows its functions in any order after `idt_init`, since nothing calls them yet;
`malloc`'s memory and the `reserved` word of an entry, which is never assigned, are arbitrary.
`dump_idt_entry` extends bit 31 of a handler's address over the upper half (`idt.c:67`); the model
has that, but `%x` prints 32 bits, so `DumpShowsGates` compares those and it does not show.

### Routines

One processor and no interrupts: one of the eight parts runs and the others rest in a fixed
state, in which none of their actions is enabled.  They share no variable, so that a run of
`Routines` explores each of them alone.

## The runs

| Run | Shows | Bounds |
|---|---|---|
| `physical_memory` | `TypeOK`, `CountersExact`, `OwnershipExact`, `ZeroNeverHandedOut`, refinement of `FrameAllocator` | words of 2 bits; block lists with usable, reclaimable and unmanaged blocks, partial words and a hole between blocks; run lengths 0 to 3; frees of any address but 0 |
| `build_pmm` | `BuildTypeOK`, `HandsOverConsistentBlocks`, `OffersOnlyConventional`, `RunsOutOnlyIfMapGrew` | words of 2 bits, 1 spare block; all pairs of maps made from four shapes (an empty region, a partial word, a hole, frame 0) with every choice of three types, and one map with every type of block |
| `efi_boot` | `BootTypeOK`, `OffersOnlyUnusedMemory`, `HangsOnlyIfSlackUsedUp`, `SlackCoversBoot`, `ProvisionalMapFreed`, `BootEnds` | 10 pages, 2 always in use and 4 that may be or not, or all of them in use: 17 maps of 1 to 10 descriptors; up to 2 changes by the firmware; slacks of 2 and 6 descriptors instead of 8 and 16 |
| `paging` | `PagingTypeOK`, `TablesDistinct`, `LeafDecides`, `HeapBacked`, `FailsForAReason`, refinement of `AddressSpace`, `CallsReturn` | tables of 2 entries, so 16 pages and large pages of 2; pages of 2 parts; 9 frames in two regions, all free, with gaps, or none; five ranges and two heaps in any order, one of which ends where the last page begins |
| `kernel_boot` | `IdentityMapped`, `ReachesItself`, `KernelTakesOnlyUnused`, `RamStaysMappedIfListed`, `KernelEnds` | `Handover`; tables of 3 entries, so 81 pages; storage sized for any of 29 maps and filled from any of them, so lists with slots to spare, just complete, and cut short; regions that begin inside a large page, every kind of second region, too little memory for the GDT, for the top table, for the others; framebuffers of whole and of partial pages, and none |
| `routines`: `EfiFread` | `ReleasesOnce` (`NothingLeaks`, `UsesOnlyWhatIsOpen`), `ReadsFirstFile` (`BufferIsFile`, `FirstVolumeWins`), `FreadReturns` | every machine of up to 4 volumes |
| `routines`: `CString` | `CopiedExactly`, `ComparesStrings` (`StopsAtNul`, `ComparesFirstDifference`) | every memory of 5 bytes of 4 values, two of them negative as `char`; every pair of ranges |
| `routines`: `Itoa` | `WritesNumeral` (`IsNumeral`, `FitsTemp`, `HitsPadding`) | every int of 8 bits, three bases; arrays of multiples of 8 bytes, which base 2 fills and base 10 does not |
| `routines`: `Vsprintf` | `FormatsText` (`PrintsFormat`, `StaysInFormat`) | up to three pieces in every order, with and without a character between them; numbers shorter and longer than a hexadecimal one |
| `routines`: `Console` | `ShowsItsGlyph`, `DrawsInOrder` (`DrawsInside`, `MovesOn`) | four screens (just wide enough, with a longer scanline, too narrow, with a pitch of 0), four fonts; a cursor of 6 bits, so that it wraps |
| `routines`: `Gdt` | `DescriptorsHold` (`SelectorsFit`, `RoundTrips`) | the real widths; words that end at the borders of fields |
| `routines`: `Idt` | `GatesHold` (`GatesAreLastAdded`, `DumpShowsGates`) | 3 entries instead of 256, three handlers |
| `routines`: `Acpi` | `WalksRight` (`AnswersRight`, `LeavesOnlyIfLengthWrong`), `EndsOrSticks` | up to three records of lengths 0, 1, 8, 12 or three entries; Length right, off by one, by half an entry, less than the header |
| `handover_cut` | a violation of `RamStaysMapped` | as `kernel_boot` |
| `reclaim_zero` | a violation of `ZeroNeverHandedOut`, see [below](#findings) | one reclaimable block at address 0, freed frame by frame |
| `remap` | a violation of `KeepsMappings` | one page, two frames |
| `top_range` | a violation of `SuccessMeansMapped` | the last page |
| `heap_release` | a violation of `ReleasedMeansUnmapped` | a heap in two page tables, frames for one |
| `heap_unaligned` | a violation of `HeapBacked` | a heap that begins in the middle of a page |

A property that is a conjunction has its named parts in parentheses.

Some properties have a condition where the code has a known limit: text
below the last line of the screen and screens narrower than the margins (`DrawsInOrder`), a hexadecimal
number after a longer one and a conversion right behind another (`FormatsText`), a MADT with an empty
record (`EndsOrSticks`), tables with a wrong Length (`WalksRight`), a size query that failed
(`HangsOnlyIfSlackUsedUp`), a range that ends inside the last page of the address space
(`CallsReturn`).  They do not catch those cases; they say that there is no other.  No format string
of the kernel is one of them.

The last of these is worth a word.  If a range ends inside the last page, `vaddr` is 0 after that
page, which is below `end` again (`paging.c:150`), and the loop of `map_range` goes on through the
whole address space and round again, mapping what nobody asked for, for ever or until it runs out
of frames.  The model does the same: with such a range in `Ranges`, TLC finds behaviours in which
the call never returns.  `CallsReturn` is therefore for `end <= Wrap - PageSize`, which includes the
ranges whose `end` wraps to 0 (`top_range` shows what those do instead).

Why the bounds are enough: with two bits per word, three frames already make a partial
word, and five frames two whole words and a partial one; the unbounded claims are proved
(below), so these runs serve to show that the definitions say what they should, and that
each property can be broken.  In `efi_boot` the slacks are chosen around the number of
descriptors that the loader's own allocations can add, and the pages so that the map can
outgrow both.  A provisional map of two descriptors (three pages in use, seven not) gets 8
slots.  Without a change by the firmware the final map has up to 8 descriptors, exactly the slots
there are, and one slot less breaks `SlackCoversBoot`: that is its mutant, `StorageOneShort`.
With one change it has up to 10 and the block list is cut short, so the condition of the
property is needed.  The final buffer, with a slack of 2, is outgrown by one change and never
by the loader's own allocation.  Two firmware events allow a stale key twice in a row and a
change in the middle of each loop.  In `paging` a call needs up
to five tables and there are nine frames, so that after a call or two the next one
runs out of them, at any level and in the middle of any range; the ranges share tables,
overlap with the same frames and with other ones, and meet large pages from both
sides.  Two entries per table are the least with which tables are shared and not
shared; every level then has its own tables, and more entries add more of the same.
For `Console` the properties about drawing are for screens that hold the font
(`HoldsFont`: the glyphs of the characters that are printed, whatever else the font has) and for
the lines that fit; the other screens and lines are there for
`ShowsItsGlyph` and to show that the conditions are needed.  For `Vsprintf` a format of three
conversions has each of them after each other, which is all that `temp` can carry over.

Each property has a *mistake* operator beside the definition it replaces (for instance
`StorageWithoutPartialWords` beside `pmm_storage`): a plausible slip in that code, under
which TLC finds the property violated.

**Fairness.**  `BootSpec` assumes weak fairness of the loader as a whole, `efi_main`: the
processor keeps executing it.  Nothing is assumed of any single branch, so a call that
can fail may always fail.  Of the firmware nothing is assumed but that it changes the map
finitely often: with a map that changes for ever between `GetMemoryMap` and
`ExitBootServices`, the retry loop of `efi_main`, which has no bound, would not end.
`Paging` assumes weak fairness of `Running`, the steps of a call that has begun, since
nothing else runs on the processor, and none of the calls; `Handover` of `Step`, the loader and
then the kernel; `Routines` of a read of a file or a walk over a table that has begun.

Deadlock is checked wherever the code never stops: the loader's and the kernel's halt loops
are steps of the models (`Halted`, `KernelHalted`), so `efi_boot`, `kernel_boot` and also
`physical_memory` and `paging` check it.  The behaviours of `build_pmm` and `routines` are calls that
return, or end with the bound on lines or a fault.

## The proofs

All theorems are for every value of the constants, in particular for 64-bit words and 2^64.

| Theorem | Statement |
|---|---|
| `PhysicalMemory_proofs!TypeCorrect` | `Spec => []TypeOK` |
| `PhysicalMemory_proofs!CountersStayExact` | `Spec => []CountersExact` |
| `PhysicalMemory_proofs!OwnershipStaysExact` | `Spec => []OwnershipExact` |
| `PhysicalMemory_proofs!ZeroProtected` | `0 \notin Freeable` gives `Spec => []ZeroNeverHandedOut` |
| `PhysicalMemory_proofs!Refinement` | `Spec => ImplementsFrameAllocator` |
| `BuildPmm_proofs!BuildTypeCorrect` | `Spec => []BuildTypeOK` |
| `BuildPmm_proofs!HandsOverConsistent` | `Spec => []HandsOverConsistentBlocks` |
| `BuildPmm_proofs!OffersConventional` | `Spec => []OffersOnlyConventional` |
| `BuildPmm_proofs!ReservationSuffices` | `Spec => []RunsOutOnlyIfMapGrew` |
| `EfiBoot_proofs!BootTypeCorrect` | `BootSpec => []BootTypeOK` |
| `EfiBoot_proofs!BootOffersOnlyUnused` | `BootSpec => []OffersOnlyUnusedMemory` |
| `EfiBoot_proofs!BootHangsOnlyIfSlackUsedUp` | `BootSpec => []HangsOnlyIfSlackUsedUp` |
| `EfiBoot_proofs!BootFreesProvisionalMap` | `BootSpec => []ProvisionalMapFreed` |
| `EfiBoot_proofs!BootSlackSuffices` | `BootSpec => []SlackCoversBoot` |
| `Paging_proofs!PagingTypeCorrect` | `Spec => []PagingTypeOK` |
| `Paging_proofs!TablesStayDistinct` | `Spec => []TablesDistinct` |
| `Paging_proofs!LeafAlwaysDecides` | `Spec => []LeafDecides` |
| `PagingRefinement_proofs!FailuresHaveAReason` | `CallsBelowTop` gives `Spec => FailsForAReason` |
| `PagingRefinement_proofs!HeapsAreBacked` | `CallsBelowTop` and `HeapsAligned` give `Spec => []HeapBacked` |
| `PagingRefinement_proofs!PagingImplementsAddressSpace` | `CallsBelowTop` gives `Spec => ImplementsAddressSpace` |
| `Handover_proofs!KernelFramesUnused` | `HandoverSpec => []KernelTakesOnlyUnused` |
| `Handover_proofs!KernelMapsIdentity` | `MemoryBelowTop` and `FramebuffersFit` give `HandoverSpec => []IdentityMapped` |
| `Handover_proofs!KernelReachesItself` | the same two give `HandoverSpec => []ReachesItself` |
| `Handover_proofs!ListedRamStaysMapped` | the same two give `HandoverSpec => []RamStaysMappedIfListed` |
| `Routines_proofs!FreadReleasesOnce` | `FreadSpec => []ReleasesOnce` |
| `Routines_proofs!FreadFindsFirstFile` | `FreadSpec => []ReadsFirstFile` |
| `Routines_proofs!GdtDescriptorsHold` | `GdtSpec => []DescriptorsHold` |
| `Routines_proofs!IdtGatesHold` | `IdtSpec => []GatesHold` |
| `Routines_proofs!AcpiWalksRight` | `AcpiSpec => []WalksRight` |
| `Routines_proofs!StringsCopiedExactly` | `StringSpec => []CopiedExactly` |
| `Routines_proofs!StringsCompared` | `StringSpec => []ComparesStrings` |
| `Routines_proofs!ItoaWritesNumeral` | `ItoaSpec => []WritesNumeral` |
| `Routines_proofs!VsprintfFormatsText` | `VsprintfSpec => []FormatsText` |
| `Routines_proofs!ConsoleShowsItsGlyph` | `ConsoleSpec => []ShowsItsGlyph` |
| `Routines_proofs!ConsoleDrawsInOrder` | `ConsoleSpec => DrawsInOrder` |
| `Routines_proofs!RoutinesAreRight` | `Spec` of `Routines` implies the properties of the eleven theorems above |

**Assumptions.**  Word size and `Wrap` are positive; the blocks handed to the allocator
are consistent and disjoint (`PmmsAssumption`, which `HandsOverConsistent` establishes
for what `build_pmm` makes); no memory map describes a page twice
(`MemoryMapsAssumption`; `Handover` states the same of its own constants in
`LoaderAssumption` and `MapsAssumption`).  `ZeroProtected` needs that nobody frees frame 0, and
`reclaim_zero` shows that this is needed.  The assumptions of the routines give the arguments
their types: the words of `Gdt` have 32 bits, the gates of `Idt` the widths of the parameters,
tables of ACPI are smaller than 2^64 bytes, and `CString` is called on ranges of a memory of
consecutive addresses.  `TempAssumption` says that an array of `StackAlign` bytes has room for the
decimal digits of the smallest int, a sign and a NUL, as 16 bytes have for 32 bits, and that
`temp` of `vsprintf` is no smaller; `SizeAssumption` that physical addresses are wider than the
tables reach, as 52 bits are wider than 48; `FontsAssumption` that the table of a
font encodes its glyphs, which is the file format of the font; and `HoldsFont`, a condition in the
properties themselves, that a screen is large enough for what is printed: a glyph of an ASCII
character is at most 15 pixels wide with the kernel's margin of 10.

Four hypotheses are not assumptions of a module but stand in the theorems that need them:

- `CallsBelowTop`: calls of `map_range` and `get_heap` end below the last page of the address
  space, and the physical addresses they map to, and all frames, two pages below the end of what
  an entry can hold.  The run `top_range` shows what happens to a call that ends with the address
  space; one that ends inside the last page may not return at all.
- `HeapsAligned`: heaps begin at a page.  The run `heap_unaligned` is about one that does not.
- `MemoryBelowTop` and `FramebuffersFit`: the regions that the kernel maps and the framebuffer
  end below the last page, and the framebuffer, if there is one, does not begin in page 0.

All four hold for what the kernel does on real machines, where physical addresses end far below
2^64 and a framebuffer is not at address 0.

**The allocator.**  The inductive invariant joins the type invariant, consistency of
every block, disjointness of the blocks and exactness of ownership.  None of them is
inductive alone.  That `Minus` does not wrap needs the counter to be the number of clear
bits; that a freed bit belongs to the block needs the address to be in its range; that a
step changes the ownership of the claimed frames only needs the blocks to be disjoint.
The lemmas about single blocks (claiming clear bits, freeing one bit) are stated for an
arbitrary consistent block, and each action then needs one of them.  For the refinement,
a grant is mapped to a grant of the region of the block it came from.  The interesting
case is refusal: a block with a free run of the given length has at least that many clear
bits, so the test of the counter in `frames_allocate` never skips a block that could
serve.

**The building.**  `BuildInv` says of the blocks made so far that they are consistent,
offer conventional memory only, and are disjoint from each other *and from every
descriptor that is still to come*; without the last part disjointness is not preserved.
The lemma `PaddingExact` is about the partial last word: what `~0ULL << (n % 64)` leaves
clear is exactly `0 .. n - 1`.  For `ReservationSuffices` the invariant `StorageInv` adds,
for maps that did not grow, that every descriptor passed so far has its block, that every
block of RAM has a bitmap, and that the words used waste less than one word per block:
`WordBits * used + blocks <= RAM passed + WordBits * blocks`.  `ReservationArithmetic`
shows that then the words of the next block fit in `ram_frames / 64 + block_capacity`.
The comment "each block wastes at most one partial word" is right, and because the
division rounds down it is exact: there is no word to spare.

**The boot stage.**  `BootInv` adds to the type invariant where the provisional buffer may
exist (`TempInv`), that buffers that outlive the loader are loader data of the map in force
whatever the firmware does to the rest (`OwnedInv`), and what a *current* key means: the map
that `efi_main` has is the map in force (`MapInv`).  That is why a boot that gets past
`ExitBootServices` builds from the right map; from there on it is `StorageInv` of `BuildPmm`.
The two slacks are counted: `CapacityInv` and `SlotsInv` bound the growth of the map since the
size was taken, or the slots were counted, by two for each change by the firmware and each call
of the pool by the loader; a capacity of 0 is that of a size query that failed.
`BootSlackSuffices` then is the arithmetic of the comment at `efi_pmm.c`: three calls of the pool cost at most six slots.

**Paging.**  `TreeInv` says that there is an assignment of levels to tables under which every
link goes one level down, every table but the top one has a link to it, and *only one*.  The
last part is what makes a write into one table invisible in all the others.  With it come the
flags: a link is writable, and for the user if anything below it is, so the leaf decides; a walk
in progress has made its way so far usable (`WalkOf`), since the leaf is written last.

**Paging as an address space.**  `MapInv` says how far a call has come: the pages before the
current one have the frames that were asked for, the physical address has kept pace with the
virtual one, and the walk is on the way of its page (`OnWay`).  The core is a set of lemmas on
what one write does to the translation: a new table translates nothing, a link translates
nothing new, a leaf changes its own page, or the pages of a large one, and no other, which
needs that the way of a page is determined by its indexes (`TreeInv` again).  A step of the
tables thus maps to a step of `AddressSpace` that sets at most the asked pages, or to a stutter;
returning 0 maps to success because by `ProgressInv` all pages are set when the loop ends.

**The handover.**  `ListInv` relates the block list to the final map: every block describes a
region, and either there is one for each region passed or there are fewer than regions.
`TakenInv` keeps what is free, a table or in the GDT inside what was on offer, and with
`OffersConventional`'s argument gives `KernelFramesUnused`, for any maps.  `KernelInv` joins
the invariants of paging with where the kernel is: each call is an identity mapping of exactly
the pages of the current block, what is mapped is mapped to itself, and the blocks passed so
far are mapped.  That the kernel reaches its own tables follows because its frames lie in
blocks that it maps.

**The routines.**  `FreadInv` says for each label of `efi_fread` which handles are open, which
buffers exist, and that no earlier volume has the file.  `GdtInv`: the entries added so far are
in their places, and registers are loaded after all five.  `IdtInv`: from `idt_init` on every entry
holds its gate.  `AcpiInv`: `pos` is where the current record begins, the records before it are
counted, no entry passed matches.  `StringInv`: what memory holds after *n* bytes of a copy, where
a range that moves up into itself repeats with the period of the shift; and that the bytes compared
so far agree.

**Numerals.**  `ItoaInv` says that the digits written so far, lowest first, and what is left of
`num` make up the number (`DigitsInv`); that halfway through the reversal the string is made of
two known halves, since the copy still holds what has been overwritten (`ReverseInv`); and that *n*
digits leave at most what *n* divisions by ten leave of the longest int (`FitsInv`), so that there
are between one and `StackAlign` - 1 characters when the copy is made: the buffer suffices, and
the byte behind the copy is padding.  `ReadsBack` is Horner's rule on the reversed string.  The int without a negation
is in `FitsTemp`: it has as many digits as its negation would have.

**Formatted output.**  `VsprintfInv` says that there is a reading of the format from left to right
with which `output` and `taken` agree at `i`, and that `temp` holds a NUL behind the longest number
so far and nothing but NULs after it.  That is what makes a hexadecimal number end where it should
although `x32toa` writes no NUL (`ConvertsWhole`), and the reason for the condition on longer numbers in
`Reading`.  `ReadsConversion` shows that the code's scan ahead, of up to three characters, steps over
exactly the conversion; `StaysInFormat` is proved for every format, ok or not.

**The console.**  `GlyphFound` is a counting argument: the codes of the entries before an entry are
an initial segment of all codes, so the number at which the walk of `ssfn_putc` arrives, the sum of
what the entries stand for, is the code of the entry.  For the order of drawing `CursorInv` ties
the cursor to the lines begun so far, *y* = margin + lines * height, and keeps *x* five pixels away
from the margin; then the `int16_t` never wraps, the unsigned comparison of `ssfn_put` decides as a
signed one would, and a glyph that fits the font lies on the pixels of the screen.  Beyond the last
line the invariant says nothing, and neither does the property.

**The routines together.**  `RoutinesInv` says that the part that runs keeps its invariant and the
others rest; `OneRuns` that a step of `Routines` is a step of that part and changes nothing else.
So `RoutinesAreRight` is about the same specification as the run `routines`.

**Induction over data.**  `Starts`, the offsets of the records of a MADT, is a recursive function.
That it exists and unfolds is proved from the library's `WFMin` by the least counterexample
(lemmas `LeastNumber`, `Induction`, `StartsFacts`), because theorems with an operator as a
parameter cannot be instantiated here; a property is a set of numbers instead.  The lemma `Recursion`
does the same once for all functions whose value at *n* is a given function of *n* and the value at
*n* - 1: `LeftOfLongest`, `ValueUpTo`, `CodeOf` and `Reading` are such functions.

**Only model-checked.**  The liveness properties `BootEnds`, `CallsReturn`, `KernelEnds`,
`FreadReturns` and `EndsOrSticks`: liveness under fairness is outside of what TLAPS proves here.
Every invariant and every other action property or refinement that a passing run checks has a
theorem.

## Findings

Six places where the code does not do what a comment says.  Each has a run
that ends in a violation.  Only `handover_cut` can be reached by what the loader and
`kernel_start` do today, and only if the firmware's final map has more regions than the slack
allows for; the others wait for callers.  Three more have no run of their own and are part of a
property that passes: the size query whose failure goes unnoticed ([above](#efiboot)), the call that
ends inside the last page ([above](#the-runs)) and the byte that `reverse_string` writes behind
its array ([above](#cstring-itoa-and-vsprintf)).

- **Frame 0 can be handed out** (`reclaim_zero`).  `efi_pmm.c:154` says "Never hand out
  physical address 0: callers can't tell it from NULL."  The bit of frame 0 is set only
  while a *usable* block is filled.  If frame 0 lies in loader or boot services memory, its
  block is reclaimable; the comment at line 81 says that such blocks "can be freed into
  later", and once a kernel does so `frame_allocate` returns 0.
- **A mapping is replaced without a word** (`remap`).  `paging.h:61` promises -1 if "the
  range overlaps an incompatible existing mapping".  Only a small page inside a large one
  is compared; a small page over a small one, or a large one over a large one, replaces
  the entry and returns 0 (`paging.c:121`, `140`).
- **The last page cannot be mapped** (`top_range`).  A range that ends at the top of the
  address space has `end` 0 (`paging.c:146`): nothing is mapped and 0 is returned.
- **Freed frames stay mapped** (`heap_release`).  `heap.c:6` says that on failure "the frames
  are released (page tables created along the way are kept)".  Entries for the pages that
  were mapped before the failure are kept too, and map frames that are free.
- **An unaligned heap is one page too long** (`heap_unaligned`).  `get_heap` rounds the
  length to whole pages, but not the address; `map_range` rounds the address down, but not
  the end.  One page more than was allocated is mapped, to the frame that follows, which
  may be free or someone else's.
- **A cut list leaves the kernel unmapped** (`handover_cut`).  When `build_pmm` has no slot left
  it stops (`efi_pmm.c:97`), and `efi_pmm.c:83` says that this "wastes memory but never hands
  out a frame that's in use".  That is so (`KernelTakesOnlyUnused`); but the same list is what
  `init_paging` maps (`kernel.c:22`), "RAM of every kind the firmware reported", and a region that
  was dropped may hold the kernel or its stack when CR3 is loaded.  `RamStaysMappedIfListed`
  says that this is the only way, and `SlackCoversBoot` of `efi_boot` when it cannot happen.

## What is not modelled

- `get_pmm_size`, `getPageCountByType`, `get_graphics_info`: no callers.
- `gdt_get`, `idt_get`, `get_cr`: they read a register, and nothing uses them.
- `dump_pmm`, `compare_pmm`: printing only, and no callers.
- `paging_debug.c`: it prints an entry bit by bit, keeps no state and has no callers.  Two of its
  lines differ from `paging.h` on a reading: the mask of line 9 has bits 12 to 47 where
  `PHYS_ADDR_MASK` has 12 to 51, and line 12 prints "User accessible: False" when
  `USER_SUPERVISOR_BIT` is set.
- `include/ssfn.h` but for `ssfn_putc`: a third-party header, of which the kernel compiles that
  one function and the preprocessor leaves out the rest.
- Fields of ACPI tables, and the flags of `mmap` in `paging.h`, that no code reads.
- Which hexadecimal digits `x32toa` and `x64toa` write; that they write a fixed number of them is
  modelled.
- `lib/stack.c`: two functions of two assignments, without a test of the bounds, a caller, or
  code that makes a stack; there is no behaviour to check them against.
- `lib/c.c`, `crt0.s`, `exit.c`: start-up glue.

## The plan

All components with state of their own are modelled.  Every safety property and every refinement
that a passing run checks is proved for all values of the constants; what TLC alone shows is that
things end (`BootEnds`, `CallsReturn`, `KernelEnds`, `FreadReturns`, `EndsOrSticks`), for want of a prover
for liveness, and the six violations.  When the kernel gets interrupts, `Routines` is where it is
stated that one routine runs at a time, and is what would have to change.
