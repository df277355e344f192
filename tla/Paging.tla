------------------------------- MODULE Paging -------------------------------
(***************************************************************************)
(* The kernel's page tables, kernel/memory/paging.c, and the heap on top   *)
(* of them, kernel/memory/heap.c.  Frames come from the allocator, which   *)
(* appears here as its abstract specification; only that it takes the      *)
(* lowest free frames is added.  One step is one call of next_table or one *)
(* write of an entry, so that a call that runs out of frames half way      *)
(* leaves behind what the code leaves behind.                              *)
(*                                                                         *)
(* Addresses are counted in parts of a page, PageSize parts to a page.  An *)
(* address space is as large as the tables can describe: addresses are     *)
(* taken modulo 2^48 parts, which is what sign extension makes of them.    *)
(***************************************************************************)
EXTENDS Integers, FiniteSets

CONSTANTS
  Entries,   \* entries of a table: 512 in the code
  PageSize,  \* page_size: 4096 in the code
  PhysicalWrap,  \* 2^52: the entries have room for 52 bits of an address
  Regions,   \* the regions of the allocator: disjoint sets of frames
  FreeSets,  \* the sets of frames that may be free when paging is set up
  Ranges,    \* the arguments of map_range
  Heaps      \* the arguments of get_heap

flag == {"READ_WRITE", "USER"}

LargePage == PageSize * Entries
Wrap      == PageSize * Entries * Entries * Entries * Entries
VPages    == 0 .. Entries * Entries * Entries * Entries - 1

ASSUME SizeAssumption == /\ Entries \in Nat \ {0} /\ PageSize \in Nat \ {0}
                         /\ PhysicalWrap \in Nat /\ PhysicalWrap % LargePage = 0
                         /\ PhysicalWrap >= 2 * Wrap
ASSUME RegionsAssumption == /\ \A r \in Regions : r \subseteq Nat
                            /\ \A f \in UNION Regions : f * PageSize < PhysicalWrap
                            /\ \A f \in FreeSets : f \subseteq UNION Regions
ASSUME RangesAssumption ==
  Ranges \subseteq [vaddr: 0 .. Wrap - 1, paddr: 0 .. PhysicalWrap - 1, length: Nat,
                    flags: SUBSET flag]
ASSUME HeapsAssumption == Heaps \subseteq [vaddr: 0 .. Wrap - 1, length: Nat]

VARIABLES
  regions, free, held, last,  \* the allocator
  pml4,              \* system->pml4
  tables,            \* the contents of the frames that are tables
  pc,                \* the function that is running
  call,              \* its arguments
  at,                \* its local variables
  heap,              \* frames of the last get_heap, as long as it has them
  result             \* what the last call returned

allocator == <<regions, free, held, last>>
vars == <<allocator, pml4, tables, pc, call, at, heap, result>>

NoFrame == -1

Memory == INSTANCE FrameAllocator WITH Counts <- Nat, Freeable <- Nat

(* frame_allocate and frames_allocate are first-fit.                       *)
Take(op, count, first) ==
  /\ Memory!Grant(op, count)
  /\ last'.result = first
  /\ \A g \in free : g < first =>
       ~ \E r \in regions : g .. g + count - 1 \subseteq r \cap free

-----------------------------------------------------------------------------
(* Entries and the walk.                                                   *)

Slots == 0 .. Entries - 1
Empty == [present |-> FALSE, large |-> FALSE, frame |-> 0, flags |-> {}]
ZeroedTable == [i \in Slots |-> Empty]
Leaf(frame, flags, large) ==
  [present |-> TRUE, large |-> large, frame |-> frame, flags |-> flags]

(* The index of a virtual page at a level: 9 bits of the address each.     *)
Index(v, level) ==
  CASE level = 4 -> (((v \div Entries) \div Entries) \div Entries) % Entries
    [] level = 3 -> ((v \div Entries) \div Entries) % Entries
    [] level = 2 -> (v \div Entries) % Entries
    [] level = 1 -> v % Entries

(* get_pdp, get_pd, get_pt: the table an entry points to.                  *)
Below(t, i) ==
  IF t # NoFrame /\ tables[t][i].present /\ ~ tables[t][i].large
    THEN tables[t][i].frame ELSE NoFrame
Pdp(v) == Below(pml4, Index(v, 4))
Pd(v)  == Below(Pdp(v), Index(v, 3))
Pt(v)  == Below(Pd(v), Index(v, 2))

(* What the processor makes of the tables: external.                       *)
LeafOf(v) ==
  IF Pt(v) # NoFrame THEN tables[Pt(v)][Index(v, 1)]
  ELSE IF Pd(v) # NoFrame THEN tables[Pd(v)][Index(v, 2)]
  ELSE Empty

(* The frame that page v has in a large page that starts at frame.         *)
InLargePage(frame, v) == (frame \div Entries) * Entries + (v % Entries)

NotMapped == -1
Translate(v) ==
  LET e == LeafOf(v)
  IN  IF ~ e.present THEN NotMapped
      ELSE IF e.large THEN InLargePage(e.frame, v) ELSE e.frame

-----------------------------------------------------------------------------

NoCall  == [op |-> "none", vaddr |-> 0, paddr |-> 0, length |-> 0, flags |-> {}]
NoLocal == [vaddr |-> 0, paddr |-> 0, end |-> 0, level |-> 4, table |-> NoFrame]

(* Nothing is mapped yet, and the frames of unused are free.               *)
Start(managed, unused) ==
  /\ regions = managed /\ free = unused /\ held = {}
  /\ last = [op |-> "boot", arg |-> 0, result |-> NoFrame]
  /\ pml4 = NoFrame /\ tables = << >>
  /\ pc = "boot" /\ call = NoCall /\ at = NoLocal
  /\ heap = {} /\ result = 0

Init == \E unused \in FreeSets : Start(Regions, unused)

(* alloc_table for the top level; without a frame the kernel stops.        *)
init_pml4 ==
  /\ pc = "boot"
  /\ \/ \E f \in free : /\ Take("frame_allocate", 1, f)
                        /\ pml4' = f
                        /\ tables' = [t \in {f} |-> ZeroedTable]
                        /\ pc' = "idle"
     \/ /\ Memory!Refuse("frame_allocate", 1)
        /\ pc' = "halt"
        /\ UNCHANGED <<pml4, tables>>
  /\ UNCHANGED <<call, at, heap, result>>

(* map_range returns; get_heap frees its frames if that was a failure.     *)
Return(value) ==
  /\ result' = value
  /\ pc' = IF call.op = "get_heap" /\ value = -1 THEN "release" ELSE "idle"
  /\ at' = NoLocal

-----------------------------------------------------------------------------
(* next_table.                                                             *)

Page  == at.vaddr \div PageSize
Slot  == Index(Page, at.level)
Entry == tables[at.table][Slot]
Set(e) == [tables EXCEPT ![at.table][Slot] = e]

Link(next) == Leaf(next, {"READ_WRITE"} \cup (call.flags \cap {"USER"}), FALSE)

Create(next) ==
  /\ ~ Entry.present
  /\ Take("frame_allocate", 1, next)
  /\ tables' = [t \in DOMAIN tables \cup {next} |->
                  IF t = next THEN ZeroedTable ELSE Set(Link(next))[t]]

(* A mistake: an upper level that exists keeps its permissions.            *)
FollowUnchanged(next) ==
  /\ Entry.present /\ ~ Entry.large /\ next = Entry.frame
  /\ UNCHANGED <<tables, allocator>>

Follow(next) ==
  /\ Entry.present /\ ~ Entry.large /\ next = Entry.frame
  /\ tables' = Set([Entry EXCEPT !.flags = @ \cup (call.flags \cap {"USER"})])
  /\ UNCHANGED allocator

next_table ==
  /\ \E next \in free \cup DOMAIN tables :
        /\ Create(next) \/ Follow(next)
        /\ at' = [at EXCEPT !.level = @ - 1, !.table = next]
  /\ UNCHANGED <<pml4, pc, call, heap, result>>

(* next_table returns NULL.                                                *)
NoNextTable == IF Entry.present THEN Entry.large /\ UNCHANGED allocator
                                ELSE Memory!Refuse("frame_allocate", 1)

-----------------------------------------------------------------------------
(* The loop of map_range.                                                  *)

TryLarge == /\ at.vaddr % LargePage = 0 /\ at.paddr % LargePage = 0
            /\ at.end - at.vaddr >= LargePage

Walk(function) == /\ pc' = function
                  /\ at' = [at EXCEPT !.level = 4, !.table = pml4]

(* while(vaddr < end).                                                     *)
MoreToMap == at.vaddr < at.end

Loop ==
  /\ pc = "map_range"
  /\ \/ MoreToMap /\ TryLarge /\ Walk("map_large_page") /\ UNCHANGED result
     \/ MoreToMap /\ ~ TryLarge /\ Walk("map_page") /\ UNCHANGED result
     \/ ~ MoreToMap /\ Return(0)
  /\ UNCHANGED <<allocator, pml4, tables, call, heap>>

(* A mistake: the physical address moves on by one page, also after a      *)
(* large one.                                                              *)
AdvancePage(size) ==
  /\ pc' = "map_range"
  /\ at' = [at EXCEPT !.vaddr = (@ + size) % Wrap, !.paddr = (@ + PageSize) % PhysicalWrap]

(* vaddr and paddr move on and wrap.  Of paddr only the bits that an entry *)
(* has room for are ever looked at, so it is counted modulo PhysicalWrap.  *)
Advance(size) ==
  /\ pc' = "map_range"
  /\ at' = [at EXCEPT !.vaddr = (@ + size) % Wrap, !.paddr = (@ + size) % PhysicalWrap]

(* A mistake: "continue" whether or not map_large_page succeeded.          *)
Retry == pc' = "map_range" /\ UNCHANGED at

(* If map_large_page fails, map_page is next.                              *)
FallBack == Walk("map_page")

(* "Don't replace a page table"; a mistake would be to do so.              *)
NeverHoldsTable == FALSE
HoldsTable == Entry.present /\ ~ Entry.large

map_large_page ==
  /\ pc = "map_large_page"
  /\ \/ at.level > 2 /\ next_table
     \/ /\ at.level > 2 /\ NoNextTable
        /\ FallBack
        /\ UNCHANGED <<pml4, tables, call, heap, result>>
     \/ /\ at.level = 2 /\ HoldsTable
        /\ FallBack
        /\ UNCHANGED <<allocator, pml4, tables, call, heap, result>>
     \/ /\ at.level = 2 /\ ~ HoldsTable
        /\ tables' = Set(Leaf(at.paddr \div PageSize, call.flags, TRUE))
        /\ Advance(LargePage)
        /\ UNCHANGED <<allocator, pml4, call, heap, result>>

(* A page inside a large page is fine if it maps to the same frame.  Two   *)
(* mistakes: any frame is fine, none is.                                   *)
Covered  == at.level = 2 /\ Entry.present /\ Entry.large
AnyFrame == TRUE
NoFrameFits == FALSE
SameFrame == InLargePage(Entry.frame, Page) = at.paddr \div PageSize

(* pt is the last table; a mistake: there is one more.                     *)
AboveNothing == at.level > 0
AbovePt == at.level > 1

map_page ==
  /\ pc = "map_page"
  /\ \/ AbovePt /\ ~ Covered /\ next_table
     \/ /\ AbovePt /\ ~ Covered /\ NoNextTable
        /\ Return(-1)
        /\ UNCHANGED <<pml4, tables, call, heap>>
     \/ /\ Covered /\ SameFrame
        /\ Advance(PageSize)
        /\ UNCHANGED <<allocator, pml4, tables, call, heap, result>>
     \/ /\ Covered /\ ~ SameFrame
        /\ Return(-1)
        /\ UNCHANGED <<allocator, pml4, tables, call, heap>>
     \/ /\ ~ AbovePt
        /\ tables' = Set(Leaf(at.paddr \div PageSize, call.flags, FALSE))
        /\ Advance(PageSize)
        /\ UNCHANGED <<allocator, pml4, call, heap, result>>

-----------------------------------------------------------------------------
(* The calls.                                                              *)

RoundDown(address) == address - (address % PageSize)

Enter(op, c) ==
  /\ call' = [op |-> op, vaddr |-> c.vaddr, paddr |-> c.paddr,
              length |-> c.length, flags |-> c.flags]
  /\ at' = [NoLocal EXCEPT !.vaddr = RoundDown(c.vaddr), !.paddr = RoundDown(c.paddr),
                           !.end = (c.vaddr + c.length) % Wrap]
  /\ pc' = "map_range"
  /\ result' = 0

map_range(c) ==
  /\ pc = "idle"
  /\ Enter("map_range", c)
  /\ heap' = {}
  /\ UNCHANGED <<allocator, pml4, tables>>

(* The length is rounded up to whole pages, the address is not rounded.    *)
HeapPages(c) == (c.length + PageSize - 1) \div PageSize

get_heap(c) ==
  /\ pc = "idle"
  /\ \/ \E first \in free :
           /\ Take("frames_allocate", HeapPages(c), first)
           /\ heap' = first .. first + HeapPages(c) - 1
           /\ Enter("get_heap", [vaddr |-> c.vaddr, paddr |-> first * PageSize,
                                 length |-> HeapPages(c) * PageSize,
                                 flags |-> {"READ_WRITE"}])
     \/ /\ Memory!Refuse("frames_allocate", HeapPages(c))
        /\ heap' = {} /\ call' = NoCall /\ result' = -1
        /\ UNCHANGED <<pc, at>>
  /\ UNCHANGED <<pml4, tables>>

(* The frames are freed one by one; the entries that map them stay.        *)
ReleaseHeap ==
  /\ pc = "release"
  /\ \/ \E f \in heap : /\ \A g \in heap : f <= g
                        /\ Memory!Release(f)
                        /\ heap' = heap \ {f}
                        /\ UNCHANGED pc
     \/ heap = {} /\ pc' = "idle" /\ UNCHANGED <<allocator, heap>>
  /\ UNCHANGED <<pml4, tables, call, at, result>>

Running == init_pml4 \/ Loop \/ map_large_page \/ map_page \/ ReleaseHeap

(* for(;;) hlt                                                             *)
Halted == pc = "halt" /\ UNCHANGED vars

Next == \/ Running
        \/ \E c \in Ranges : map_range(c)
        \/ \E c \in Heaps : get_heap(c)
        \/ Halted

(* A call that has begun is executed; nobody has to call.                  *)
Spec == Init /\ [][Next]_vars /\ WF_vars(Running)
-----------------------------------------------------------------------------

entry == [present: BOOLEAN, large: BOOLEAN, frame: Nat, flags: SUBSET flag]

(* The state of the tables; table numbers and levels stay in range.        *)
PagingTypeOK ==
  /\ regions = Regions /\ free \subseteq UNION Regions /\ held \subseteq UNION Regions
  /\ pml4 \in Nat \cup {NoFrame}
  /\ DOMAIN tables \subseteq Nat
  /\ \A t \in DOMAIN tables : tables[t] \in [Slots -> entry]
  /\ pc \in {"boot", "idle", "map_range", "map_large_page", "map_page", "release", "halt"}
  /\ call \in [op: {"none", "map_range", "get_heap"}, vaddr: 0 .. Wrap - 1, paddr: Nat,
               length: Nat, flags: SUBSET flag]
  /\ at \in [vaddr: 0 .. Wrap - 1, paddr: Nat, end: 0 .. Wrap - 1, level: 1 .. 4,
             table: DOMAIN tables \cup {NoFrame}]
  /\ heap \subseteq UNION Regions
  /\ result \in {0, -1}

(* Every table has a frame of its own, which the allocator knows to be in  *)
(* use and which is in no heap: counted by level, there are as many tables *)
(* as entries that point to one, and the top.                              *)
PointsToTable(t, i) == tables[t][i].present /\ ~ tables[t][i].large
Links(level) == {link \in level \X Slots : PointsToTable(link[1], link[2])}
Targets(level) == {Below(link[1], link[2]) : link \in Links(level)}

TablesDistinct ==
  pml4 # NoFrame =>
    LET top == {pml4}
        pdps == Targets(top)
        pds == Targets(pdps)
    IN  /\ DOMAIN tables = top \cup pdps \cup pds \cup Targets(pds)
        /\ Cardinality(DOMAIN tables) =
             1 + Cardinality(Links(top)) + Cardinality(Links(pdps)) + Cardinality(Links(pds))
        /\ DOMAIN tables \subseteq held \ heap

(* "Upper levels are always present and writable; the leaf entry decides   *)
(* the real permissions": the processor grants what every level grants, so *)
(* no upper level may take away what the leaf grants, also when pages with *)
(* and without USER share tables.                                          *)
Uppers(v) ==
  {tables[pml4][Index(v, 4)], tables[Pdp(v)][Index(v, 3)]}
    \cup (IF Pt(v) # NoFrame THEN {tables[Pd(v)][Index(v, 2)]} ELSE {})

LeafDecides ==
  \A v \in VPages :
     LeafOf(v).present => \A e \in Uppers(v) :
        {"READ_WRITE"} \cup (LeafOf(v).flags \cap {"USER"}) \subseteq e.flags

(* The pages of the current call, and the frames they are to have.         *)
FirstPage == call.vaddr \div PageSize
Wanted ==
  {<<v, (call.paddr \div PageSize) + v - FirstPage>> :
     v \in {p \in VPages : p >= FirstPage /\ p * PageSize < call.vaddr + call.length}}

(* "-1 if a frame couldn't be allocated or the range overlaps an           *)
(* incompatible existing mapping": never for another reason.               *)
FailsForAReason ==
  [][result' = -1 /\ result # -1 /\ pc = "map_page" =>
       \/ free = {}
       \/ Translate(Page) # NotMapped /\ <<Page, Translate(Page)>> \notin Wanted]_vars

(* "Back length bytes at vaddr with physically contiguous frames": after a *)
(* successful get_heap every page of the range translates to a frame that  *)
(* was allocated for it.                                                   *)
HeapBacked ==
  pc = "idle" /\ call.op = "get_heap" /\ result = 0 =>
     \A pair \in Wanted : Translate(pair[1]) \in heap

(* A call returns: the loop of map_range ends, and so does the release of  *)
(* a heap's frames.  A range that ends inside the last page of the address *)
(* space is another matter: vaddr wraps to 0, which is below end again,    *)
(* and the loop goes round for ever, unless it runs out of frames.         *)
CallsReturn ==
  (pc \notin {"idle", "halt"} /\ at.end <= Wrap - PageSize) ~> (pc \in {"idle", "halt"})

(* Four levels, large pages and the order in which entries are written     *)
(* implement an address space: only pages of the range change, to what was *)
(* asked for, and a successful call has mapped the whole range.            *)
Abstract == INSTANCE AddressSpace WITH
              space  <- [v \in VPages |-> Translate(v)],
              busy   <- pc \notin {"boot", "idle", "halt"},
              wanted <- Wanted

ImplementsAddressSpace == Abstract!Spec

-----------------------------------------------------------------------------
(* What comments say and the code does not do.                             *)

(* "-1 if [...] the range overlaps an incompatible existing mapping": a    *)
(* page that is mapped keeps its frame.                                    *)
KeepsMappings ==
  [][\A v \in VPages : Translate(v) # NotMapped => Translate(v)' = Translate(v)]_vars

(* "0 on success": what was asked for is mapped then.                      *)
SuccessMeansMapped ==
  pc = "idle" /\ call.op = "map_range" /\ result = 0 =>
     \A pair \in Wanted : Translate(pair[1]) = pair[2]

(* "-1 on failure, in which case the frames are released (page tables      *)
(* created along the way are kept)": nothing but tables is left, so no     *)
(* page of the range translates to a frame that anyone may get next.       *)
ReleasedMeansUnmapped ==
  pc = "idle" /\ call.op = "get_heap" /\ result = -1 =>
     \A pair \in Wanted : Translate(pair[1]) \notin free
=============================================================================
