----------------------------- MODULE MCHandover -----------------------------
(***************************************************************************)
(* Instances of Handover for TLC: tables of three entries, so 81 pages and *)
(* large pages of three.  Every pair of a provisional and a final map, so  *)
(* that the list is complete with slots to spare, just complete, and cut   *)
(* short, with or without words for its bitmaps; the kernel may be in any  *)
(* region.  Usable regions are sorted by address, as Paging takes the      *)
(* lowest free frame, and frame_allocate one of the first block.           *)
(***************************************************************************)
EXTENDS Handover

Desc(type, start, pages) ==
  [Type |-> type, PhysicalStart |-> start, NumberOfPages |-> pages]

Layout(starts, types) ==
  [k \in 1 .. Len(starts) - 1 |-> Desc(types[k], starts[k], starts[k + 1] - starts[k])]

Free    == "EfiConventionalMemory"
RamType == {Free, "EfiLoaderData"}

(* Few and many regions, with frame 0 and without; a region that begins    *)
(* inside a large page, of every kind; too little memory for the GDT, for  *)
(* the top table and for the others; a region at 0 that is listed last.    *)
MCMemoryMaps ==
  {Layout(<<0, 12, 14>>, <<t, "EfiLoaderData">>) : t \in RamType}
  \cup {Layout(<<0, 9, 12, 14>>, <<Free, t, u>>) : t \in RamType, u \in RamType}
  \cup {Layout(<<1, 2, 10, 12, 14>>, <<t, Free, u, "EfiLoaderData">>) :
          t \in RamType \cup {"EfiACPIMemoryNVS"}, u \in RamType \cup {"Other"}}
  \cup {Layout(<<0, 4, 4, 14>>, <<"EfiLoaderData", "Other", Free>>)}
  \cup {Layout(<<0, n, n + 4, n + 9>>, <<Free, t, Free>>) :
          n \in {1, 3, 8, 10}, t \in {"EfiACPIMemoryNVS", "EfiMemoryMappedIO"}}
  \cup {Layout(<<0, n>>, <<Free>>) : n \in {1, 2, 3, 4}}
  \cup {<<Desc(Free, 6, 14), Desc("EfiLoaderData", 0, 1)>>}

(* Whole pages, partial ones at both ends, several of them, and none.      *)
MCFramebuffers == [start: {120}, length: {6, 18}]
                  \cup {[start |-> 121, length |-> 6], [start |-> 0, length |-> 0]}
=============================================================================
