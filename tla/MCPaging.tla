------------------------------ MODULE MCPaging ------------------------------
(***************************************************************************)
(* Instances of Paging for TLC: tables of two entries, so 16 pages and     *)
(* large pages of two, and pages of two parts.                             *)
(***************************************************************************)
EXTENDS Paging

Range(vaddr, paddr, length, flags) ==
  [vaddr |-> vaddr, paddr |-> paddr, length |-> length, flags |-> flags]

RW == {"READ_WRITE"}

(* An identity mapping from page 1 on that begins and ends with small      *)
(* pages, part of a page, two ranges for the user of which one overlaps    *)
(* the identity mapping, and an empty range.                               *)
MCRanges == { Range(2, 2, 12, RW), Range(9, 9, 2, {"USER"}), Range(8, 20, 8, RW),
              Range(12, 12, 8, {"READ_WRITE", "USER"}), Range(4, 4, 0, RW) }

(* Two heaps that share a page; the second ends where the last one begins. *)
MCHeaps == {[vaddr |-> 24, length |-> 3], [vaddr |-> 26, length |-> 4]}

Frames == {1, 2, 3, 4, 5, 6, 8, 9, 10}
MCRegions == {{1, 2, 3, 4, 5, 6}, {8, 9, 10}}
MCFreeSets == {Frames, Frames \ {3, 9}, {}}

(* One range for the same page twice, with different frames.               *)
RemapRanges == {Range(2, 2, 2, RW), Range(2, 8, 2, RW)}

(* The last page of the address space.                                     *)
TopRanges == {Range(30, 30, 2, RW)}

(* A heap in two page tables, with frames for one of them.                 *)
SplitHeaps == {[vaddr |-> 6, length |-> 4]}
FewFrames == {{1, 2, 3, 4, 5, 6}}

(* A heap that does not begin at a page.                                   *)
UnalignedHeaps == {[vaddr |-> 21, length |-> 2]}
=============================================================================
