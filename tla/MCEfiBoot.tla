------------------------------ MODULE MCEfiBoot ------------------------------
(***************************************************************************)
(* Instances of EfiBoot for TLC.  Every page of a small machine has a      *)
(* type; the memory maps have one descriptor for each maximal run of pages *)
(* of one type.  A page of the pool between two pages of the pool splits   *)
(* their descriptor when it is freed, and one of conventional memory       *)
(* between two of its kind when it is allocated.                           *)
(***************************************************************************)
EXTENDS EfiBoot

CONSTANTS
  Loader,   \* pages that are always in the pool
  Unused,   \* pages that are conventional memory while there is any
  Free      \* pages that are conventional memory or in the pool

LastPage == Cardinality(Loader \cup Unused \cup Free) - 1

RunStarts(t) == {p \in 0 .. LastPage : p = 0 \/ t[p] # t[p - 1]}

Describe(t) ==
  LET starts  == RunStarts(t)
      Nth(n)  == CHOOSE p \in starts : Cardinality({q \in starts : q <= p}) = n
      End(n)  == IF n = Cardinality(starts) THEN LastPage + 1 ELSE Nth(n + 1)
  IN  [n \in 1 .. Cardinality(starts) |->
         [Type |-> t[Nth(n)], PhysicalStart |-> Nth(n),
          NumberOfPages |-> End(n) - Nth(n)]]

TypesWith(pool) ==
  [p \in 0 .. LastPage |-> IF p \in pool THEN "EfiLoaderData"
                           ELSE "EfiConventionalMemory"]

(* The pool has any of the free pages, or all there is.                    *)
Pools == {Loader \cup pages : pages \in SUBSET Free} \cup {0 .. LastPage}

MCMemoryMaps == {Describe(TypesWith(pool)) : pool \in Pools}
=============================================================================
