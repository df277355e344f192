--------------------------------- MODULE Gdt ---------------------------------
(***************************************************************************)
(* The segment descriptors: kernel/gdt.c, the part of kernel_start that    *)
(* fills the table, and gdt_flush.  One step is one call of gdt_entry_add  *)
(* or one instruction of gdt_flush that loads a register, as the processor *)
(* uses a descriptor from the moment its selector is loaded.  The table is *)
(* in a frame that frame_allocate does not clear.                          *)
(***************************************************************************)
EXTENDS Bits, Sequences

CONSTANTS
  FrameGarbage,  \* what an entry of the frame may hold before
  Words          \* words that gdt_entry_create may be given: of 32 bits

ASSUME WordsAssumption == Words \subseteq SUBSET (0 .. 31)

VARIABLES
  probe,          \* any arguments of gdt_entry_create, for RoundTrips
  gdt,            \* the entries in the frame at gdt->base
  gdt_limit,      \* gdt->limit
  entries_added,  \* calls of gdt_entry_add so far
  gdtr,           \* the limit in the GDTR, NotLoaded if it is the firmware's
  cs, data        \* the selectors in CS, and in DS, ES and SS

gdtVars == <<probe, gdt, gdt_limit, entries_added, gdtr, cs, data>>

gdt_entry_count == 5
NotLoaded == -1

gdt_entry_create(base, lim, access, flags) ==
  Shift(Field(base, 24, 31), 56) \cup Shift(Field(flags, 0, 3), 52)
  \cup Shift(Field(lim, 16, 19), 48) \cup Shift(access, 40)
  \cup Shift(Field(base, 16, 23), 32) \cup Shift(Field(base, 0, 15), 16)
  \cup Field(lim, 0, 15)

(* The arguments in kernel_start: limit, access and flags.                 *)
Segment == << [lim |-> {},      access |-> {},                 flags |-> {}],
              [lim |-> 0 .. 19, access |-> {1, 3, 4, 7},       flags |-> {1, 3}],
              [lim |-> 0 .. 19, access |-> {1, 4, 7},          flags |-> {2, 3}],
              [lim |-> 0 .. 19, access |-> {1, 3, 4, 5, 6, 7}, flags |-> {1, 3}],
              [lim |-> 0 .. 19, access |-> {1, 4, 5, 6, 7},    flags |-> {2, 3}] >>

GdtInit == /\ probe \in [base: Words, lim: Words, access: Words, flags: Words]
           /\ \E g \in FrameGarbage : gdt = [k \in 0 .. gdt_entry_count - 1 |-> g]
           /\ gdt_limit = gdt_entry_count * 8 - 1
           /\ entries_added = 0 /\ gdtr = NotLoaded /\ cs = NotLoaded /\ data = NotLoaded

(* A mistake: the table is filled from its second entry on.                *)
IndexAfterNull(n) == (n + 1) % gdt_entry_count
IndexOf(n)        == n

gdt_entry_add ==
  /\ entries_added < gdt_entry_count
  /\ LET s == Segment[entries_added + 1]
     IN  gdt' = [gdt EXCEPT ![IndexOf(entries_added)] =
                   gdt_entry_create({}, s.lim, s.access, s.flags)]
  /\ entries_added' = entries_added + 1
  /\ UNCHANGED <<gdt_limit, gdtr, cs, data>>

Lgdt == /\ entries_added = gdt_entry_count /\ gdtr = NotLoaded
        /\ gdtr' = gdt_limit /\ UNCHANGED <<gdt, gdt_limit, entries_added, cs, data>>

LoadData == /\ gdtr # NotLoaded /\ data = NotLoaded
            /\ data' = 16 /\ UNCHANGED <<gdt, gdt_limit, entries_added, gdtr, cs>>

(* lretq *)
LoadCode == /\ data # NotLoaded /\ cs = NotLoaded
            /\ cs' = 8 /\ UNCHANGED <<gdt, gdt_limit, entries_added, gdtr, data>>

gdt_flush == Lgdt \/ LoadData \/ LoadCode

GdtNext == (gdt_entry_add \/ gdt_flush) /\ UNCHANGED probe

GdtSpec == GdtInit /\ [][GdtNext]_gdtVars

-----------------------------------------------------------------------------
(* How the processor reads a descriptor: external.                         *)

BaseOf(e)   == Field(e, 16, 39) \cup Shift(Field(e, 56, 63), 24)
LimitOf(e)  == Field(e, 0, 15) \cup Shift(Field(e, 48, 51), 16)
AccessOf(e) == Field(e, 40, 47)
FlagsOf(e)  == Field(e, 52, 55)
Ring(e)     == Field(e, 45, 46)

Present(e)  == {47, 44} \subseteq e
LongCode(e) == Present(e) /\ 43 \in e /\ 53 \in e /\ 54 \notin e
Writable(e) == Present(e) /\ 43 \notin e /\ 41 \in e

-----------------------------------------------------------------------------

(* Whatever the frame held, a selector that gdt_flush has loaded names an  *)
(* entry inside the limit, of the right kind: 64-bit code of ring 0 in CS, *)
(* writable data of ring 0 in the others.  The two entries for user mode   *)
(* are of ring 3, and the null descriptor is null.                         *)
SelectorsFit ==
  /\ cs # NotLoaded => /\ cs + 7 <= gdtr
                       /\ LongCode(gdt[cs \div 8]) /\ Ring(gdt[cs \div 8]) = {}
  /\ data # NotLoaded => /\ data + 7 <= gdtr
                         /\ Writable(gdt[data \div 8]) /\ Ring(gdt[data \div 8]) = {}
  /\ gdtr # NotLoaded => /\ gdt[0] = {}
                         /\ LongCode(gdt[3]) /\ Ring(gdt[3]) = {0, 1}
                         /\ Writable(gdt[4]) /\ Ring(gdt[4]) = {0, 1}

(* The fields that gdt_entry_create splits and scatters come back whole,   *)
(* and no bit of one shows in another, whatever the arguments.             *)
RoundTrips ==
  LET access == probe.access \cap (0 .. 7)
      flags  == probe.flags \cap (0 .. 7)
      e == gdt_entry_create(probe.base, probe.lim, access, flags)
  IN  /\ BaseOf(e) = probe.base
      /\ LimitOf(e) = probe.lim \cap (0 .. 19)
      /\ AccessOf(e) = access
      /\ FlagsOf(e) = flags \cap (0 .. 3)

(* The descriptors that selectors find are the ones kernel_start wrote,    *)
(* and gdt_entry_create packs any other one as well.                       *)
DescriptorsHold == SelectorsFit /\ RoundTrips
=============================================================================
