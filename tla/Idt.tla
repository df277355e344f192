--------------------------------- MODULE Idt ---------------------------------
(***************************************************************************)
(* The interrupt descriptors, kernel/idt.c: a table is allocated and       *)
(* cleared, gates are put into it in any order and more than once, it is   *)
(* loaded, and it is printed.  Nothing calls these functions yet; callers  *)
(* are assumed to call idt_init first.  Words are sets of bits.            *)
(***************************************************************************)
EXTENDS Bits

CONSTANTS
  IdtEntries,  \* entries that idt_init makes room for: 256 in the code
  Gates,       \* arguments of idt_entry_create: isr, segment, ist, flags
  PoolGarbage  \* what uninitialized memory may hold: words of 32 bits

ASSUME IdtEntriesAssumption == IdtEntries \in Nat \ {0}

(* The parameters of idt_entry_create, in their widths.                    *)
gate == [isr: SUBSET (0 .. 63), segment: SUBSET (0 .. 15),
         ist: SUBSET (0 .. 7), flags: SUBSET (0 .. 7)]

ASSUME GatesAssumption == Gates \subseteq gate

VARIABLES
  idt_pc,     \* "init", "ready", "fault"
  idt,        \* the entries at idt->base
  idt_limit,  \* idt->limit
  idtr,       \* the limit in the IDTR, 0 for none
  gates,      \* for each entry the last gate that was added, or NoGate
  printed     \* what the last call printed, a line for each entry

idtVars == <<idt_pc, idt, idt_limit, idtr, gates, printed>>

Index  == 0 .. IdtEntries - 1
NoGate == [isr |-> {}, segment |-> {}, ist |-> {}, flags |-> {}]

(* An entry whose words all hold the same bits, each in its own width.     *)
Filled(word) == [isr1 |-> Field(word, 0, 15), segment |-> Field(word, 0, 15),
                 ist |-> Field(word, 0, 7), flags |-> Field(word, 0, 7),
                 isr2 |-> Field(word, 0, 15), isr3 |-> word, reserved |-> word]

IdtInit == /\ idt_pc = "init" /\ idt_limit = 0 /\ idtr = 0 /\ printed = << >>
           /\ \E g \in PoolGarbage : idt = [k \in Index |-> Filled(g)]
           /\ gates = [k \in Index |-> NoGate]

(* A mistake: the memory is used as malloc returned it.                    *)
Uncleared == idt
Cleared   == [k \in Index |-> Filled({})]

(* malloc, twice, without a test: a failure is a write through NULL.       *)
idt_init ==
  /\ idt_pc = "init"
  /\ \/ idt_pc' = "ready" /\ idt_limit' = 16 * IdtEntries - 1 /\ idt' = Cleared
     \/ idt_pc' = "fault" /\ UNCHANGED <<idt_limit, idt>>
  /\ UNCHANGED <<idtr, gates, printed>>

(* reserved is not assigned.                                               *)
idt_entry_create(g, rest) ==
  [isr1 |-> Field(g.isr, 0, 15), isr2 |-> Field(g.isr, 16, 31),
   isr3 |-> Field(g.isr, 32, 63),
   segment |-> g.segment, ist |-> g.ist, flags |-> g.flags, reserved |-> rest]

idt_entry_add(k, g) ==
  /\ idt_pc = "ready"
  /\ \E rest \in PoolGarbage : idt' = [idt EXCEPT ![k] = idt_entry_create(g, rest)]
  /\ gates' = [gates EXCEPT ![k] = g]
  /\ printed' = << >>
  /\ UNCHANGED <<idt_pc, idt_limit, idtr>>

idt_set == /\ idt_pc = "ready" /\ idtr' = idt_limit /\ printed' = << >>
           /\ UNCHANGED <<idt_pc, idt, idt_limit, gates>>

(* entry.isr2 << 16 is an int: its bit 31 is the sign of what is or-ed in. *)
Middle(isr2) == Shift(isr2, 16) \cup (IF 15 \in isr2 THEN 32 .. 63 ELSE {})

(* "%x" takes an int: of isr only the low 32 bits are printed.             *)
dump_idt_entry(e) ==
  LET isr == Shift(e.isr3, 32) \cup Middle(e.isr2) \cup e.isr1
  IN  [isr |-> Field(isr, 0, 31), segment |-> e.segment, ist |-> e.ist, flags |-> e.flags]

dump_idt == /\ idt_pc = "ready"
            /\ printed' = [k \in 0 .. (idt_limit + 1) \div 16 - 1 |-> dump_idt_entry(idt[k])]
            /\ UNCHANGED <<idt_pc, idt, idt_limit, idtr, gates>>

IdtNext == \/ idt_init \/ idt_set \/ dump_idt
        \/ \E k \in Index, g \in Gates : idt_entry_add(k, g)

IdtSpec == IdtInit /\ [][IdtNext]_idtVars

-----------------------------------------------------------------------------

(* Through a loaded IDTR the processor finds for each vector the gate that *)
(* was added last, with all 64 bits of its handler, and a gate that is not *)
(* present where none was added, whatever the memory held before.          *)
GatesAreLastAdded ==
  idtr # 0 =>
    \A k \in 0 .. (idtr + 1) \div 16 - 1 :
       /\ idt[k].isr1 \cup Shift(idt[k].isr2, 16) \cup Shift(idt[k].isr3, 32) = gates[k].isr
       /\ idt[k].segment = gates[k].segment /\ idt[k].ist = gates[k].ist
       /\ idt[k].flags = gates[k].flags

(* The dump has a line for every entry, with the low half of the address   *)
(* of its handler: that the middle part is sign-extended over the high     *)
(* half never shows.                                                       *)
DumpShowsGates ==
  printed # << >> =>
    printed = [k \in Index |-> [gates[k] EXCEPT !.isr = Field(gates[k].isr, 0, 31)]]

(* The processor and the dump find the same gates, those that were added   *)
(* last.                                                                   *)
GatesHold == GatesAreLastAdded /\ DumpShowsGates
=============================================================================
