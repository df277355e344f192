------------------------------ MODULE Routines ------------------------------
(***************************************************************************)
(* The routines that loader and kernel call and that share no state with   *)
(* the memory managers: reading a file, the way of a message to the screen *)
(* (string functions, itoa, vsprintf, console), and the tables shared with *)
(* processor and firmware (segments, interrupts, ACPI).  There is one      *)
(* processor and no interrupt, so one of them runs at a time; the others   *)
(* rest in a fixed state.                                                  *)
(***************************************************************************)
EXTENDS EfiFread, CString, Itoa, Vsprintf, Console, Gdt, Idt, Acpi

VARIABLE running  \* the part that was called

vars == <<running, freadVars, stringVars, itoaVars, vsprintfVars, consoleVars,
          gdtVars, idtVars, acpiVars>>

FreadRests ==
  /\ volumes = << >> /\ label = "none" /\ index = 1 /\ outcome = "none"
  /\ buffer = "none" /\ open = {} /\ pool = {}

StringRests ==
  /\ mem = << >> /\ before = << >> /\ length = 0 /\ counter = 0 /\ result = 0
  /\ call = [op |-> "none", dest |-> 0, src |-> 0, n |-> 0]

ItoaRests ==
  /\ arg = 0 /\ base = 10 /\ num = 0 /\ negative = FALSE /\ str = << >>
  /\ copy = << >> /\ c1 = 0 /\ itoa_pc = "none"

VsprintfRests ==
  /\ format = <<".">> /\ lengths = << >> /\ i = 0 /\ taken = 0
  /\ temp = << >> /\ output = << >>

ConsoleRests ==
  /\ fb = [width |-> 0, height |-> 0, pixels_per_scanline |-> 0, margin |-> 0]
  /\ font = [valid |-> FALSE, height |-> 1, glyphs |-> << >>, characters |-> << >>]
  /\ p = 0 /\ x = 0 /\ y = 0 /\ lines = 0 /\ shown = <<LF, None>> /\ drawn = {}

GdtRests ==
  /\ probe = [base |-> {}, lim |-> {}, access |-> {}, flags |-> {}]
  /\ gdt = << >> /\ gdt_limit = 0 /\ entries_added = 0
  /\ gdtr = NotLoaded /\ cs = NotLoaded /\ data = NotLoaded

IdtRests ==
  /\ idt_pc = "none" /\ idt = << >> /\ idt_limit = 0 /\ idtr = 0
  /\ gates = << >> /\ printed = << >>

AcpiRests ==
  /\ table = [Length |-> SdtSize, signatures |-> << >>]
  /\ walk = "none" /\ entry = 1 /\ pos = 0 /\ answer = 0

Init ==
  /\ running \in {"fread", "string", "itoa", "vsprintf", "console", "gdt", "idt", "acpi"}
  /\ IF running = "fread"    THEN FreadInit    ELSE FreadRests
  /\ IF running = "string"   THEN StringInit   ELSE StringRests
  /\ IF running = "itoa"     THEN ItoaInit     ELSE ItoaRests
  /\ IF running = "vsprintf" THEN VsprintfInit ELSE VsprintfRests
  /\ IF running = "console"  THEN ConsoleInit  ELSE ConsoleRests
  /\ IF running = "gdt"      THEN GdtInit      ELSE GdtRests
  /\ IF running = "idt"      THEN IdtInit      ELSE IdtRests
  /\ IF running = "acpi"     THEN AcpiInit     ELSE AcpiRests

(* Tuples of what a part leaves alone.                                     *)
printVars == <<stringVars, itoaVars, vsprintfVars, consoleVars>>
tableVars == <<gdtVars, idtVars, acpiVars>>

PrintStep ==
  \/ running = "string"   /\ StringNext  /\ UNCHANGED <<itoaVars, vsprintfVars, consoleVars>>
  \/ running = "itoa"     /\ itoa        /\ UNCHANGED <<stringVars, vsprintfVars, consoleVars>>
  \/ running = "vsprintf" /\ vsprintf    /\ UNCHANGED <<stringVars, itoaVars, consoleVars>>
  \/ running = "console"  /\ ssfn_printf /\ UNCHANGED <<stringVars, itoaVars, vsprintfVars>>

TableStep ==
  \/ running = "gdt"  /\ GdtNext  /\ UNCHANGED <<idtVars, acpiVars>>
  \/ running = "idt"  /\ IdtNext  /\ UNCHANGED <<gdtVars, acpiVars>>
  \/ running = "acpi" /\ AcpiNext /\ UNCHANGED <<gdtVars, idtVars>>

Next ==
  /\ \/ running = "fread" /\ efi_fread /\ UNCHANGED <<printVars, tableVars>>
     \/ PrintStep /\ UNCHANGED <<freadVars, tableVars>>
     \/ TableStep /\ UNCHANGED <<freadVars, printVars>>
  /\ UNCHANGED running

(* A read and a walk that have begun go on; nothing is known of when text  *)
(* is printed or a gate is added.                                          *)
Spec == Init /\ [][Next]_vars /\ WF_vars(running \in {"fread", "acpi"} /\ Next)
=============================================================================
