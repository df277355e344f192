-------------------------------- MODULE Acpi --------------------------------
(***************************************************************************)
(* The walks over ACPI tables, kernel/acpi: xsdt_get_table looks for a     *)
(* table by its signature, madt_get_processor_local_apic_count counts the  *)
(* processor records of the MADT.  Tables come from the firmware; their    *)
(* lengths are trusted by the code.  One step is one iteration of a loop.  *)
(*                                                                         *)
(* A MADT is its Length and the records that lie in it one after another;  *)
(* what lies behind them is unknown.                                       *)
(***************************************************************************)
EXTENDS Integers, Sequences, FiniteSets

CONSTANTS
  AcpiSizeWrap,  \* 2^64: values of a size_t, and of the count
  SdtSize,       \* sizeof(sdt_header): 36 in the code
  ApicSize,      \* sizeof(APIC): 44 in the code
  Madts,         \* MADTs: Length and records, each with its type and length
  Xsdts          \* XSDTs: Length and the signatures of the tables it points to

ASSUME HeadersAssumption == SdtSize \in Nat /\ ApicSize \in Nat /\ AcpiSizeWrap \in Nat \ {0}

(* madt_header: EntryType 0 is a processor.                                *)
madt_header == [EntryType: Nat, RecordLength: 0 .. 255]

ASSUME TablesAssumption == /\ Madts \subseteq [Length: Nat, records: Seq(madt_header)]
                           /\ Xsdts \subseteq [Length: Nat, signatures: Seq(STRING)]

(* Where each record of a MADT begins, and the last one ends.              *)
Starts(m) == LET at[k \in 1 .. Len(m.records) + 1] ==
                   IF k = 1 THEN 0 ELSE at[k - 1] + m.records[k - 1].RecordLength
             IN  at

RecordsSize(m) == Starts(m)[Len(m.records) + 1]

(* What is in memory has a size that is a size_t.                          *)
ASSUME TableSizesAssumption == /\ \A m \in Madts : RecordsSize(m) < AcpiSizeWrap
                               /\ \A t \in Xsdts : 8 * Len(t.signatures) < AcpiSizeWrap

VARIABLES
  table,  \* the table that is walked
  walk,   \* "find", "count", "outside" when the walk has left the table, "done"
  entry,  \* the entry of the XSDT, or the record at offset
  pos,    \* pos of the code, in bytes
  answer  \* the count, or the entry found; 0 is NULL

acpiVars == <<table, walk, entry, pos, answer>>

NULL == 0

AcpiInit == /\ \/ walk = "find" /\ table \in Xsdts
               \/ walk = "count" /\ table \in Madts
            /\ entry = 1 /\ pos = 0 /\ answer = 0

-----------------------------------------------------------------------------
(* xsdt_get_table(rsdp, "APIC")                                            *)

(* A mistake: the header is counted as an entry.                           *)
TableCountWithHeader == (table.Length % AcpiSizeWrap) \div 8
tableCount == ((table.Length - SdtSize) % AcpiSizeWrap) \div 8

Continue == table.signatures[entry] # "APIC"

xsdt_get_table ==
  /\ walk = "find"
  /\ IF entry > tableCount
       THEN answer' = NULL /\ walk' = "done" /\ UNCHANGED entry
     ELSE IF entry > Len(table.signatures)
       THEN walk' = "outside" /\ UNCHANGED <<entry, answer>>
     ELSE IF Continue
       THEN entry' = entry + 1 /\ UNCHANGED <<walk, answer>>
       ELSE answer' = entry /\ walk' = "done" /\ UNCHANGED entry
  /\ UNCHANGED <<table, pos>>

-----------------------------------------------------------------------------
(* madt_get_processor_local_apic_count(apic)                               *)

entries_size == (table.Length - ApicSize) % AcpiSizeWrap

(* A mistake: only the case for processors steps on.                       *)
StepOverProcessor(record) == IF record.EntryType = 0 THEN record.RecordLength ELSE 0
NextRecord(record)        == record.RecordLength

madt_get_processor_local_apic_count ==
  /\ walk = "count"
  /\ IF pos >= entries_size
       THEN walk' = "done" /\ UNCHANGED <<entry, pos, answer>>
     ELSE IF entry > Len(table.records)
       THEN walk' = "outside" /\ UNCHANGED <<entry, pos, answer>>
     ELSE LET record == table.records[entry]
          IN  /\ answer' = (answer + IF record.EntryType = 0 THEN 1 ELSE 0) % AcpiSizeWrap
              /\ pos' = (pos + NextRecord(record)) % AcpiSizeWrap
              /\ entry' = IF NextRecord(record) = 0 THEN entry ELSE entry + 1
              /\ UNCHANGED walk
  /\ UNCHANGED table

AcpiNext == xsdt_get_table \/ madt_get_processor_local_apic_count

(* The processor keeps executing the walk.                                 *)
AcpiSpec == AcpiInit /\ [][AcpiNext]_acpiVars /\ WF_acpiVars(AcpiNext)

-----------------------------------------------------------------------------

IsMadt == "records" \in DOMAIN table

(* A table as the specification of ACPI wants it: its Length covers its    *)
(* header and exactly its records or entries.                              *)
WellFormed ==
  IF IsMadt
    THEN /\ \A k \in DOMAIN table.records : table.records[k].RecordLength >= 2
         /\ table.Length = ApicSize + RecordsSize(table)
    ELSE table.Length = SdtSize + 8 * Len(table.signatures)

(* In a well-formed table both walks read entries only, and answer right:  *)
(* the number of the processor records, also if there is no record, and    *)
(* the first of the tables with the signature, or NULL if there is none.   *)
Processors == {k \in DOMAIN table.records : table.records[k].EntryType = 0}
Matching   == {k \in DOMAIN table.signatures : table.signatures[k] = "APIC"}

AnswersRight ==
  WellFormed =>
    /\ walk # "outside"
    /\ walk = "done" /\ IsMadt => answer = Cardinality(Processors)
    /\ walk = "done" /\ ~ IsMadt =>
         IF Matching = {} THEN answer = NULL
         ELSE answer \in Matching /\ \A k \in Matching : answer <= k

(* Whatever the records say, a walk leaves the table only if the Length    *)
(* promises more than there is or is less than the header, so that the     *)
(* size wraps.                                                             *)
LeavesOnlyIfLengthWrong ==
  walk = "outside" =>
    IF IsMadt THEN \/ table.Length < ApicSize
                   \/ table.Length > ApicSize + RecordsSize(table)
              ELSE \/ table.Length < SdtSize
                   \/ table.Length >= SdtSize + 8 * (Len(table.signatures) + 1)

(* A walk leaves a table only if its Length is wrong, and answers right if *)
(* the table is well formed.                                               *)
WalksRight == AnswersRight /\ LeavesOnlyIfLengthWrong

(* The walks end, but for one case: a record of length 0, on which the     *)
(* walk over the MADT stays for ever.                                      *)
OnEmptyRecord == /\ walk = "count" /\ entry <= Len(table.records)
                 /\ table.records[entry].RecordLength = 0

EndsOrSticks ==
  walk # "none" => <>(walk \in {"done", "outside"}) \/ <>[]OnEmptyRecord
=============================================================================
