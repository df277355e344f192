--------------------------- MODULE Routines_proofs ---------------------------
(***************************************************************************)
(* Theorems about the routines that share no state with the memory         *)
(* managers: reading a file, the descriptor tables, the walks over ACPI    *)
(* tables, strings, numerals, the console and formatted output.  Each is   *)
(* about the specification of its own component; the last one joins them   *)
(* for Routines, which runs one of them at a time.                         *)
(***************************************************************************)
EXTENDS Routines, FiniteSetTheorems, SequenceTheorems, WellFoundedInduction, TLAPS

-----------------------------------------------------------------------------
(* Reading a file.  What efi_fread has open, allocated and found is        *)
(* determined by where it is.                                              *)

Searching == {"volume", "open", "close_volume"}
WithFile  == {"free_handles", "info", "malloc", "read", "free_data", "close_file",
              "close_root"}

FreadTypeOK == /\ volumes \in Seq(volume)
               /\ index \in Nat \ {0}
               /\ label \in Searching \cup WithFile \cup {"locate", "done"}

OpenInv ==
  /\ label \in {"locate", "volume", "done"} => open = {}
  /\ label \in {"open", "close_volume", "close_root"} => open = {root}
  /\ label \in WithFile \ {"close_root"} => open = {root, file}

Success == outcome = "EFI_SUCCESS"

PoolInv ==
  /\ label \in Searching \cup {"free_handles"} => pool = {"handles"}
  /\ label \in {"locate", "info", "malloc"} => pool = {}
  /\ label \in {"read", "free_data"} => pool = {"data"}
  /\ label \in {"close_file", "close_root", "done"} =>
       pool = IF Success THEN {"data"} ELSE {}

NotFound == outcome \in {"EFI_NOT_FOUND", "OPEN_ERROR"}

OutcomeInv ==
  /\ label \in Searching => NotFound
  /\ label \in {"free_handles", "info", "malloc", "read"} => Success
  /\ label = "free_data" => ~ Success
  /\ label \in WithFile => ~ NotFound
  /\ buffer = IF label \in {"close_file", "close_root", "done"} /\ Success
                THEN "whole" ELSE "none"

(* No volume before index has the file.                                    *)
SearchInv ==
  /\ label \in Searching \cup WithFile \cup {"locate"} => \A v \in HaveFile : index <= v
  /\ label = "open" => index \in DOMAIN volumes
  /\ label = "close_volume" => index \notin HaveFile
  /\ label \in WithFile => index \in HaveFile
  /\ label = "done" /\ NotFound => HaveFile = {}

FreadInv == FreadTypeOK /\ OpenInv /\ PoolInv /\ OutcomeInv /\ SearchInv

LEMMA FreadInvInit == FreadInit => FreadInv
<1> SUFFICES ASSUME FreadInit PROVE FreadInv  OBVIOUS
<1> USE DEF FreadInit
<1>1. volumes \in Seq(volume)  BY MachinesAssumption
<1>2. FreadTypeOK  BY <1>1 DEF FreadTypeOK, Searching, WithFile
<1>3. \A v \in HaveFile : index <= v  BY <1>1 DEF HaveFile
<1> QED
  BY <1>2, <1>3 DEF FreadInv, OpenInv, PoolInv, OutcomeInv, SearchInv, Searching, WithFile

LEMMA FreadInvStep == FreadInv /\ [efi_fread]_freadVars => FreadInv'
<1> SUFFICES ASSUME FreadInv, [efi_fread]_freadVars PROVE FreadInv'  OBVIOUS
<1> USE DEF FreadInv, Searching, WithFile, Success, NotFound, GoTo, root, file
<1>1. CASE LocateHandleBuffer
  BY <1>1 DEF LocateHandleBuffer, FreadTypeOK, OpenInv, PoolInv, OutcomeInv, SearchInv, HaveFile
<1>2. CASE OpenVolume
  BY <1>2 DEF OpenVolume, NextVolume, FreadTypeOK, OpenInv, PoolInv, OutcomeInv, SearchInv, HaveFile
<1>3. CASE Open
  BY <1>3 DEF Open, FileFound, FreadTypeOK, OpenInv, PoolInv, OutcomeInv, SearchInv, HaveFile
<1>4. CASE CloseVolume
  BY <1>4 DEF CloseVolume, CloseRoot, NextVolume, FreadTypeOK, OpenInv, PoolInv, OutcomeInv, SearchInv, HaveFile
<1>5. CASE FreeHandles
  BY <1>5 DEF FreeHandles, FreadTypeOK, OpenInv, PoolInv, OutcomeInv, SearchInv, HaveFile
<1>6. CASE GetInfo
  BY <1>6 DEF GetInfo, FreadTypeOK, OpenInv, PoolInv, OutcomeInv, SearchInv, HaveFile
<1>7. CASE Malloc
  BY <1>7 DEF Malloc, FreadTypeOK, OpenInv, PoolInv, OutcomeInv, SearchInv, HaveFile
<1>8. CASE Read
  BY <1>8 DEF Read, ReadStatus, FreadTypeOK, OpenInv, PoolInv, OutcomeInv, SearchInv, HaveFile
<1>9. CASE FreeData
  BY <1>9 DEF FreeData, FreadTypeOK, OpenInv, PoolInv, OutcomeInv, SearchInv, HaveFile
<1>10. CASE Close
  BY <1>10 DEF Close, CloseRoot, FreadTypeOK, OpenInv, PoolInv, OutcomeInv, SearchInv, HaveFile
<1>11. CASE UNCHANGED freadVars
  BY <1>11 DEF freadVars, FreadTypeOK, OpenInv, PoolInv, OutcomeInv, SearchInv, HaveFile
<1> QED
  BY <1>1, <1>2, <1>3, <1>4, <1>5, <1>6, <1>7, <1>8, <1>9, <1>10, <1>11 DEF efi_fread

LEMMA FreadInvReleasesOnce == FreadInv => ReleasesOnce
BY DEF FreadInv, FreadTypeOK, OpenInv, PoolInv, OutcomeInv, ReleasesOnce, NothingLeaks,
       UsesOnlyWhatIsOpen, Searching, WithFile, Success, NotFound, root, file

(* However many volumes there are and whichever call into the firmware     *)
(* fails, efi_fread closes and frees everything exactly once and uses      *)
(* nothing that it has released.                                           *)
THEOREM FreadReleasesOnce == FreadSpec => []ReleasesOnce
BY FreadInvReleasesOnce, FreadInvInit, FreadInvStep, PTL DEF FreadSpec

LEMMA FreadInvReadsFirstFile == FreadInv => ReadsFirstFile
BY DEF FreadInv, FreadTypeOK, OpenInv, PoolInv, OutcomeInv, SearchInv, ReadsFirstFile,
       BufferIsFile, FirstVolumeWins, Searching, WithFile, Success, NotFound, root, file

(* On every machine a success is the whole file of the first volume that   *)
(* has it, and a failure for want of a file means that no volume has it.   *)
THEOREM FreadFindsFirstFile == FreadSpec => []ReadsFirstFile
BY FreadInvReadsFirstFile, FreadInvInit, FreadInvStep, PTL DEF FreadSpec

-----------------------------------------------------------------------------
(* Words of bits.                                                          *)

LEMMA ShiftIn ==
  ASSUME NEW w \in SUBSET Int, NEW n \in Int, NEW b \in Int
  PROVE  b \in Shift(w, n) <=> b - n \in w
<1>1. ASSUME b \in Shift(w, n) PROVE b - n \in w
  <2>1. PICK c \in w : b = c + n  BY <1>1 DEF Shift
  <2>2. c \in Int /\ b - n = c  BY <2>1
  <2> QED  BY <2>2
<1>2. ASSUME b - n \in w PROVE b \in Shift(w, n)
  <2>1. b = (b - n) + n  OBVIOUS
  <2> QED  BY <1>2, <2>1 DEF Shift
<1> QED  BY <1>1, <1>2

LEMMA FieldIn ==
  ASSUME NEW w \in SUBSET Int, NEW low \in Int, NEW high \in Int, NEW b \in Int
  PROVE  b \in Field(w, low, high) <=> b + low \in w /\ 0 <= b /\ b <= high - low
<1>1. ASSUME b \in Field(w, low, high)
      PROVE  b + low \in w /\ 0 <= b /\ b <= high - low
  <2>1. PICK c \in w \cap (low .. high) : b = c - low  BY <1>1 DEF Field
  <2>2. c \in Int /\ b + low = c  BY <2>1
  <2> QED  BY <2>1, <2>2
<1>2. ASSUME b + low \in w, 0 <= b, b <= high - low PROVE b \in Field(w, low, high)
  <2>1. b = (b + low) - low /\ b + low \in low .. high  BY <1>2
  <2> QED  BY <1>2, <2>1 DEF Field
<1> QED  BY <1>1, <1>2

LEMMA ShiftIsWord ==
  ASSUME NEW w \in SUBSET Int, NEW n \in Int
  PROVE  Shift(w, n) \in SUBSET Int
<1>1. \A b \in w : b + n \in Int  OBVIOUS
<1> QED  BY <1>1 DEF Shift

LEMMA FieldIsWord ==
  ASSUME NEW w \in SUBSET Int, NEW low \in Int, NEW high \in Int
  PROVE  Field(w, low, high) \in SUBSET Int
<1>1. \A b \in w : b - low \in Int  OBVIOUS
<1> QED  BY <1>1 DEF Field

-----------------------------------------------------------------------------
(* Segments.                                                               *)

(* Where the bits of a descriptor come from.                               *)
LEMMA DescriptorBits ==
  ASSUME NEW start \in SUBSET (0 .. 31), NEW lim \in SUBSET (0 .. 31),
         NEW access \in SUBSET (0 .. 7), NEW flags \in SUBSET (0 .. 7), NEW b \in Int
  PROVE  b \in gdt_entry_create(start, lim, access, flags) <=>
           \/ 0 <= b /\ b <= 15 /\ b \in lim
           \/ 16 <= b /\ b <= 39 /\ b - 16 \in start
           \/ 40 <= b /\ b <= 47 /\ b - 40 \in access
           \/ 48 <= b /\ b <= 51 /\ b - 32 \in lim
           \/ 52 <= b /\ b <= 55 /\ b - 52 \in flags
           \/ 56 <= b /\ b <= 63 /\ b - 32 \in start
<1>1. start \in SUBSET Int /\ lim \in SUBSET Int /\ access \in SUBSET Int /\ flags \in SUBSET Int
  OBVIOUS
<1>2. b \in Shift(Field(start, 24, 31), 56) <=> 56 <= b /\ b <= 63 /\ b - 32 \in start
  <2>1. Field(start, 24, 31) \in SUBSET Int  BY <1>1, FieldIsWord
  <2>2. b \in Shift(Field(start, 24, 31), 56) <=> b - 56 \in Field(start, 24, 31)  BY <2>1, ShiftIn
  <2>3. b - 56 \in Field(start, 24, 31)
          <=> (b - 56) + 24 \in start /\ 0 <= b - 56 /\ b - 56 <= 31 - 24
    BY <1>1, FieldIn
  <2>4. (b - 56) + 24 = b - 32  OBVIOUS
  <2> QED  BY <2>2, <2>3, <2>4
<1>3. b \in Shift(Field(flags, 0, 3), 52) <=> 52 <= b /\ b <= 55 /\ b - 52 \in flags
  <2>1. Field(flags, 0, 3) \in SUBSET Int  BY <1>1, FieldIsWord
  <2>2. b \in Shift(Field(flags, 0, 3), 52) <=> b - 52 \in Field(flags, 0, 3)  BY <2>1, ShiftIn
  <2>3. b - 52 \in Field(flags, 0, 3)
          <=> (b - 52) + 0 \in flags /\ 0 <= b - 52 /\ b - 52 <= 3 - 0
    BY <1>1, FieldIn
  <2>4. (b - 52) + 0 = b - 52  OBVIOUS
  <2> QED  BY <2>2, <2>3, <2>4
<1>4. b \in Shift(Field(lim, 16, 19), 48) <=> 48 <= b /\ b <= 51 /\ b - 32 \in lim
  <2>1. Field(lim, 16, 19) \in SUBSET Int  BY <1>1, FieldIsWord
  <2>2. b \in Shift(Field(lim, 16, 19), 48) <=> b - 48 \in Field(lim, 16, 19)  BY <2>1, ShiftIn
  <2>3. b - 48 \in Field(lim, 16, 19)
          <=> (b - 48) + 16 \in lim /\ 0 <= b - 48 /\ b - 48 <= 19 - 16
    BY <1>1, FieldIn
  <2>4. (b - 48) + 16 = b - 32  OBVIOUS
  <2> QED  BY <2>2, <2>3, <2>4
<1>5. b \in Shift(access, 40) <=> 40 <= b /\ b <= 47 /\ b - 40 \in access
  BY <1>1, ShiftIn
<1>6. b \in Shift(Field(start, 16, 23), 32) <=> 32 <= b /\ b <= 39 /\ b - 16 \in start
  <2>1. Field(start, 16, 23) \in SUBSET Int  BY <1>1, FieldIsWord
  <2>2. b \in Shift(Field(start, 16, 23), 32) <=> b - 32 \in Field(start, 16, 23)  BY <2>1, ShiftIn
  <2>3. b - 32 \in Field(start, 16, 23)
          <=> (b - 32) + 16 \in start /\ 0 <= b - 32 /\ b - 32 <= 23 - 16
    BY <1>1, FieldIn
  <2>4. (b - 32) + 16 = b - 16  OBVIOUS
  <2> QED  BY <2>2, <2>3, <2>4
<1>7. b \in Shift(Field(start, 0, 15), 16) <=> 16 <= b /\ b <= 31 /\ b - 16 \in start
  <2>1. Field(start, 0, 15) \in SUBSET Int  BY <1>1, FieldIsWord
  <2>2. b \in Shift(Field(start, 0, 15), 16) <=> b - 16 \in Field(start, 0, 15)  BY <2>1, ShiftIn
  <2>3. b - 16 \in Field(start, 0, 15)
          <=> (b - 16) + 0 \in start /\ 0 <= b - 16 /\ b - 16 <= 15 - 0
    BY <1>1, FieldIn
  <2>4. (b - 16) + 0 = b - 16  OBVIOUS
  <2> QED  BY <2>2, <2>3, <2>4
<1>8. b \in Field(lim, 0, 15) <=> 0 <= b /\ b <= 15 /\ b \in lim
  <2>1. b \in Field(lim, 0, 15) <=> b + 0 \in lim /\ 0 <= b /\ b <= 15 - 0  BY <1>1, FieldIn
  <2>2. b + 0 = b  OBVIOUS
  <2> QED  BY <2>1, <2>2
<1>9. b \in gdt_entry_create(start, lim, access, flags) <=>
        \/ b \in Shift(Field(start, 24, 31), 56) \/ b \in Shift(Field(flags, 0, 3), 52)
        \/ b \in Shift(Field(lim, 16, 19), 48) \/ b \in Shift(access, 40)
        \/ b \in Shift(Field(start, 16, 23), 32) \/ b \in Shift(Field(start, 0, 15), 16)
        \/ b \in Field(lim, 0, 15)
  BY DEF gdt_entry_create
<1>10. 16 <= b /\ b <= 39 /\ b - 16 \in start <=>
         \/ 32 <= b /\ b <= 39 /\ b - 16 \in start
         \/ 16 <= b /\ b <= 31 /\ b - 16 \in start
  OBVIOUS
<1> QED  BY <1>2, <1>3, <1>4, <1>5, <1>6, <1>7, <1>8, <1>9, <1>10

LEMMA DescriptorIsWord ==
  ASSUME NEW start \in SUBSET (0 .. 31), NEW lim \in SUBSET (0 .. 31),
         NEW access \in SUBSET (0 .. 7), NEW flags \in SUBSET (0 .. 7)
  PROVE  gdt_entry_create(start, lim, access, flags) \in SUBSET Int
<1>1. start \in SUBSET Int /\ lim \in SUBSET Int /\ access \in SUBSET Int /\ flags \in SUBSET Int
  OBVIOUS
<1>2. /\ Shift(Field(start, 24, 31), 56) \in SUBSET Int
      /\ Shift(Field(flags, 0, 3), 52) \in SUBSET Int
      /\ Shift(Field(lim, 16, 19), 48) \in SUBSET Int
      /\ Shift(access, 40) \in SUBSET Int
      /\ Shift(Field(start, 16, 23), 32) \in SUBSET Int
      /\ Shift(Field(start, 0, 15), 16) \in SUBSET Int
      /\ Field(lim, 0, 15) \in SUBSET Int
  <2>1. /\ Field(start, 24, 31) \in SUBSET Int /\ Field(flags, 0, 3) \in SUBSET Int
        /\ Field(lim, 16, 19) \in SUBSET Int /\ Field(start, 16, 23) \in SUBSET Int
        /\ Field(start, 0, 15) \in SUBSET Int /\ Field(lim, 0, 15) \in SUBSET Int
    BY <1>1, FieldIsWord
  <2> QED  BY <1>1, <2>1, ShiftIsWord
<1> QED  BY <1>2 DEF gdt_entry_create


(* What gdt_entry_create packs, the processor unpacks.                     *)
LEMMA UnpacksWhatWasPacked ==
  ASSUME NEW start \in SUBSET (0 .. 31), NEW lim \in SUBSET (0 .. 31),
         NEW access \in SUBSET (0 .. 7), NEW flags \in SUBSET (0 .. 7)
  PROVE  LET e == gdt_entry_create(start, lim, access, flags)
         IN  /\ BaseOf(e) = start
             /\ LimitOf(e) = lim \cap (0 .. 19)
             /\ AccessOf(e) = access
             /\ FlagsOf(e) = flags \cap (0 .. 3)
<1> DEFINE e == gdt_entry_create(start, lim, access, flags)
<1>1. e \in SUBSET Int  BY DescriptorIsWord
<1>2. \A b \in Int : b \in e <=>
           \/ 0 <= b /\ b <= 15 /\ b \in lim
           \/ 16 <= b /\ b <= 39 /\ b - 16 \in start
           \/ 40 <= b /\ b <= 47 /\ b - 40 \in access
           \/ 48 <= b /\ b <= 51 /\ b - 32 \in lim
           \/ 52 <= b /\ b <= 55 /\ b - 52 \in flags
           \/ 56 <= b /\ b <= 63 /\ b - 32 \in start
  BY DescriptorBits
<1> HIDE DEF e
<1>3. \A low, high, b \in Int :
        b \in Field(e, low, high) <=> b + low \in e /\ 0 <= b /\ b <= high - low
  BY <1>1, FieldIn
<1>4. \A low, high \in Int : Field(e, low, high) \in SUBSET Int  BY <1>1, FieldIsWord
<1>5. BaseOf(e) = start
  <2>1. BaseOf(e) \in SUBSET Int
    <3>1. Shift(Field(e, 56, 63), 24) \in SUBSET Int  BY <1>4, ShiftIsWord
    <3>2. Field(e, 16, 39) \in SUBSET Int  BY <1>4
    <3> QED  BY <3>1, <3>2 DEF BaseOf
  <2>2. ASSUME NEW b \in Int PROVE b \in BaseOf(e) <=> b \in start
    <3>1. b \in Field(e, 16, 39) <=> 0 <= b /\ b <= 23 /\ b \in start
      <4>1. b \in Field(e, 16, 39) <=> b + 16 \in e /\ 0 <= b /\ b <= 23  BY <1>3
      <4>2. 0 <= b /\ b <= 23 => (b + 16 \in e <=> (b + 16) - 16 \in start)
        BY <1>2
      <4>3. (b + 16) - 16 = b  OBVIOUS
      <4> QED  BY <4>1, <4>2, <4>3
    <3>2. b \in Shift(Field(e, 56, 63), 24) <=> 24 <= b /\ b <= 31 /\ b \in start
      <4>1. b \in Shift(Field(e, 56, 63), 24) <=> b - 24 \in Field(e, 56, 63)
        BY <1>4, ShiftIn
      <4>2. b - 24 \in Field(e, 56, 63) <=> (b - 24) + 56 \in e /\ 24 <= b /\ b <= 31
        BY <1>3
      <4>3. (b - 24) + 56 = b + 32 /\ (b + 32) - 32 = b  OBVIOUS
      <4>4. 24 <= b /\ b <= 31 => (b + 32 \in e <=> (b + 32) - 32 \in start)  BY <1>2
      <4> QED  BY <4>1, <4>2, <4>3, <4>4
    <3>3. b \in start => 0 <= b /\ b <= 31  OBVIOUS
    <3> QED  BY <3>1, <3>2, <3>3 DEF BaseOf
  <2>3. start \in SUBSET Int  OBVIOUS
  <2> QED  BY <2>1, <2>2, <2>3
<1>6. LimitOf(e) = lim \cap (0 .. 19)
  <2>1. LimitOf(e) \in SUBSET Int
    <3>1. Shift(Field(e, 48, 51), 16) \in SUBSET Int  BY <1>4, ShiftIsWord
    <3>2. Field(e, 0, 15) \in SUBSET Int  BY <1>4
    <3> QED  BY <3>1, <3>2 DEF LimitOf
  <2>2. ASSUME NEW b \in Int PROVE b \in LimitOf(e) <=> b \in lim /\ b \in 0 .. 19
    <3>1. b \in Field(e, 0, 15) <=> 0 <= b /\ b <= 15 /\ b \in lim
      <4>1. b \in Field(e, 0, 15) <=> b + 0 \in e /\ 0 <= b /\ b <= 15  BY <1>3
      <4>2. b + 0 = b  OBVIOUS
      <4>3. 0 <= b /\ b <= 15 => (b \in e <=> b \in lim)  BY <1>2
      <4> QED  BY <4>1, <4>2, <4>3
    <3>2. b \in Shift(Field(e, 48, 51), 16) <=> 16 <= b /\ b <= 19 /\ b \in lim
      <4>1. b \in Shift(Field(e, 48, 51), 16) <=> b - 16 \in Field(e, 48, 51)
        BY <1>4, ShiftIn
      <4>2. b - 16 \in Field(e, 48, 51) <=> (b - 16) + 48 \in e /\ 16 <= b /\ b <= 19
        BY <1>3
      <4>3. (b - 16) + 48 = b + 32 /\ (b + 32) - 32 = b  OBVIOUS
      <4>4. 16 <= b /\ b <= 19 => (b + 32 \in e <=> (b + 32) - 32 \in lim)  BY <1>2
      <4> QED  BY <4>1, <4>2, <4>3, <4>4
    <3> QED  BY <3>1, <3>2 DEF LimitOf
  <2> QED  BY <2>1, <2>2
<1>7. AccessOf(e) = access
  <2>1. AccessOf(e) \in SUBSET Int  BY <1>4 DEF AccessOf
  <2>2. ASSUME NEW b \in Int PROVE b \in AccessOf(e) <=> b \in access
    <3>1. b \in AccessOf(e) <=> b + 40 \in e /\ 0 <= b /\ b <= 7  BY <1>3 DEF AccessOf
    <3>2. 0 <= b /\ b <= 7 => (b + 40 \in e <=> (b + 40) - 40 \in access)  BY <1>2
    <3>3. (b + 40) - 40 = b /\ (b \in access => 0 <= b /\ b <= 7)  OBVIOUS
    <3> QED  BY <3>1, <3>2, <3>3
  <2>3. access \in SUBSET Int  OBVIOUS
  <2> QED  BY <2>1, <2>2, <2>3
<1>8. FlagsOf(e) = flags \cap (0 .. 3)
  <2>1. FlagsOf(e) \in SUBSET Int  BY <1>4 DEF FlagsOf
  <2>2. ASSUME NEW b \in Int PROVE b \in FlagsOf(e) <=> b \in flags /\ b \in 0 .. 3
    <3>1. b \in FlagsOf(e) <=> b + 52 \in e /\ 0 <= b /\ b <= 3  BY <1>3 DEF FlagsOf
    <3>2. 0 <= b /\ b <= 3 => (b + 52 \in e <=> (b + 52) - 52 \in flags)  BY <1>2
    <3>3. (b + 52) - 52 = b  OBVIOUS
    <3> QED  BY <3>1, <3>2, <3>3
  <2> QED  BY <2>1, <2>2
<1> QED  BY <1>5, <1>6, <1>7, <1>8 DEF e

(* The entry that kernel_start puts into the table as number n.            *)
Descriptor(n) == gdt_entry_create({}, Segment[n].lim, Segment[n].access, Segment[n].flags)

(* What the arguments of kernel_start make of a descriptor.                *)
LEMMA DescriptorKinds ==
  /\ Descriptor(1) = {}
  /\ LongCode(Descriptor(2)) /\ Ring(Descriptor(2)) = {}
  /\ Writable(Descriptor(3)) /\ Ring(Descriptor(3)) = {}
  /\ LongCode(Descriptor(4)) /\ Ring(Descriptor(4)) = {0, 1}
  /\ Writable(Descriptor(5)) /\ Ring(Descriptor(5)) = {0, 1}
<1>1. \A n \in 1 .. 5 : /\ Segment[n].lim \in SUBSET (0 .. 31)
                        /\ Segment[n].access \in SUBSET (0 .. 7)
                        /\ Segment[n].flags \in SUBSET (0 .. 7)
  BY DEF Segment
<1>2. \A n \in 1 .. 5 : Descriptor(n) \in SUBSET Int  BY <1>1, DescriptorIsWord DEF Descriptor
<1>3. \A n \in 1 .. 5 : \A b \in Int : b \in Descriptor(n) <=>
           \/ 0 <= b /\ b <= 15 /\ b \in Segment[n].lim
           \/ 40 <= b /\ b <= 47 /\ b - 40 \in Segment[n].access
           \/ 48 <= b /\ b <= 51 /\ b - 32 \in Segment[n].lim
           \/ 52 <= b /\ b <= 55 /\ b - 52 \in Segment[n].flags
  <2> SUFFICES ASSUME NEW n \in 1 .. 5, NEW b \in Int
               PROVE  b \in Descriptor(n) <=>
                        \/ 0 <= b /\ b <= 15 /\ b \in Segment[n].lim
                        \/ 40 <= b /\ b <= 47 /\ b - 40 \in Segment[n].access
                        \/ 48 <= b /\ b <= 51 /\ b - 32 \in Segment[n].lim
                        \/ 52 <= b /\ b <= 55 /\ b - 52 \in Segment[n].flags
    OBVIOUS
  <2>1. {} \in SUBSET (0 .. 31)  OBVIOUS
  <2> QED  BY <1>1, <2>1, DescriptorBits DEF Descriptor
<1> HIDE DEF Descriptor
<1>4. \A n \in 1 .. 5 : /\ 41 \in Descriptor(n) <=> 1 \in Segment[n].access
                        /\ 43 \in Descriptor(n) <=> 3 \in Segment[n].access
                        /\ 44 \in Descriptor(n) <=> 4 \in Segment[n].access
                        /\ 45 \in Descriptor(n) <=> 5 \in Segment[n].access
                        /\ 46 \in Descriptor(n) <=> 6 \in Segment[n].access
                        /\ 47 \in Descriptor(n) <=> 7 \in Segment[n].access
                        /\ 53 \in Descriptor(n) <=> 1 \in Segment[n].flags
                        /\ 54 \in Descriptor(n) <=> 2 \in Segment[n].flags
  BY <1>3
<1>5. \A n \in 1 .. 5 : /\ Ring(Descriptor(n)) \in SUBSET Int
                        /\ \A b \in Int : b \in Ring(Descriptor(n)) <=>
                                            b + 45 \in Descriptor(n) /\ 0 <= b /\ b <= 1
  BY <1>2, FieldIn, FieldIsWord DEF Ring
<1>6. \A n \in 1 .. 5 :
        Ring(Descriptor(n)) = {b \in {0, 1} : b + 45 \in Descriptor(n)}
  BY <1>5
<1>7. 0 + 45 = 45 /\ 1 + 45 = 46  OBVIOUS
<1>8. Descriptor(1) = {}
  BY <1>2, <1>3 DEF Segment
<1>9. LongCode(Descriptor(2)) /\ Ring(Descriptor(2)) = {}
  BY <1>4, <1>6, <1>7 DEF Segment, LongCode, Present
<1>10. Writable(Descriptor(3)) /\ Ring(Descriptor(3)) = {}
  BY <1>4, <1>6, <1>7 DEF Segment, Writable, Present
<1>11. LongCode(Descriptor(4)) /\ Ring(Descriptor(4)) = {0, 1}
  BY <1>4, <1>6, <1>7 DEF Segment, LongCode, Present
<1>12. Writable(Descriptor(5)) /\ Ring(Descriptor(5)) = {0, 1}
  BY <1>4, <1>6, <1>7 DEF Segment, Writable, Present
<1> QED  BY <1>8, <1>9, <1>10, <1>11, <1>12

(* The entries that have been added are in their places, whatever is in    *)
(* the others, and registers are loaded in order.                          *)
GdtInv ==
  /\ probe \in [base: Words, lim: Words, access: Words, flags: Words]
  /\ entries_added \in 0 .. 5 /\ gdt_limit = 39
  /\ gdt = [k \in 0 .. 4 |-> gdt[k]]
  /\ \A k \in 0 .. 4 : k < entries_added => gdt[k] = Descriptor(k + 1)
  /\ gdtr # NotLoaded => gdtr = 39 /\ entries_added = 5
  /\ data # NotLoaded => data = 16 /\ gdtr # NotLoaded
  /\ cs # NotLoaded => cs = 8 /\ gdtr # NotLoaded

LEMMA GdtInvInit == GdtInit => GdtInv
BY DEF GdtInit, GdtInv, gdt_entry_count

LEMMA GdtInvStep == GdtInv /\ [GdtNext]_gdtVars => GdtInv'
<1> SUFFICES ASSUME GdtInv, [GdtNext]_gdtVars PROVE GdtInv'  OBVIOUS
<1>1. CASE gdt_entry_add /\ UNCHANGED probe
  <2>1. /\ gdt' = [gdt EXCEPT ![entries_added] = Descriptor(entries_added + 1)]
        /\ entries_added' = entries_added + 1 /\ entries_added < 5
        /\ UNCHANGED <<gdt_limit, gdtr, cs, data, probe>>
    BY <1>1 DEF gdt_entry_add, IndexOf, Descriptor, gdt_entry_count
  <2>2. gdtr = NotLoaded  BY <2>1 DEF GdtInv
  <2>3. entries_added \in 0 .. 4 /\ entries_added' \in 0 .. 5  BY <2>1 DEF GdtInv
  <2>4. gdt' = [k \in 0 .. 4 |-> gdt'[k]]  BY <2>1 DEF GdtInv
  <2>5. \A k \in 0 .. 4 : k < entries_added' => gdt'[k] = Descriptor(k + 1)
    BY <2>1, <2>3 DEF GdtInv
  <2> QED  BY <2>1, <2>2, <2>3, <2>4, <2>5 DEF GdtInv
<1>2. CASE gdt_flush /\ UNCHANGED probe
  BY <1>2 DEF GdtInv, gdt_flush, Lgdt, LoadData, LoadCode, gdt_entry_count, NotLoaded
<1>3. CASE UNCHANGED gdtVars  BY <1>3 DEF GdtInv, gdtVars
<1> QED  BY <1>1, <1>2, <1>3 DEF GdtNext

LEMMA GdtInvDescriptorsHold == GdtInv => DescriptorsHold
<1>1. GdtInv => SelectorsFit
  <2> SUFFICES ASSUME GdtInv PROVE SelectorsFit  OBVIOUS
  <2>1. 8 \div 8 = 1 /\ 16 \div 8 = 2  OBVIOUS
  <2>2. gdtr # NotLoaded => /\ gdt[0] = Descriptor(1) /\ gdt[1] = Descriptor(2)
                            /\ gdt[2] = Descriptor(3) /\ gdt[3] = Descriptor(4)
                            /\ gdt[4] = Descriptor(5)
    BY DEF GdtInv
  <2>3. cs # NotLoaded => cs = 8 /\ gdtr = 39 /\ gdtr # NotLoaded  BY DEF GdtInv
  <2>4. data # NotLoaded => data = 16 /\ gdtr = 39 /\ gdtr # NotLoaded  BY DEF GdtInv
  <2> QED  BY <2>1, <2>2, <2>3, <2>4, DescriptorKinds DEF SelectorsFit
<1>2. GdtInv => RoundTrips
  <2> SUFFICES ASSUME GdtInv PROVE RoundTrips  OBVIOUS
  <2>1. /\ probe.base \in SUBSET (0 .. 31) /\ probe.lim \in SUBSET (0 .. 31)
        /\ probe.access \cap (0 .. 7) \in SUBSET (0 .. 7)
        /\ probe.flags \cap (0 .. 7) \in SUBSET (0 .. 7)
    BY WordsAssumption DEF GdtInv
  <2> DEFINE Fits(start, lim, access, flags) ==
               LET e == gdt_entry_create(start, lim, access, flags)
               IN  /\ BaseOf(e) = start
                   /\ LimitOf(e) = lim \cap (0 .. 19)
                   /\ AccessOf(e) = access
                   /\ FlagsOf(e) = flags \cap (0 .. 3)
  <2>2. \A start, lim \in SUBSET (0 .. 31) : \A access, flags \in SUBSET (0 .. 7) :
           Fits(start, lim, access, flags)
    BY UnpacksWhatWasPacked
  <2> HIDE DEF Fits
  <2>3. Fits(probe.base, probe.lim, probe.access \cap (0 .. 7), probe.flags \cap (0 .. 7))
    BY <2>1, <2>2, Zenon
  <2> QED  BY <2>3 DEF Fits, RoundTrips
<1> QED  BY <1>1, <1>2 DEF DescriptorsHold

(* Whatever the frame of the GDT held, the selectors that gdt_flush loads  *)
(* find the descriptors that are meant; and gdt_entry_create packs any     *)
(* base, limit, access and flags without mixing their bits.                *)
THEOREM GdtDescriptorsHold == GdtSpec => []DescriptorsHold
BY GdtInvDescriptorsHold, GdtInvInit, GdtInvStep, PTL DEF GdtSpec

-----------------------------------------------------------------------------
(* Interrupts.                                                             *)

(* The three parts of the address of a handler, joined, are the address.   *)
LEMMA HandlerJoins ==
  ASSUME NEW isr \in SUBSET (0 .. 63)
  PROVE  Field(isr, 0, 15) \cup Shift(Field(isr, 16, 31), 16) \cup Shift(Field(isr, 32, 63), 32)
           = isr
<1>1. isr \in SUBSET Int  OBVIOUS
<1>2. /\ Field(isr, 0, 15) \in SUBSET Int /\ Field(isr, 16, 31) \in SUBSET Int
      /\ Field(isr, 32, 63) \in SUBSET Int
  BY <1>1, FieldIsWord
<1>3. /\ Shift(Field(isr, 16, 31), 16) \in SUBSET Int
      /\ Shift(Field(isr, 32, 63), 32) \in SUBSET Int
  BY <1>2, ShiftIsWord
<1>4. ASSUME NEW b \in Int
      PROVE  /\ b \in Field(isr, 0, 15) <=> b \in isr /\ 0 <= b /\ b <= 15
             /\ b \in Shift(Field(isr, 16, 31), 16) <=> b \in isr /\ 16 <= b /\ b <= 31
             /\ b \in Shift(Field(isr, 32, 63), 32) <=> b \in isr /\ 32 <= b /\ b <= 63
  <2>1. b + 0 = b /\ (b - 16) + 16 = b /\ (b - 32) + 32 = b  OBVIOUS
  <2>2. b \in Field(isr, 0, 15) <=> b + 0 \in isr /\ 0 <= b /\ b <= 15  BY <1>1, FieldIn
  <2>3. b \in Shift(Field(isr, 16, 31), 16)
          <=> (b - 16) + 16 \in isr /\ 0 <= b - 16 /\ b - 16 <= 15
    BY <1>1, <1>2, FieldIn, ShiftIn
  <2>4. b \in Shift(Field(isr, 32, 63), 32)
          <=> (b - 32) + 32 \in isr /\ 0 <= b - 32 /\ b - 32 <= 31
    BY <1>1, <1>2, FieldIn, ShiftIn
  <2> QED  BY <2>1, <2>2, <2>3, <2>4
<1> DEFINE joined == Field(isr, 0, 15) \cup Shift(Field(isr, 16, 31), 16)
                       \cup Shift(Field(isr, 32, 63), 32)
<1>5. joined \in SUBSET Int  BY <1>2, <1>3
<1>6. ASSUME NEW b \in Int PROVE b \in joined <=> b \in isr
  <2>1. b \in isr => 0 <= b /\ b <= 63  OBVIOUS
  <2> QED  BY <1>4, <2>1
<1> HIDE DEF joined
<1>7. joined = isr  BY <1>1, <1>5, <1>6
<1> QED  BY <1>7 DEF joined

(* The sign that dump_idt_entry drags through the high half does not reach *)
(* the bits that are printed.                                              *)
LEMMA LowHalfPrinted ==
  ASSUME NEW isr \in SUBSET (0 .. 63)
  PROVE  Field(Shift(Field(isr, 32, 63), 32) \cup Middle(Field(isr, 16, 31))
                 \cup Field(isr, 0, 15), 0, 31) = Field(isr, 0, 31)
<1> DEFINE high == Shift(Field(isr, 32, 63), 32)
           middle == Middle(Field(isr, 16, 31))
           whole == high \cup middle \cup Field(isr, 0, 15)
<1>1. isr \in SUBSET Int  OBVIOUS
<1>2. /\ Field(isr, 0, 15) \in SUBSET Int /\ Field(isr, 16, 31) \in SUBSET Int
      /\ Field(isr, 32, 63) \in SUBSET Int
  BY <1>1, FieldIsWord
<1>3. high \in SUBSET Int /\ Shift(Field(isr, 16, 31), 16) \in SUBSET Int
  BY <1>2, ShiftIsWord
<1>4. middle \in SUBSET Int  BY <1>3 DEF Middle
<1>5. whole \in SUBSET Int  BY <1>2, <1>3, <1>4
<1>6. ASSUME NEW b \in Int, 0 <= b, b <= 31
      PROVE  b \in whole <=> b \in isr
  <2>1. b + 0 = b /\ (b - 16) + 16 = b  OBVIOUS
  <2>2. b \in Field(isr, 0, 15) <=> b + 0 \in isr /\ 0 <= b /\ b <= 15  BY <1>1, FieldIn
  <2>3. b \in Shift(Field(isr, 16, 31), 16)
          <=> (b - 16) + 16 \in isr /\ 0 <= b - 16 /\ b - 16 <= 15
    BY <1>1, <1>2, FieldIn, ShiftIn
  <2>4. b \in high <=> (b - 32) + 32 \in isr /\ 0 <= b - 32 /\ b - 32 <= 31
    BY <1>1, <1>2, FieldIn, ShiftIn
  <2>5. b \notin high  BY <1>6, <2>4
  <2>6. b \in middle <=> b \in Shift(Field(isr, 16, 31), 16)  BY <1>6 DEF Middle
  <2> QED  BY <1>6, <2>1, <2>2, <2>3, <2>5, <2>6
<1> HIDE DEF whole
<1>7. Field(whole, 0, 31) \in SUBSET Int /\ Field(isr, 0, 31) \in SUBSET Int
  BY <1>1, <1>5, FieldIsWord
<1>8. ASSUME NEW b \in Int PROVE b \in Field(whole, 0, 31) <=> b \in Field(isr, 0, 31)
  <2>1. b \in Field(whole, 0, 31) <=> b + 0 \in whole /\ 0 <= b /\ b <= 31  BY <1>5, FieldIn
  <2>2. b \in Field(isr, 0, 31) <=> b + 0 \in isr /\ 0 <= b /\ b <= 31  BY <1>1, FieldIn
  <2>3. b + 0 = b  OBVIOUS
  <2> QED  BY <1>6, <2>1, <2>2, <2>3
<1> QED  BY <1>7, <1>8 DEF whole

(* An entry that holds a gate.                                             *)
HoldsGate(e, g) ==
  /\ e.isr1 = Field(g.isr, 0, 15) /\ e.isr2 = Field(g.isr, 16, 31)
  /\ e.isr3 = Field(g.isr, 32, 63)
  /\ e.segment = g.segment /\ e.ist = g.ist /\ e.flags = g.flags

(* What idt_init leaves and what idt_entry_create makes holds a gate.      *)
LEMMA NewEntries ==
  /\ HoldsGate(Filled({}), NoGate)
  /\ \A g, rest : HoldsGate(idt_entry_create(g, rest), g)
<1>1. \A low, high : Field({}, low, high) = {}  BY DEF Field
<1>2. HoldsGate(Filled({}), NoGate)  BY <1>1 DEF HoldsGate, Filled, NoGate
<1>3. \A g, rest : HoldsGate(idt_entry_create(g, rest), g)  BY DEF HoldsGate, idt_entry_create
<1> QED  BY <1>2, <1>3

(* The line that is printed for a gate.                                    *)
Line(g) == [g EXCEPT !.isr = Field(g.isr, 0, 31)]

(* What the processor and the dump read in an entry.                       *)
LEMMA EntryReads ==
  ASSUME NEW g \in gate, NEW e, HoldsGate(e, g)
  PROVE  /\ e.isr1 \cup Shift(e.isr2, 16) \cup Shift(e.isr3, 32) = g.isr
         /\ dump_idt_entry(e) = Line(g)
<1>1. g.isr \in SUBSET (0 .. 63)  BY DEF gate
<1>2. g = [isr |-> g.isr, segment |-> g.segment, ist |-> g.ist, flags |-> g.flags]  BY DEF gate
<1>3. e.isr1 \cup Shift(e.isr2, 16) \cup Shift(e.isr3, 32) = g.isr
  BY <1>1, HandlerJoins DEF HoldsGate
<1>4. Field(Shift(e.isr3, 32) \cup Middle(e.isr2) \cup e.isr1, 0, 31) = Field(g.isr, 0, 31)
  BY <1>1, LowHalfPrinted DEF HoldsGate
<1>5. dump_idt_entry(e) = [isr |-> Field(g.isr, 0, 31), segment |-> g.segment,
                           ist |-> g.ist, flags |-> g.flags]
  BY <1>4 DEF dump_idt_entry, HoldsGate
<1>6. Line(g) = [isr |-> Field(g.isr, 0, 31), segment |-> g.segment,
                 ist |-> g.ist, flags |-> g.flags]
  BY <1>2 DEF Line
<1> QED  BY <1>3, <1>5, <1>6

(* Once the table is cleared every entry holds its gate; it is loaded and  *)
(* printed only after that, whole.                                         *)
IdtInv ==
  /\ gates \in [Index -> gate]
  /\ idt_pc = "init" => gates = [k \in Index |-> NoGate]
  /\ idt_pc # "ready" => idtr = 0 /\ printed = << >>
  /\ idt_pc = "ready" => /\ idt_limit = 16 * IdtEntries - 1
                         /\ idt = [k \in Index |-> idt[k]]
                         /\ \A k \in Index : HoldsGate(idt[k], gates[k])
  /\ idtr # 0 => idtr = 16 * IdtEntries - 1
  /\ printed # << >> => printed = [k \in Index |-> Line(gates[k])]

LEMMA WholeTable == (16 * IdtEntries - 1 + 1) \div 16 - 1 = IdtEntries - 1
<1>1. IdtEntries \in Nat  BY IdtEntriesAssumption
<1> QED  BY <1>1

LEMMA IdtInvInit == IdtInit => IdtInv
<1> SUFFICES ASSUME IdtInit PROVE IdtInv  OBVIOUS
<1>1. NoGate \in gate  BY DEF NoGate, gate
<1> QED  BY <1>1 DEF IdtInit, IdtInv

LEMMA IdtInvStep == IdtInv /\ [IdtNext]_idtVars => IdtInv'
<1> SUFFICES ASSUME IdtInv, [IdtNext]_idtVars PROVE IdtInv'  OBVIOUS
<1>1. CASE idt_init
  <2>1. idt_pc = "init" /\ gates = [k \in Index |-> NoGate] /\ idtr = 0 /\ printed = << >>
        /\ UNCHANGED <<idtr, gates, printed>>
    BY <1>1 DEF idt_init, IdtInv
  <2>2. CASE idt_pc' = "ready" /\ idt_limit' = 16 * IdtEntries - 1 /\ idt' = Cleared
    <3>1. \A k \in Index : HoldsGate(idt'[k], gates'[k])  BY <2>1, <2>2, NewEntries DEF Cleared
    <3>2. idt' = [k \in Index |-> idt'[k]]  BY <2>2 DEF Cleared
    <3> QED  BY <2>1, <2>2, <3>1, <3>2 DEF IdtInv
  <2>3. CASE idt_pc' = "fault"  BY <2>1, <2>3 DEF IdtInv
  <2> QED  BY <1>1, <2>2, <2>3 DEF idt_init
<1>2. ASSUME NEW k \in Index, NEW g \in Gates, idt_entry_add(k, g) PROVE IdtInv'
  <2>1. PICK rest \in PoolGarbage : idt' = [idt EXCEPT ![k] = idt_entry_create(g, rest)]
    BY <1>2 DEF idt_entry_add
  <2>2. /\ idt_pc = "ready" /\ gates' = [gates EXCEPT ![k] = g] /\ printed' = << >>
        /\ UNCHANGED <<idt_pc, idt_limit, idtr>>
    BY <1>2 DEF idt_entry_add
  <2>3. gates' \in [Index -> gate]  BY <2>2, GatesAssumption DEF IdtInv
  <2>4. idt' = [n \in Index |-> idt'[n]]  BY <2>1, <2>2 DEF IdtInv
  <2>5. \A n \in Index : HoldsGate(idt'[n], gates'[n])
    <3>1. SUFFICES ASSUME NEW n \in Index PROVE HoldsGate(idt'[n], gates'[n])  OBVIOUS
    <3>2. HoldsGate(idt_entry_create(g, rest), g)  BY NewEntries
    <3>3. CASE n = k
      <4>1. idt'[n] = idt_entry_create(g, rest) /\ gates'[n] = g
        BY <2>1, <2>2, <3>3 DEF IdtInv
      <4> QED  BY <3>2, <4>1
    <3>4. CASE n # k
      <4>1. idt'[n] = idt[n] /\ gates'[n] = gates[n]  BY <2>1, <2>2, <3>4 DEF IdtInv
      <4> QED  BY <2>2, <4>1 DEF IdtInv
    <3> QED  BY <3>3, <3>4
  <2> QED  BY <2>2, <2>3, <2>4, <2>5 DEF IdtInv
<1>3. CASE idt_set  BY <1>3 DEF idt_set, IdtInv
<1>4. CASE dump_idt
  <2>1. /\ idt_pc = "ready" /\ UNCHANGED <<idt_pc, idt, idt_limit, idtr, gates>>
        /\ printed' = [k \in 0 .. (idt_limit + 1) \div 16 - 1 |-> dump_idt_entry(idt[k])]
    BY <1>4 DEF dump_idt
  <2>2. 0 .. (idt_limit + 1) \div 16 - 1 = Index  BY <2>1, WholeTable DEF IdtInv, Index
  <2>3. \A k \in Index : dump_idt_entry(idt[k]) = Line(gates[k])
    BY <2>1, EntryReads DEF IdtInv
  <2>4. printed' = [k \in Index |-> Line(gates[k])]  BY <2>1, <2>2, <2>3
  <2> QED  BY <2>1, <2>4 DEF IdtInv
<1>5. CASE UNCHANGED idtVars  BY <1>5 DEF IdtInv, idtVars
<1> QED  BY <1>1, <1>2, <1>3, <1>4, <1>5 DEF IdtNext

LEMMA IdtInvGatesHold == IdtInv => GatesHold
<1>1. IdtInv => GatesAreLastAdded
  <2> SUFFICES ASSUME IdtInv, idtr # 0, NEW k \in 0 .. (idtr + 1) \div 16 - 1
               PROVE  /\ idt[k].isr1 \cup Shift(idt[k].isr2, 16) \cup Shift(idt[k].isr3, 32)
                           = gates[k].isr
                      /\ idt[k].segment = gates[k].segment /\ idt[k].ist = gates[k].ist
                      /\ idt[k].flags = gates[k].flags
    BY DEF GatesAreLastAdded
  <2>1. idt_pc = "ready" /\ idtr = 16 * IdtEntries - 1  BY DEF IdtInv
  <2>2. k \in Index  BY <2>1, WholeTable DEF Index
  <2>3. gates[k] \in gate /\ HoldsGate(idt[k], gates[k])  BY <2>1, <2>2 DEF IdtInv
  <2> QED  BY <2>3, EntryReads DEF HoldsGate
<1>2. IdtInv => DumpShowsGates  BY DEF IdtInv, DumpShowsGates, Line
<1> QED  BY <1>1, <1>2 DEF GatesHold

(* For a table of any size, any gates and any memory that malloc returned: *)
(* the processor finds at each vector the gate added last, whole, and the  *)
(* dump prints the same.                                                   *)
THEOREM IdtGatesHold == IdtSpec => []GatesHold
BY IdtInvGatesHold, IdtInvInit, IdtInvStep, PTL DEF IdtSpec

-----------------------------------------------------------------------------
(* Induction over numbers, by the least counterexample.                    *)

LEMMA LeastNumber ==
  ASSUME NEW T, T \subseteq Nat, T # {}
  PROVE  \E n \in T : \A k \in T : n <= k
<1> DEFINE R == OpToRel(<, Nat)
<1>1. IsWellFoundedOn(R, Nat)  BY NatLessThanWellFounded
<1>2. \A a, b \in Nat : a < b => <<a, b>> \in R  BY DEF OpToRel
<1> HIDE DEF R
<1>3. PICK n \in T : \A k \in T : ~ (<<k, n>> \in R)  BY <1>1, WFMin
<1>4. \A k \in T : k \in Nat /\ n \in Nat  OBVIOUS
<1>5. \A k \in T : ~ (k < n)  BY <1>2, <1>3, <1>4
<1>6. \A k \in T : n <= k  BY <1>4, <1>5
<1> QED  BY <1>6

(* A set that has 1, and with a number below last the next one, has all of *)
(* the numbers up to last.                                                 *)
LEMMA Induction ==
  ASSUME NEW last \in Nat, NEW S,
         last >= 1 => 1 \in S,
         \A k \in 1 .. last - 1 : k \in S => k + 1 \in S
  PROVE  1 .. last \subseteq S
<1> SUFFICES ASSUME 1 .. last \ S # {} PROVE FALSE  OBVIOUS
<1>1. 1 .. last \ S \subseteq Nat  OBVIOUS
<1>2. PICK n \in 1 .. last \ S : \A k \in 1 .. last \ S : n <= k  BY <1>1, LeastNumber
<1>3. n # 1  BY <1>2
<1>4. n - 1 \in 1 .. last - 1 /\ n - 1 \in 1 .. last /\ ~ (n <= n - 1) /\ (n - 1) + 1 = n
  BY <1>2, <1>3
<1>5. n - 1 \in S  BY <1>2, <1>4
<1> QED  BY <1>2, <1>4, <1>5


(* f is what the steps make of a, one after the other.                     *)
IsScan(f, A, a, n, step) ==
  f \in [0 .. n -> A] /\ f[0] = a /\ \A k \in 1 .. n : f[k] = step[k][f[k - 1]]

(* There is such a function, so that a recursive definition over numbers   *)
(* means what it says.                                                     *)
LEMMA Recursion ==
  ASSUME NEW A, NEW a \in A, NEW n \in Nat, NEW step \in [1 .. n -> [A -> A]]
  PROVE  \E f : IsScan(f, A, a, n, step)
<1> DEFINE Unfolds(f, m) == /\ f \in [0 .. m -> A] /\ f[0] = a
                            /\ \A k \in 1 .. m : f[k] = step[k][f[k - 1]]
           S == {m \in 1 .. n + 1 : \E f : Unfolds(f, m - 1)}
<1>1. 1 \in S
  <2>1. Unfolds([k \in 0 .. 0 |-> a], 1 - 1)  OBVIOUS
  <2> HIDE DEF Unfolds
  <2> QED  BY <2>1
<1>2. ASSUME NEW m \in 1 .. (n + 1) - 1, m \in S PROVE m + 1 \in S
  <2>1. PICK f : Unfolds(f, m - 1)  BY <1>2
  <2>2. m \in 1 .. n /\ f[m - 1] \in A  BY <2>1
  <2> DEFINE g == [k \in 0 .. m |-> IF k = m THEN step[m][f[m - 1]] ELSE f[k]]
  <2>3. step[m][f[m - 1]] \in A  BY <2>2
  <2>4. g \in [0 .. m -> A] /\ g[0] = a  BY <2>1, <2>2, <2>3
  <2>5. ASSUME NEW k \in 1 .. m PROVE g[k] = step[k][g[k - 1]]
    <3>1. CASE k = m  BY <2>2, <3>1
    <3>2. CASE k # m
      <4>1. k \in 1 .. m - 1 /\ k \in 0 .. m /\ k - 1 \in 0 .. m /\ k - 1 # m  BY <3>2
      <4> QED  BY <2>1, <3>2, <4>1
    <3> QED  BY <3>1, <3>2
  <2>6. Unfolds(g, (m + 1) - 1)
    <3>1. (m + 1) - 1 = m  OBVIOUS
    <3>2. Unfolds(g, m)  BY <2>4, <2>5
    <3> HIDE DEF g, Unfolds
    <3> QED  BY <3>1, <3>2
  <2> HIDE DEF g, Unfolds
  <2> QED  BY <2>2, <2>6
<1> HIDE DEF S
<1>3. 1 .. n + 1 \subseteq S
  <2> DEFINE last == n + 1
  <2>1. last \in Nat  OBVIOUS
  <2>2. \A m \in 1 .. last - 1 : m \in S => m + 1 \in S  BY <1>2
  <2> HIDE DEF last
  <2>3. 1 .. last \subseteq S  BY <1>1, <2>1, <2>2, Induction
  <2> QED  BY <2>3 DEF last
<1>4. n + 1 \in S /\ (n + 1) - 1 = n  BY <1>3
<1>5. PICK f : Unfolds(f, n)  BY <1>4 DEF S
<1> QED  BY <1>5 DEF IsScan

-----------------------------------------------------------------------------
(* ACPI tables.                                                            *)

LEMMA SizeT ==
  ASSUME NEW z \in Int
  PROVE  /\ z % AcpiSizeWrap \in Nat
         /\ z >= 0 => z % AcpiSizeWrap <= z
         /\ z >= 0 /\ z < AcpiSizeWrap => z % AcpiSizeWrap = z
<1>1. AcpiSizeWrap \in Nat /\ AcpiSizeWrap > 0  BY HeadersAssumption
<1>2. z % AcpiSizeWrap \in 0 .. AcpiSizeWrap - 1  BY <1>1
<1>3. z >= 0 => z % AcpiSizeWrap <= z
  <2>1. SUFFICES ASSUME z >= 0 PROVE z % AcpiSizeWrap <= z  OBVIOUS
  <2> DEFINE q == z \div AcpiSizeWrap
  <2>2. q \in Int /\ z = AcpiSizeWrap * q + (z % AcpiSizeWrap)  BY <1>1, Z3
  <2> HIDE DEF q
  <2>3. q >= 0
    <3>1. SUFFICES ASSUME q <= -1 PROVE FALSE  BY <2>2
    <3>2. AcpiSizeWrap * q <= AcpiSizeWrap * (-1)  BY <1>1, <2>2, <3>1
    <3> QED  BY <1>1, <1>2, <2>1, <2>2, <3>2
  <2>4. AcpiSizeWrap * q >= 0  BY <1>1, <2>2, <2>3
  <2> QED  BY <1>1, <1>2, <2>2, <2>4
<1>4. z >= 0 /\ z < AcpiSizeWrap => z % AcpiSizeWrap = z  BY <1>1
<1> QED  BY <1>2, <1>3, <1>4

LEMMA RecordLengths ==
  ASSUME NEW r \in Seq(madt_header), NEW k \in 1 .. Len(r)
  PROVE  r[k].RecordLength \in Nat
<1>1. r[k] \in madt_header  OBVIOUS
<1>2. r[k].RecordLength \in 0 .. 255  BY <1>1 DEF madt_header
<1>3. \A n \in 0 .. 255 : n \in Nat  OBVIOUS
<1> QED  BY <1>2, <1>3, Zenon

(* The offsets of the records add up their lengths.                        *)
LEMMA StartsFacts ==
  ASSUME NEW m, m.records \in Seq(madt_header)
  PROVE  /\ Starts(m) \in [1 .. Len(m.records) + 1 -> Nat]
         /\ Starts(m)[1] = 0
         /\ \A k \in 1 .. Len(m.records) :
              Starts(m)[k + 1] = Starts(m)[k] + m.records[k].RecordLength
<1> DEFINE r    == m.records
           last == Len(r) + 1
           Adds(f, n) == /\ f \in [1 .. n -> Nat] /\ f[1] = 0
                         /\ \A k \in 1 .. n - 1 : f[k + 1] = f[k] + r[k].RecordLength
           S == {n \in 1 .. last : \E f : Adds(f, n)}
<1>1. last \in Nat /\ last >= 1 /\ Len(r) \in Nat  OBVIOUS
<1>2. \A k \in 1 .. Len(r) : r[k].RecordLength \in Nat  BY RecordLengths
<1>3. 1 \in S
  <2>1. Adds([k \in 1 .. 1 |-> 0], 1)  OBVIOUS
  <2> HIDE DEF Adds
  <2>2. 1 \in 1 .. last  BY <1>1
  <2> QED  BY <2>1, <2>2
<1>4. ASSUME NEW n \in 1 .. last - 1, n \in S PROVE n + 1 \in S
  <2>1. PICK f : Adds(f, n)  BY <1>4
  <2>2. n \in 1 .. Len(r) /\ f[n] \in Nat  BY <1>1, <1>4, <2>1
  <2> DEFINE g == [k \in 1 .. n + 1 |-> IF k = n + 1 THEN f[n] + r[n].RecordLength ELSE f[k]]
  <2>3. f[n] + r[n].RecordLength \in Nat  BY <1>2, <2>2
  <2>4. g \in [1 .. n + 1 -> Nat]  BY <2>1, <2>2, <2>3
  <2>5. g[1] = 0  BY <2>1, <2>2
  <2>6. ASSUME NEW k \in 1 .. (n + 1) - 1 PROVE g[k + 1] = g[k] + r[k].RecordLength
    <3>1. CASE k = n  BY <2>2, <3>1
    <3>2. CASE k # n
      <4>1. k \in 1 .. n - 1 /\ k + 1 \in 1 .. n + 1 /\ k + 1 # n + 1 /\ k # n + 1
        BY <2>2, <2>6, <3>2
      <4> QED  BY <2>1, <4>1
    <3> QED  BY <3>1, <3>2
  <2>7. Adds(g, n + 1)  BY <2>4, <2>5, <2>6
  <2>8. n + 1 \in 1 .. last  BY <1>1, <1>4
  <2> HIDE DEF g, Adds
  <2> QED  BY <2>7, <2>8
<1> HIDE DEF S
<1>5. 1 .. last \subseteq S  BY <1>1, <1>3, <1>4, Induction
<1>6. last \in S  BY <1>1, <1>5
<1>7. PICK f : Adds(f, last)  BY <1>6 DEF S
<1> DEFINE Body(h) == [k \in 1 .. last |-> IF k = 1 THEN 0 ELSE h[k - 1] + r[k - 1].RecordLength]
<1>8. f = Body(f)
  <2>1. ASSUME NEW k \in 1 .. last PROVE f[k] = Body(f)[k]
    <3>1. CASE k = 1  BY <1>7, <3>1
    <3>2. CASE k # 1
      <4>1. k - 1 \in 1 .. last - 1 /\ (k - 1) + 1 = k  BY <1>1, <2>1, <3>2
      <4> QED  BY <1>7, <3>2, <4>1
    <3> QED  BY <3>1, <3>2
  <2>2. f = [k \in 1 .. last |-> f[k]]  BY <1>7
  <2> QED  BY <2>1, <2>2
<1> DEFINE at == Starts(m)
<1>9. at = CHOOSE h : h = Body(h)  BY DEF Starts
<1>10. at = Body(at)
  <2> HIDE DEF Body, at
  <2> QED  BY <1>8, <1>9
<1> HIDE DEF at
<1>11. at[1] = 0  BY <1>1, <1>10
<1>12. ASSUME NEW k \in 1 .. Len(r) PROVE at[k + 1] = at[k] + r[k].RecordLength
  <2>1. k + 1 \in 1 .. last /\ k + 1 # 1 /\ (k + 1) - 1 = k  BY <1>1, <1>12
  <2> QED  BY <1>10, <2>1
<1>13. at \in [1 .. last -> Nat]
  <2> DEFINE T == {k \in 1 .. last : at[k] \in Nat}
  <2>1. 1 \in T  BY <1>1, <1>11
  <2>2. ASSUME NEW k \in 1 .. last - 1, k \in T PROVE k + 1 \in T
    <3>1. k \in 1 .. Len(r) /\ k + 1 \in 1 .. last  BY <1>1, <2>2
    <3> QED  BY <1>2, <1>12, <2>2, <3>1
  <2> HIDE DEF T
  <2>3. 1 .. last \subseteq T  BY <1>1, <2>1, <2>2, Induction
  <2>4. \A k \in 1 .. last : at[k] \in Nat  BY <2>3 DEF T
  <2>5. at = [k \in 1 .. last |-> at[k]]  BY <1>10
  <2> QED  BY <2>4, <2>5
<1> QED  BY <1>11, <1>12, <1>13 DEF at

(* No record begins behind the end, and records of two bytes or more have  *)
(* room for a header each.                                                 *)
LEMMA StartsBounds ==
  ASSUME NEW m, m.records \in Seq(madt_header)
  PROVE  /\ RecordsSize(m) \in Nat
         /\ \A k \in 1 .. Len(m.records) + 1 : Starts(m)[k] <= RecordsSize(m)
         /\ (\A k \in DOMAIN m.records : m.records[k].RecordLength >= 2) =>
              /\ Len(m.records) <= RecordsSize(m)
              /\ \A k \in 1 .. Len(m.records) : Starts(m)[k] < RecordsSize(m)
<1> DEFINE r    == m.records
           at   == Starts(m)
           last == Len(r) + 1
<1>1. last \in Nat /\ last >= 1 /\ Len(r) \in Nat /\ DOMAIN r = 1 .. Len(r)  OBVIOUS
<1>2. \A k \in 1 .. Len(r) : r[k].RecordLength \in Nat  BY RecordLengths
<1>3. /\ at \in [1 .. last -> Nat] /\ at[1] = 0
      /\ \A k \in 1 .. Len(r) : at[k + 1] = at[k] + r[k].RecordLength
  BY StartsFacts
<1>4. RecordsSize(m) = at[last]  BY DEF RecordsSize
<1> HIDE DEF at
<1>5. \A k \in 1 .. last : at[k] <= at[last]
  <2> DEFINE S == {n \in 1 .. last : \A k \in 1 .. n : at[k] <= at[n]}
  <2>1. 1 \in S  BY <1>1, <1>3
  <2>2. ASSUME NEW n \in 1 .. last - 1, n \in S PROVE n + 1 \in S
    <3>1. n \in 1 .. Len(r) /\ n + 1 \in 1 .. last  BY <1>1, <2>2
    <3>2. at[n + 1] = at[n] + r[n].RecordLength /\ r[n].RecordLength \in Nat
          /\ at[n] \in Nat /\ at[n + 1] \in Nat
      BY <1>2, <1>3, <3>1
    <3>3. ASSUME NEW k \in 1 .. n + 1 PROVE at[k] <= at[n + 1]
      <4>1. CASE k = n + 1  BY <3>2, <4>1
      <4>2. CASE k # n + 1
        <5>1. k \in 1 .. n  BY <3>1, <3>3, <4>2
        <5>2. at[k] <= at[n]  BY <2>2, <5>1
        <5>3. at[k] \in Nat  BY <1>3, <3>1, <5>1
        <5> QED  BY <3>2, <5>2, <5>3
      <4> QED  BY <4>1, <4>2
    <3> QED  BY <3>1, <3>3
  <2> HIDE DEF S
  <2>3. 1 .. last \subseteq S  BY <1>1, <2>1, <2>2, Induction
  <2>4. last \in S  BY <1>1, <2>3
  <2> QED  BY <2>4 DEF S
<1>6. ASSUME \A k \in DOMAIN r : r[k].RecordLength >= 2
      PROVE  Len(r) <= at[last] /\ \A k \in 1 .. Len(r) : at[k] < at[last]
  <2> DEFINE S == {n \in 1 .. last : n - 1 <= at[n]}
  <2>1. 1 \in S  BY <1>1, <1>3
  <2>2. ASSUME NEW n \in 1 .. last - 1, n \in S PROVE n + 1 \in S
    <3>1. n \in 1 .. Len(r) /\ n + 1 \in 1 .. last  BY <1>1, <2>2
    <3>2. at[n + 1] = at[n] + r[n].RecordLength /\ r[n].RecordLength \in Nat
          /\ at[n] \in Nat /\ r[n].RecordLength >= 2
      BY <1>1, <1>2, <1>3, <1>6, <3>1
    <3> QED  BY <2>2, <3>1, <3>2
  <2> HIDE DEF S
  <2>3. 1 .. last \subseteq S  BY <1>1, <2>1, <2>2, Induction
  <2>4. last \in S  BY <1>1, <2>3
  <2>5. Len(r) <= at[last]  BY <1>1, <2>4 DEF S
  <2>6. ASSUME NEW k \in 1 .. Len(r) PROVE at[k] < at[last]
    <3>1. k \in 1 .. last /\ k + 1 \in 1 .. last /\ last \in 1 .. last  BY <1>1, <2>6
    <3>2. at[k + 1] = at[k] + r[k].RecordLength /\ r[k].RecordLength \in Nat
          /\ r[k].RecordLength >= 2
      BY <1>1, <1>2, <1>3, <1>6, <2>6
    <3>3. at[k] \in Nat /\ at[k + 1] \in Nat /\ at[last] \in Nat  BY <1>3, <3>1
    <3>4. at[k + 1] <= at[last]  BY <1>5, <3>1
    <3> QED  BY <3>2, <3>3, <3>4
  <2> QED  BY <2>5, <2>6
<1>7. at[last] \in Nat  BY <1>1, <1>3
<1> QED  BY <1>4, <1>5, <1>6, <1>7 DEF at


(* A table is one of the two kinds.                                        *)
LEMMA TableKinds ==
  /\ \A m \in Madts : /\ m.Length \in Nat /\ m.records \in Seq(madt_header)
                      /\ "records" \in DOMAIN m
                      /\ RecordsSize(m) < AcpiSizeWrap
  /\ \A t \in Xsdts : /\ t.Length \in Nat /\ t.signatures \in Seq(STRING)
                      /\ "records" \notin DOMAIN t
                      /\ 8 * Len(t.signatures) < AcpiSizeWrap
<1>1. ASSUME NEW m \in Madts
      PROVE  m.Length \in Nat /\ m.records \in Seq(madt_header) /\ "records" \in DOMAIN m
  <2>1. m \in [Length: Nat, records: Seq(madt_header)]  BY TablesAssumption
  <2> QED  BY <2>1
<1>2. ASSUME NEW t \in Xsdts
      PROVE  t.Length \in Nat /\ t.signatures \in Seq(STRING) /\ "records" \notin DOMAIN t
  <2>1. t \in [Length: Nat, signatures: Seq(STRING)]  BY TablesAssumption
  <2> QED  BY <2>1
<1> QED  BY <1>1, <1>2, TableSizesAssumption

(* The walk over a MADT is at the beginning of the record it looks at,     *)
(* and has counted those before, if the table is well formed; it stops     *)
(* behind the size, or behind the records.                                 *)
Counted == {k \in Processors : k < entry}

CountInv ==
  /\ walk \in {"count", "outside", "done"}
  /\ entry \in 1 .. Len(table.records) + 1 /\ pos = Starts(table)[entry]
  /\ WellFormed => answer = Cardinality(Counted)
  /\ walk = "outside" => pos < entries_size /\ entry = Len(table.records) + 1
  /\ walk = "done" => pos >= entries_size

(* The search in an XSDT has passed no entry that matches.                 *)
FindInv ==
  /\ walk \in {"find", "outside", "done"}
  /\ entry \in 1 .. Len(table.signatures) + 1
  /\ \A k \in Matching : entry <= k
  /\ walk = "outside" => entry = Len(table.signatures) + 1 /\ entry <= tableCount
  /\ walk = "done" => \/ answer = NULL /\ entry > tableCount
                      \/ answer = entry /\ entry \in Matching

AcpiInv == \/ table \in Madts /\ CountInv
           \/ table \in Xsdts /\ FindInv

LEMMA AcpiInvInit == AcpiInit => AcpiInv
<1> SUFFICES ASSUME AcpiInit PROVE AcpiInv  OBVIOUS
<1>1. CASE walk = "find" /\ table \in Xsdts
  <2>1. entry \in 1 .. Len(table.signatures) + 1 /\ DOMAIN table.signatures = 1 .. Len(table.signatures)
    BY <1>1, TableKinds DEF AcpiInit
  <2> QED  BY <1>1, <2>1 DEF AcpiInit, AcpiInv, FindInv, Matching
<1>2. CASE walk = "count" /\ table \in Madts
  <2>1. table.records \in Seq(madt_header)  BY <1>2, TableKinds
  <2>2. Starts(table)[1] = 0  BY <2>1, StartsFacts
  <2>3. entry \in 1 .. Len(table.records) + 1 /\ DOMAIN table.records = 1 .. Len(table.records)
    BY <2>1 DEF AcpiInit
  <2>4. Counted = {}  BY <2>3 DEF AcpiInit, Counted, Processors
  <2>5. Cardinality(Counted) = 0  BY <2>4, FS_EmptySet
  <2> QED  BY <1>2, <2>2, <2>3, <2>5 DEF AcpiInit, AcpiInv, CountInv
<1> QED  BY <1>1, <1>2 DEF AcpiInit


(* One more record is counted, if it is a processor.                       *)
LEMMA CountsRecord ==
  ASSUME table \in Madts, table' = table, entry \in 1 .. Len(table.records), entry' = entry + 1,
         WellFormed, answer = Cardinality(Counted)
  PROVE  (answer + IF table.records[entry].EntryType = 0 THEN 1 ELSE 0) % AcpiSizeWrap
           = Cardinality(Counted')
<1> DEFINE r == table.records
<1>1. r \in Seq(madt_header) /\ RecordsSize(table) < AcpiSizeWrap /\ IsMadt
  BY TableKinds DEF IsMadt
<1>2. DOMAIN r = 1 .. Len(r) /\ Len(r) \in Nat  BY <1>1
<1>3. \A k \in DOMAIN r : r[k].RecordLength >= 2  BY <1>1 DEF WellFormed
<1>4. RecordsSize(table) \in Nat /\ Len(r) <= RecordsSize(table)  BY <1>1, <1>3, StartsBounds
<1>5. Len(r) < AcpiSizeWrap  BY <1>1, <1>2, <1>4, HeadersAssumption
<1>6. Counted \subseteq 1 .. entry - 1  BY <1>2 DEF Counted, Processors
<1>7. IsFiniteSet(1 .. entry - 1) /\ Cardinality(1 .. entry - 1) = entry - 1
  <2>1. entry \in Int /\ 1 \in Int /\ entry - 1 \in Int /\ 1 <= entry  BY <1>2
  <2> QED  BY <2>1, FS_Interval
<1>8. IsFiniteSet(Counted) /\ Cardinality(Counted) <= entry - 1 /\ Cardinality(Counted) \in Nat
  BY <1>6, <1>7, FS_Subset, FS_CardinalityType
<1>9. Counted' = {k \in Processors : k < entry + 1}  BY DEF Counted, Processors
<1>10. entry \in Int /\ entry < AcpiSizeWrap  BY <1>2, <1>5, HeadersAssumption
<1>11. CASE r[entry].EntryType = 0
  <2>1. Counted' = Counted \cup {entry}
    <3>1. entry \in Processors  BY <1>2, <1>11 DEF Processors
    <3>2. \A k \in Processors : k \in Int /\ (k < entry + 1 <=> k < entry \/ k = entry)
      BY <1>2, <1>10 DEF Processors
    <3> QED  BY <1>9, <3>1, <3>2 DEF Counted
  <2>2. entry \notin Counted  BY <1>10 DEF Counted
  <2>3. Cardinality(Counted') = Cardinality(Counted) + 1
    BY <1>8, <2>1, <2>2, FS_AddElement
  <2>4. (answer + 1) % AcpiSizeWrap = answer + 1
    <3>1. answer + 1 \in Int /\ answer + 1 >= 0 /\ answer + 1 < AcpiSizeWrap
      BY <1>8, <1>10, HeadersAssumption
    <3> QED  BY <3>1, SizeT
  <2> QED  BY <1>11, <2>3, <2>4
<1>12. CASE r[entry].EntryType # 0
  <2>1. Counted' = Counted
    <3>1. entry \notin Processors  BY <1>12 DEF Processors
    <3>2. \A k \in Processors : k \in Int /\ (k < entry + 1 <=> k < entry \/ k = entry)
      BY <1>2, <1>10 DEF Processors
    <3> QED  BY <1>9, <3>1, <3>2 DEF Counted
  <2>2. (answer + 0) % AcpiSizeWrap = answer
    <3>1. answer + 0 = answer /\ answer \in Int /\ answer >= 0 /\ answer < AcpiSizeWrap
      BY <1>8, <1>10, HeadersAssumption
    <3> QED  BY <3>1, SizeT
  <2> QED  BY <1>12, <2>1, <2>2
<1> QED  BY <1>11, <1>12

LEMMA CountStep ==
  ASSUME AcpiInv, madt_get_processor_local_apic_count
  PROVE  AcpiInv'
<1> DEFINE r == table.records
<1>1. walk = "count" /\ table' = table  BY DEF madt_get_processor_local_apic_count
<1>2. table \in Madts /\ CountInv  BY <1>1 DEF AcpiInv, FindInv
<1>3. r \in Seq(madt_header) /\ RecordsSize(table) < AcpiSizeWrap /\ table.Length \in Nat /\ IsMadt
  BY <1>2, TableKinds DEF IsMadt
<1>4. entry \in 1 .. Len(r) + 1 /\ pos = Starts(table)[entry] /\ Len(r) \in Nat
  BY <1>2, <1>3 DEF CountInv
<1>5. /\ WellFormed' <=> WellFormed
      /\ entries_size' = entries_size /\ Starts(table)' = Starts(table)
  BY <1>1 DEF WellFormed, IsMadt, entries_size
<1>6. entries_size \in Nat
  <2>1. table.Length - ApicSize \in Int  BY <1>3, HeadersAssumption
  <2> QED  BY <2>1, SizeT DEF entries_size
<1>7. pos \in Nat /\ pos < AcpiSizeWrap
  <2>1. Starts(table) \in [1 .. Len(r) + 1 -> Nat]  BY <1>3, StartsFacts
  <2>2. pos <= RecordsSize(table) /\ RecordsSize(table) \in Nat  BY <1>3, <1>4, StartsBounds
  <2>3. pos \in Nat  BY <1>4, <2>1
  <2> QED  BY <1>3, <2>2, <2>3, HeadersAssumption
<1>8. CASE pos >= entries_size
  <2>1. walk' = "done" /\ UNCHANGED <<entry, pos, answer>>
    BY <1>8 DEF madt_get_processor_local_apic_count
  <2>2. Counted' = Counted  BY <1>1, <2>1 DEF Counted, Processors
  <2> QED  BY <1>1, <1>2, <1>4, <1>5, <1>8, <2>1, <2>2 DEF AcpiInv, CountInv
<1>9. CASE ~ (pos >= entries_size) /\ entry > Len(r)
  <2>1. walk' = "outside" /\ UNCHANGED <<entry, pos, answer>>
    BY <1>9 DEF madt_get_processor_local_apic_count
  <2>2. Counted' = Counted  BY <1>1, <2>1 DEF Counted, Processors
  <2>3. entry = Len(r) + 1 /\ pos < entries_size  BY <1>4, <1>6, <1>7, <1>9
  <2> QED  BY <1>1, <1>2, <1>4, <1>5, <2>1, <2>2, <2>3 DEF AcpiInv, CountInv
<1>10. CASE ~ (pos >= entries_size) /\ ~ (entry > Len(r))
  <2>1. entry \in 1 .. Len(r)  BY <1>4, <1>10
  <2> DEFINE record == r[entry]
  <2>2. /\ walk' = walk
        /\ answer' = (answer + IF record.EntryType = 0 THEN 1 ELSE 0) % AcpiSizeWrap
        /\ pos' = (pos + record.RecordLength) % AcpiSizeWrap
        /\ entry' = IF record.RecordLength = 0 THEN entry ELSE entry + 1
    BY <1>10 DEF madt_get_processor_local_apic_count, NextRecord
  <2>3. record.RecordLength \in Nat  BY <1>3, <2>1, RecordLengths
  <2>4. Starts(table)[entry + 1] = pos + record.RecordLength
    BY <1>3, <1>4, <2>1, StartsFacts
  <2>5. pos' = pos + record.RecordLength
    <3>1. entry + 1 \in 1 .. Len(r) + 1  BY <2>1, <1>4
    <3>2. pos + record.RecordLength <= RecordsSize(table) /\ RecordsSize(table) \in Nat
      BY <1>3, <2>4, <3>1, StartsBounds
    <3>3. /\ pos + record.RecordLength \in Int /\ pos + record.RecordLength >= 0
          /\ pos + record.RecordLength < AcpiSizeWrap
      BY <1>3, <1>7, <2>3, <3>2, HeadersAssumption
    <3> QED  BY <2>2, <3>3, SizeT
  <2>6. CASE record.RecordLength = 0
    <3>1. entry' = entry /\ pos' = pos  BY <1>7, <2>2, <2>5, <2>6
    <3>2. ~ WellFormed
      <4>1. entry \in DOMAIN r  BY <1>3, <2>1
      <4> QED  BY <1>3, <2>6, <4>1 DEF WellFormed
    <3> QED  BY <1>1, <1>2, <1>4, <1>5, <2>2, <3>1, <3>2 DEF AcpiInv, CountInv
  <2>7. CASE record.RecordLength # 0
    <3>1. entry' = entry + 1 /\ entry' \in 1 .. Len(r) + 1  BY <1>4, <2>1, <2>2, <2>7
    <3>2. pos' = Starts(table)[entry']  BY <2>4, <2>5, <3>1
    <3>3. WellFormed => answer' = Cardinality(Counted')
      BY <1>1, <1>2, <2>1, <2>2, <3>1, CountsRecord DEF CountInv
    <3> QED  BY <1>1, <1>2, <1>5, <2>2, <3>1, <3>2, <3>3 DEF AcpiInv, CountInv
  <2> QED  BY <2>6, <2>7
<1> QED  BY <1>8, <1>9, <1>10

LEMMA FindStep ==
  ASSUME AcpiInv, xsdt_get_table
  PROVE  AcpiInv'
<1> DEFINE s == table.signatures
<1>1. walk = "find" /\ table' = table  BY DEF xsdt_get_table
<1>2. table \in Xsdts /\ FindInv  BY <1>1 DEF AcpiInv, CountInv
<1>3. s \in Seq(STRING) /\ table.Length \in Nat  BY <1>2, TableKinds
<1>4. entry \in 1 .. Len(s) + 1 /\ Len(s) \in Nat /\ DOMAIN s = 1 .. Len(s)
  BY <1>2, <1>3 DEF FindInv
<1>5. tableCount' = tableCount /\ Matching' = Matching  BY <1>1 DEF tableCount, Matching
<1>6. tableCount \in Int
  <2>1. table.Length - SdtSize \in Int  BY <1>3, HeadersAssumption
  <2>2. (table.Length - SdtSize) % AcpiSizeWrap \in Nat  BY <2>1, SizeT
  <2> QED  BY <2>2 DEF tableCount
<1>7. \A k \in Matching : k \in Int /\ entry <= k  BY <1>2, <1>4 DEF FindInv, Matching
<1>8. CASE entry > tableCount
  <2>1. walk' = "done" /\ answer' = NULL /\ entry' = entry  BY <1>8 DEF xsdt_get_table
  <2> QED  BY <1>1, <1>2, <1>4, <1>5, <1>8, <2>1 DEF AcpiInv, FindInv
<1>9. CASE ~ (entry > tableCount) /\ entry > Len(s)
  <2>1. walk' = "outside" /\ entry' = entry  BY <1>9 DEF xsdt_get_table
  <2>2. entry = Len(s) + 1 /\ entry <= tableCount  BY <1>4, <1>6, <1>9
  <2> QED  BY <1>1, <1>2, <1>4, <1>5, <2>1, <2>2 DEF AcpiInv, FindInv
<1>10. CASE ~ (entry > tableCount) /\ ~ (entry > Len(s)) /\ Continue
  <2>1. entry' = entry + 1 /\ walk' = walk  BY <1>10 DEF xsdt_get_table
  <2>2. entry + 1 \in 1 .. Len(s) + 1  BY <1>4, <1>10
  <2>3. entry \notin Matching  BY <1>10 DEF Continue, Matching
  <2>4. \A k \in Matching : entry + 1 <= k
    <3>1. \A k \in Matching : k # entry  BY <2>3
    <3> QED  BY <1>4, <1>7, <3>1
  <2> QED  BY <1>1, <1>2, <1>5, <2>1, <2>2, <2>4 DEF AcpiInv, FindInv
<1>11. CASE ~ (entry > tableCount) /\ ~ (entry > Len(s)) /\ ~ Continue
  <2>1. walk' = "done" /\ answer' = entry /\ entry' = entry  BY <1>11 DEF xsdt_get_table
  <2>2. entry \in DOMAIN s  BY <1>4, <1>11
  <2>3. entry \in Matching  BY <1>11, <2>2 DEF Continue, Matching
  <2> QED  BY <1>1, <1>2, <1>4, <1>5, <2>1, <2>3 DEF AcpiInv, FindInv
<1> QED  BY <1>8, <1>9, <1>10, <1>11

LEMMA AcpiInvStep == AcpiInv /\ [AcpiNext]_acpiVars => AcpiInv'
<1> SUFFICES ASSUME AcpiInv, [AcpiNext]_acpiVars PROVE AcpiInv'  OBVIOUS
<1>1. CASE UNCHANGED acpiVars
  <2>1. table' = table /\ walk' = walk /\ entry' = entry /\ pos' = pos /\ answer' = answer
    BY <1>1 DEF acpiVars
  <2>2. /\ WellFormed' <=> WellFormed
        /\ entries_size' = entries_size /\ tableCount' = tableCount
        /\ Counted' = Counted /\ Matching' = Matching
    BY <2>1 DEF WellFormed, IsMadt, entries_size, tableCount, Counted, Processors, Matching
  <2>3. CountInv => CountInv'  BY <2>1, <2>2 DEF CountInv
  <2>4. FindInv => FindInv'  BY <2>1, <2>2 DEF FindInv
  <2> QED  BY <2>1, <2>3, <2>4 DEF AcpiInv
<1> QED  BY <1>1, CountStep, FindStep DEF AcpiNext

LEMMA AcpiInvWalksRight == AcpiInv => WalksRight
<1> SUFFICES ASSUME AcpiInv PROVE WalksRight  OBVIOUS
<1>1. CASE table \in Madts /\ CountInv
  <2> DEFINE r == table.records
             size == RecordsSize(table)
  <2>1. r \in Seq(madt_header) /\ size < AcpiSizeWrap /\ table.Length \in Nat /\ IsMadt
    BY <1>1, TableKinds DEF IsMadt
  <2>2. /\ size \in Nat /\ Starts(table)[Len(r) + 1] = size
        /\ (\A k \in DOMAIN r : r[k].RecordLength >= 2) =>
             \A k \in 1 .. Len(r) : Starts(table)[k] < size
    BY <2>1, StartsBounds DEF RecordsSize
  <2> HIDE DEF size
  <2>3. ApicSize \in Nat /\ AcpiSizeWrap \in Nat /\ table.Length - ApicSize \in Int
    BY <2>1, HeadersAssumption
  <2>4. /\ entries_size \in Nat
        /\ table.Length >= ApicSize => entries_size <= table.Length - ApicSize
    <3> DEFINE z == table.Length - ApicSize
    <3>1. z \in Int /\ (table.Length >= ApicSize => z >= 0)  BY <2>1, <2>3
    <3> HIDE DEF z
    <3>2. /\ z % AcpiSizeWrap \in Nat
          /\ table.Length >= ApicSize => z % AcpiSizeWrap <= z
      BY <3>1, SizeT
    <3> QED  BY <3>2 DEF z, entries_size
  <2>5. entry \in 1 .. Len(r) + 1 /\ pos = Starts(table)[entry] /\ Len(r) \in Nat
        /\ DOMAIN r = 1 .. Len(r)
    BY <1>1, <2>1 DEF CountInv
  <2>6. LeavesOnlyIfLengthWrong
    <3>1. SUFFICES ASSUME walk = "outside"
                   PROVE  table.Length < ApicSize \/ table.Length > ApicSize + size
      BY <2>1 DEF LeavesOnlyIfLengthWrong, size
    <3>2. size < entries_size  BY <1>1, <2>2, <3>1 DEF CountInv
    <3> QED  BY <2>1, <2>2, <2>3, <2>4, <3>2
  <2>7. ASSUME WellFormed
        PROVE  walk # "outside" /\ (walk = "done" => answer = Cardinality(Processors))
    <3>1. /\ table.Length = ApicSize + size
          /\ \A k \in 1 .. Len(r) : Starts(table)[k] < size
      BY <2>1, <2>2, <2>7 DEF WellFormed, size
    <3>2. entries_size = size
      <4>1. table.Length - ApicSize = size  BY <2>2, <2>3, <3>1
      <4> QED  BY <2>1, <2>2, <4>1, SizeT DEF entries_size
    <3>3. walk # "outside"  BY <1>1, <2>2, <3>2 DEF CountInv
    <3>4. ASSUME walk = "done" PROVE answer = Cardinality(Processors)
      <4>1. pos >= size  BY <1>1, <3>2, <3>4 DEF CountInv
      <4>2. entry \notin 1 .. Len(r)
        <5>1. SUFFICES ASSUME entry \in 1 .. Len(r) PROVE FALSE  OBVIOUS
        <5>2. Starts(table) \in [1 .. Len(r) + 1 -> Nat]  BY <2>1, StartsFacts
        <5>3. pos \in Nat /\ pos < size  BY <2>5, <3>1, <5>1, <5>2
        <5> QED  BY <2>2, <4>1, <5>3
      <4>3. entry = Len(r) + 1  BY <2>5, <4>2
      <4>4. Counted = Processors  BY <2>5, <4>3 DEF Counted, Processors
      <4> QED  BY <1>1, <2>7, <4>4 DEF CountInv
    <3> QED  BY <3>3, <3>4
  <2>8. AnswersRight  BY <2>1, <2>7 DEF AnswersRight
  <2> QED  BY <2>6, <2>8 DEF WalksRight
<1>2. CASE table \in Xsdts /\ FindInv
  <2> DEFINE s == table.signatures
  <2>1. /\ s \in Seq(STRING) /\ table.Length \in Nat /\ ~ IsMadt
        /\ 8 * Len(s) < AcpiSizeWrap /\ Len(s) \in Nat
    BY <1>2, TableKinds DEF IsMadt
  <2>2. DOMAIN s = 1 .. Len(s)  BY <2>1
  <2>3. SdtSize \in Nat /\ AcpiSizeWrap \in Nat /\ table.Length - SdtSize \in Int
    BY <2>1, HeadersAssumption
  <2> DEFINE size == (table.Length - SdtSize) % AcpiSizeWrap
  <2>4. size \in Nat /\ (table.Length >= SdtSize => size <= table.Length - SdtSize)
    <3> DEFINE z == table.Length - SdtSize
    <3>1. z \in Int /\ (table.Length >= SdtSize => z >= 0)  BY <2>1, <2>3
    <3> HIDE DEF z
    <3>2. /\ z % AcpiSizeWrap \in Nat
          /\ table.Length >= SdtSize => z % AcpiSizeWrap <= z
      BY <3>1, SizeT
    <3> QED  BY <3>2 DEF z
  <2>5. tableCount = size \div 8  BY DEF tableCount
  <2> HIDE DEF size
  <2>6. tableCount \in Nat /\ 8 * tableCount <= size  BY <2>4, <2>5
  <2>7. LeavesOnlyIfLengthWrong
    <3>1. SUFFICES ASSUME walk = "outside"
                   PROVE  \/ table.Length < SdtSize
                          \/ table.Length >= SdtSize + 8 * (Len(s) + 1)
      BY <2>1 DEF LeavesOnlyIfLengthWrong
    <3>2. Len(s) + 1 <= tableCount  BY <1>2, <3>1 DEF FindInv
    <3> QED  BY <2>1, <2>3, <2>4, <2>6, <3>2
  <2>8. ASSUME WellFormed
        PROVE  /\ walk # "outside"
               /\ walk = "done" => IF Matching = {} THEN answer = NULL
                                   ELSE answer \in Matching /\ \A k \in Matching : answer <= k
    <3>1. table.Length = SdtSize + 8 * Len(s)  BY <2>1, <2>8 DEF WellFormed
    <3>2. size = 8 * Len(s)
      <4>1. table.Length - SdtSize = 8 * Len(s) /\ 8 * Len(s) \in Int /\ 8 * Len(s) >= 0
        BY <2>1, <2>3, <3>1
      <4> QED  BY <2>1, <4>1, SizeT DEF size
    <3>3. tableCount = Len(s)
      <4>1. \A n \in Nat : (8 * n) \div 8 = n  OBVIOUS
      <4> QED  BY <2>1, <2>5, <3>2, <4>1
    <3>4. walk # "outside"  BY <1>2, <2>1, <3>3 DEF FindInv
    <3>5. \A k \in Matching : k \in Int /\ k <= Len(s) /\ entry <= k
      BY <1>2, <2>2 DEF FindInv, Matching
    <3>6. entry \in Int  BY <1>2, <2>1 DEF FindInv
    <3>7. entry > tableCount => Matching = {}  BY <2>1, <3>3, <3>5, <3>6
    <3> QED  BY <1>2, <3>4, <3>5, <3>7 DEF FindInv
  <2>9. AnswersRight  BY <2>1, <2>8 DEF AnswersRight
  <2> QED  BY <2>7, <2>9 DEF WalksRight
<1> QED  BY <1>1, <1>2 DEF AcpiInv

(* For tables of any number of records and entries, with any lengths: a    *)
(* walk leaves a table only if its Length is wrong, and in a well-formed   *)
(* table it finds the first match and counts every processor once.         *)
THEOREM AcpiWalksRight == AcpiSpec => []WalksRight
BY AcpiInvWalksRight, AcpiInvInit, AcpiInvStep, PTL DEF AcpiSpec


-----------------------------------------------------------------------------
(* Strings.                                                                *)

(* strlen finds the first NUL.                                             *)
LEMMA StrlenFacts ==
  ASSUME NEW m \in Memories, NEW s \in DOMAIN m, IsString(m, s)
  PROVE  /\ Strlen(m, s) \in Nat
         /\ s + Strlen(m, s) \in DOMAIN m /\ m[s + Strlen(m, s)] = 0
         /\ \A k \in 0 .. Strlen(m, s) - 1 : m[s + k] # 0
<1> DEFINE T == {n \in Nat : s + n \in DOMAIN m /\ m[s + n] = 0}
           First(n) == n >= 0 /\ m[s + n] = 0 /\ \A k \in 0 .. n - 1 : m[s + k] # 0
           N == {a - s : a \in DOMAIN m}
<1>1. DOMAIN m \subseteq Int /\ \A a, b \in DOMAIN m : a .. b \subseteq DOMAIN m
  BY MemoriesAssumption
<1>2. T # {}
  <2>1. PICK a \in DOMAIN m : a >= s /\ m[a] = 0  BY DEF IsString
  <2>2. a - s \in Nat /\ s + (a - s) = a  BY <1>1, <2>1
  <2>3. a - s \in T  BY <2>1, <2>2
  <2> QED  BY <2>3
<1>3. T \subseteq Nat  OBVIOUS
<1>4. PICK n \in T : \A k \in T : n <= k  BY <1>2, <1>3, LeastNumber
<1>5. n \in N
  <2>1. s + n \in DOMAIN m /\ (s + n) - s = n  BY <1>1, <1>4
  <2> QED  BY <2>1
<1>6. First(n)
  <2>1. n \in Nat /\ m[s + n] = 0 /\ s + n \in DOMAIN m  BY <1>4
  <2>2. ASSUME NEW k \in 0 .. n - 1 PROVE m[s + k] # 0
    <3>1. k \in Nat /\ ~ (n <= k) /\ s + k \in s .. s + n  BY <1>1, <2>1, <2>2
    <3>2. s + k \in DOMAIN m  BY <1>1, <2>1, <3>1
    <3>3. k \notin T  BY <1>4, <3>1
    <3> QED  BY <3>1, <3>2, <3>3
  <2> QED  BY <2>1, <2>2
<1>7. Strlen(m, s) = CHOOSE z \in N : First(z)  BY DEF Strlen
<1> HIDE DEF First, N
<1>8. Strlen(m, s) \in N /\ First(Strlen(m, s))  BY <1>5, <1>6, <1>7
<1> DEFINE l == Strlen(m, s)
<1>9. l \in Int /\ s + l \in DOMAIN m
  <2>1. PICK a \in DOMAIN m : l = a - s  BY <1>8 DEF N
  <2>2. a \in Int /\ s \in Int /\ s + (a - s) = a  BY <1>1
  <2> QED  BY <2>1, <2>2
<1> QED  BY <1>8, <1>9 DEF First

(* There is only one length.                                               *)
LEMMA StrlenLeast ==
  ASSUME NEW m \in Memories, NEW s \in DOMAIN m, IsString(m, s),
         NEW n \in Nat, m[s + n] = 0
  PROVE  Strlen(m, s) <= n
<1>1. Strlen(m, s) \in Nat /\ \A k \in 0 .. Strlen(m, s) - 1 : m[s + k] # 0  BY StrlenFacts
<1> QED  BY <1>1

(* The bytes that a call has to do with.                                   *)
LengthIn(m) == CASE call.op = "strcpy" -> Strlen(m, call.src) + 1
                 [] call.op = "strcmp" -> IF Strlen(m, call.src) > Strlen(m, call.dest)
                                            THEN Strlen(m, call.src)
                                            ELSE Strlen(m, call.dest)
                 [] OTHER -> call.n

Copies   == {"memcpy", "strcpy", "memset"}
Compares == {"memcmp", "strcmp"}

(* What was called, and that it stays in the memory.                       *)
ArgumentsInv ==
  /\ before \in Memories /\ call \in Calls
  /\ call.op \in {"strcpy", "strcmp"} => IsString(before, call.src)
  /\ call.op = "strcmp" => IsString(before, call.dest)
  /\ length = LengthIn(before)
  /\ call.op = "strcpy" => Bytes(call.dest, length) \subseteq DOMAIN before
  /\ counter \in Nat

(* What is at an address after so many bytes have been copied or filled.   *)
Copied(n, a) == IF a - call.dest \notin 0 .. n - 1 THEN before[a]
                ELSE IF call.op = "memset" THEN call.src % (2 * Half)
                ELSE Source(a - call.dest)

CopyInv ==
  call.op \in Copies =>
    /\ DOMAIN mem = DOMAIN before
    /\ \A a \in DOMAIN before : mem[a] = Copied(counter, a)
    /\ counter <= length
    /\ call.op # "memset" /\ call.dest = call.src => counter = 0
    /\ result = 0 => counter = length \/ (call.op # "memset" /\ call.dest = call.src)

CompareInv ==
  call.op \in Compares =>
    /\ mem = before
    /\ \A k \in 0 .. counter - 1 : mem[call.dest + k] = mem[call.src + k]
    /\ result = 0 => counter >= length
    /\ result \notin {0, NoResult} =>
         /\ counter < length
         /\ mem[call.dest + counter] # mem[call.src + counter]
         /\ result = Ordered(call.dest + counter, call.src + counter)

StringInv == ArgumentsInv /\ CopyInv /\ CompareInv

(* The lengths are natural numbers, and the ranges lie in the memory.      *)
LEMMA ArgumentFacts ==
  ASSUME ArgumentsInv
  PROVE  /\ length \in Nat /\ call.dest \in Int /\ call.src \in Int /\ call.n \in Nat
         /\ call.op \in Copies \cup Compares
         /\ DOMAIN before \subseteq Int /\ before \in [DOMAIN before -> byte]
         /\ call.op \in {"strcpy", "strcmp"} =>
              call.dest \in DOMAIN before /\ call.src \in DOMAIN before
         /\ call.op \in Copies => \A k \in 0 .. length - 1 : call.dest + k \in DOMAIN before
         /\ call.op \in {"memcpy", "strcpy"} =>
              \A k \in 0 .. length - 1 : call.src + k \in DOMAIN before
<1>1. /\ call.op \in {"memcpy", "memset", "strcpy", "memcmp", "strcmp"}
      /\ call.dest \in Int /\ call.src \in Int /\ call.n \in Nat /\ InMemory(call, before)
  BY CallsAssumption DEF ArgumentsInv
<1>2. /\ DOMAIN before \subseteq Int /\ before \in [DOMAIN before -> byte]
      /\ \A a, b \in DOMAIN before : a .. b \subseteq DOMAIN before
  BY MemoriesAssumption DEF ArgumentsInv
<1>3. call.op \in {"strcpy", "strcmp"} => call.dest \in DOMAIN before /\ call.src \in DOMAIN before
  BY <1>1 DEF InMemory
<1>4. CASE call.op = "strcpy"
  <2> DEFINE l == Strlen(before, call.src)
  <2>1. l \in Nat /\ call.src + l \in DOMAIN before /\ call.src \in DOMAIN before
    BY <1>3, <1>4, StrlenFacts DEF ArgumentsInv
  <2>2. length = l + 1  BY <1>4 DEF ArgumentsInv, LengthIn
  <2> HIDE DEF l
  <2>3. \A k \in 0 .. length - 1 : call.dest + k \in Bytes(call.dest, length)
    BY <1>1, <2>1, <2>2 DEF Bytes
  <2>4. \A k \in 0 .. length - 1 : call.dest + k \in DOMAIN before
    BY <1>4, <2>3 DEF ArgumentsInv
  <2>5. \A k \in 0 .. length - 1 : call.src + k \in call.src .. call.src + l
    BY <1>1, <2>1, <2>2
  <2>6. \A k \in 0 .. length - 1 : call.src + k \in DOMAIN before  BY <1>2, <2>1, <2>5
  <2>7. length \in Nat  BY <2>1, <2>2
  <2> QED  BY <1>1, <1>2, <1>3, <1>4, <2>4, <2>6, <2>7 DEF Copies, Compares
<1>5. CASE call.op = "strcmp"
  <2>1. Strlen(before, call.src) \in Nat /\ Strlen(before, call.dest) \in Nat
    BY <1>3, <1>5, StrlenFacts DEF ArgumentsInv
  <2>2. length \in Nat  BY <1>5, <2>1 DEF ArgumentsInv, LengthIn
  <2> QED  BY <1>1, <1>2, <1>3, <1>5, <2>2 DEF Copies, Compares
<1>6. CASE call.op \in {"memcpy", "memset", "memcmp"}
  <2>1. length = call.n /\ length \in Nat  BY <1>1, <1>6 DEF ArgumentsInv, LengthIn
  <2>2. /\ Bytes(call.dest, length) \subseteq DOMAIN before
        /\ call.op # "memset" => Bytes(call.src, length) \subseteq DOMAIN before
    BY <1>1, <1>6, <2>1 DEF InMemory
  <2>3. \A k \in 0 .. length - 1 : /\ call.dest + k \in Bytes(call.dest, length)
                                   /\ call.src + k \in Bytes(call.src, length)
    BY <1>1, <2>1 DEF Bytes
  <2> QED  BY <1>1, <1>2, <1>6, <2>1, <2>2, <2>3 DEF Copies, Compares
<1> QED  BY <1>1, <1>4, <1>5, <1>6


LEMMA StringInvInit == StringInit => StringInv
<1> SUFFICES ASSUME StringInit PROVE StringInv  OBVIOUS
<1>1. mem \in Memories /\ before = mem /\ call \in Calls /\ counter = 0 /\ result = NoResult
  BY DEF StringInit
<1>2. /\ call.op \in {"memcpy", "memset", "strcpy", "memcmp", "strcmp"}
      /\ call.dest \in Int /\ call.src \in Int /\ InMemory(call, before)
  BY <1>1, CallsAssumption
<1>3. length = LengthIn(before)
  BY <1>1 DEF StringInit, Length, LengthIn, CopyLength, CompareLength, strlen
<1>4. /\ call.op \in {"strcpy", "strcmp"} => IsString(before, call.src)
      /\ call.op = "strcmp" => IsString(before, call.dest)
  BY <1>1 DEF StringInit
<1>5. ASSUME call.op = "strcpy" PROVE Bytes(call.dest, length) \subseteq DOMAIN before
  <2>1. call.dest \in DOMAIN before /\ call.src \in DOMAIN before  BY <1>2, <1>5 DEF InMemory
  <2>2. Strlen(before, call.src) \in Nat  BY <1>1, <1>4, <1>5, <2>1, StrlenFacts
  <2>3. length \in Nat /\ length >= 1  BY <1>3, <1>5, <2>2 DEF LengthIn
  <2>4. call.dest + length - 1 \in DOMAIN before  BY <1>1, <1>2, <2>3 DEF StringInit
  <2>5. \A a, b \in DOMAIN before : a .. b \subseteq DOMAIN before  BY <1>1, MemoriesAssumption
  <2> QED  BY <2>1, <2>4, <2>5 DEF Bytes
<1>6. ArgumentsInv  BY <1>1, <1>3, <1>4, <1>5 DEF ArgumentsInv
<1>7. CopyInv
  <2>1. \A a \in DOMAIN before : a - call.dest \notin 0 .. 0 - 1
    BY <1>6, ArgumentFacts
  <2>2. 0 <= length  BY <1>6, ArgumentFacts
  <2> QED  BY <1>1, <2>1, <2>2 DEF CopyInv, Copied, NoResult
<1>8. CompareInv  BY <1>1 DEF CompareInv, NoResult
<1> QED  BY <1>6, <1>7, <1>8 DEF StringInv

LEMMA ModuloFacts ==
  ASSUME NEW c \in Nat, NEW u \in Nat, u > 0
  PROVE  /\ c < u => c % u = c
         /\ c >= u => (c - u) % u = c % u
<1>1. c < u => c % u = c  OBVIOUS
<1>2. ASSUME c >= u PROVE (c - u) % u = c % u
  <2> DEFINE q == c \div u
             r == c % u
             v == (c - u) \div u
             t == (c - u) % u
  <2>1. q \in Int /\ r \in 0 .. u - 1 /\ c = u * q + r  BY Z3
  <2>2. c - u \in Nat  BY <1>2
  <2>3. v \in Int /\ t \in 0 .. u - 1 /\ c - u = u * v + t  BY <2>2, Z3
  <2> HIDE DEF q, r, v, t
  <2>4. u * (v + 1) = u * v + u /\ u * v \in Int /\ u * q \in Int /\ v + 1 \in Int  BY <2>1, <2>3
  <2>5. u * (v + 1) + t = u * q + r  BY <2>1, <2>3, <2>4
  <2>6. ~ (v + 1 < q)
    <3>1. SUFFICES ASSUME v + 1 < q PROVE FALSE  OBVIOUS
    <3>2. PICK d \in Nat : q = (v + 1) + 1 + d
      <4>1. q - (v + 2) \in Nat /\ q = (v + 1) + 1 + (q - (v + 2))  BY <2>1, <2>3, <3>1
      <4> QED  BY <4>1
    <3>3. u * q = u * (v + 1) + u + u * d /\ u * d >= 0 /\ u * d \in Int /\ u * (v + 1) \in Int
      BY <2>3, <3>2
    <3> QED  BY <2>1, <2>3, <2>5, <3>3
  <2>7. ~ (q < v + 1)
    <3>1. SUFFICES ASSUME q < v + 1 PROVE FALSE  OBVIOUS
    <3>2. PICK d \in Nat : v + 1 = q + 1 + d
      <4>1. v - q \in Nat /\ v + 1 = q + 1 + (v - q)  BY <2>1, <2>3, <3>1
      <4> QED  BY <4>1
    <3>3. u * (v + 1) = u * q + u + u * d /\ u * d >= 0 /\ u * d \in Int /\ u * q \in Int
      BY <2>1, <3>2
    <3> QED  BY <2>1, <2>3, <2>5, <3>3
  <2>8. q = v + 1  BY <2>1, <2>3, <2>6, <2>7
  <2>9. r = t  BY <2>1, <2>3, <2>4, <2>5, <2>8
  <2> QED  BY <2>9 DEF r, t
<1> QED  BY <1>1, <1>2

(* The byte that memcpy reads is the one that it is said to copy, also if  *)
(* it has been written before.                                             *)
LEMMA ReadsSource ==
  ASSUME StringInv, call.op \in {"memcpy", "strcpy"}, counter < length, call.dest # call.src
  PROVE  mem[call.src + counter] = Source(counter)
<1> DEFINE up == call.dest - call.src
           s  == call.src + counter
<1>1. /\ call.dest \in Int /\ call.src \in Int /\ length \in Nat /\ counter \in Nat
      /\ \A k \in 0 .. length - 1 : call.src + k \in DOMAIN before
  BY ArgumentFacts DEF StringInv, ArgumentsInv
<1>2. s \in DOMAIN before  BY <1>1
<1>3. mem[s] = IF s - call.dest \notin 0 .. counter - 1 THEN before[s]
               ELSE Source(s - call.dest)
  BY <1>2 DEF StringInv, CopyInv, Copied, Copies
<1>4. up \in Int /\ up # 0 /\ s - call.dest = counter - up  BY <1>1
<1>5. CASE up < 0
  <2>1. s - call.dest \notin 0 .. counter - 1  BY <1>1, <1>4, <1>5
  <2> QED  BY <1>3, <1>5, <1>4, <2>1 DEF Source
<1>6. CASE up > 0 /\ counter < up
  <2>1. s - call.dest \notin 0 .. counter - 1  BY <1>1, <1>4, <1>6
  <2>2. up \in Nat /\ counter % up = counter  BY <1>1, <1>4, <1>6, ModuloFacts
  <2> QED  BY <1>3, <1>6, <2>1, <2>2 DEF Source
<1>7. CASE up > 0 /\ counter >= up
  <2>1. s - call.dest \in 0 .. counter - 1  BY <1>1, <1>4, <1>7
  <2>2. up \in Nat /\ (counter - up) % up = counter % up  
    <3>1. up \in Nat /\ up > 0 /\ counter >= up /\ counter \in Nat  BY <1>1, <1>4, <1>7
    <3> HIDE DEF up
    <3> QED  BY <3>1, ModuloFacts
  <2>3. mem[s] = Source(counter - up)  BY <1>3, <1>4, <2>1
  <2> QED  BY <1>7, <2>2, <2>3 DEF Source
<1> QED  BY <1>1, <1>4, <1>5, <1>6, <1>7

(* One more byte is copied or filled.                                      *)
LEMMA WritesByte ==
  ASSUME StringInv, call.op \in Copies, counter < length,
         call.op # "memset" => call.dest # call.src,
         UNCHANGED <<before, call, length, result>>, result = NoResult, counter' = counter + 1,
         NEW b, mem' = [mem EXCEPT ![call.dest + counter] = b],
         b = IF call.op = "memset" THEN call.src % (2 * Half) ELSE Source(counter)
  PROVE  StringInv'
<1>1. /\ call.dest \in Int /\ length \in Nat /\ counter \in Nat /\ DOMAIN before \subseteq Int
      /\ \A k \in 0 .. length - 1 : call.dest + k \in DOMAIN before
  BY ArgumentFacts DEF StringInv, ArgumentsInv
<1>2. DOMAIN mem = DOMAIN before /\ \A a \in DOMAIN before : mem[a] = Copied(counter, a)
  BY DEF StringInv, CopyInv
<1>3. ArgumentsInv'  BY <1>1 DEF StringInv, ArgumentsInv, LengthIn
<1>4. CompareInv'  BY DEF CompareInv, Copies, Compares
<1>5. ASSUME NEW a \in DOMAIN before PROVE mem'[a] = Copied(counter + 1, a)
  <2>1. a \in Int /\ a - call.dest \in Int  BY <1>1, <1>5
  <2>2. CASE a = call.dest + counter
    <3>1. a - call.dest = counter /\ counter \in 0 .. (counter + 1) - 1  BY <1>1, <2>2
    <3>2. mem'[a] = b  BY <1>2, <2>2
    <3> QED  BY <3>1, <3>2 DEF Copied
  <2>3. CASE a # call.dest + counter
    <3>1. a - call.dest # counter  BY <1>1, <2>1, <2>3
    <3>2. a - call.dest \in 0 .. (counter + 1) - 1 <=> a - call.dest \in 0 .. counter - 1
      BY <1>1, <2>1, <3>1
    <3>3. mem'[a] = Copied(counter, a)  BY <1>2, <2>3
    <3> QED  BY <3>2, <3>3 DEF Copied
  <2> QED  BY <2>2, <2>3
<1>6. \A a \in DOMAIN before : mem'[a] = Copied(counter, a)'
  BY <1>5 DEF Copied, Source
<1>7. counter' <= length'  BY <1>1
<1>8. CopyInv'  BY <1>2, <1>6, <1>7 DEF CopyInv, NoResult
<1> QED  BY <1>3, <1>4, <1>8 DEF StringInv

LEMMA StringInvStep == StringInv /\ [StringNext]_stringVars => StringInv'
<1> SUFFICES ASSUME StringInv, [StringNext]_stringVars PROVE StringInv'  OBVIOUS
<1>1. length \in Nat /\ counter \in Nat  BY ArgumentFacts DEF StringInv, ArgumentsInv
<1>2. ASSUME UNCHANGED <<before, call, length>>, UNCHANGED <<mem, counter>>
      PROVE  /\ ArgumentsInv'
             /\ \A a \in DOMAIN before : Copied(counter, a)' = Copied(counter, a)
  BY <1>2 DEF StringInv, ArgumentsInv, LengthIn, Copied, Source
<1>3. CASE memcpy /\ UNCHANGED <<before, call, length>>
  <2>1. result = NoResult /\ call.op \in {"memcpy", "strcpy"}  BY <1>3 DEF memcpy, Running
  <2>2. CASE call.dest = call.src \/ counter >= length
    <3>1. result' = 0 /\ UNCHANGED <<mem, counter>>  BY <1>3, <2>2 DEF memcpy, Return
    <3>2. CopyInv /\ counter <= length  BY <2>1 DEF StringInv, CopyInv, Copies
    <3>3. counter = length \/ call.dest = call.src  BY <1>1, <2>2, <3>2
    <3> QED  BY <1>2, <1>3, <2>1, <3>1, <3>2, <3>3
             DEF StringInv, CopyInv, CompareInv, Copies, Compares
  <2>3. CASE ~ (call.dest = call.src \/ counter >= length)
    <3>1. /\ mem' = [mem EXCEPT ![call.dest + counter] = mem[call.src + counter]]
          /\ counter' = counter + 1 /\ result' = result
      BY <1>3, <2>3 DEF memcpy
    <3>2. counter < length /\ call.dest # call.src  BY <1>1, <2>3
    <3>3. mem[call.src + counter] = Source(counter)  BY <2>1, <3>2, ReadsSource
    <3>4. call.op \in Copies /\ call.op # "memset"  BY <2>1 DEF Copies
    <3> QED  BY <1>3, <2>1, <3>1, <3>2, <3>3, <3>4, WritesByte
  <2> QED  BY <2>2, <2>3
<1>4. CASE memset /\ UNCHANGED <<before, call, length>>
  <2>1. result = NoResult /\ call.op = "memset"  BY <1>4 DEF memset, Running
  <2>2. CASE counter >= length
    <3>1. result' = 0 /\ UNCHANGED <<mem, counter>>  BY <1>4, <2>2 DEF memset, Return
    <3>2. CopyInv /\ counter <= length  BY <2>1 DEF StringInv, CopyInv, Copies
    <3>3. counter = length  BY <1>1, <2>2, <3>2
    <3> QED  BY <1>2, <1>4, <2>1, <3>1, <3>2, <3>3
             DEF StringInv, CopyInv, CompareInv, Copies, Compares
  <2>3. CASE ~ (counter >= length)
    <3>1. /\ mem' = [mem EXCEPT ![call.dest + counter] = call.src % (2 * Half)]
          /\ counter' = counter + 1 /\ result' = result
      BY <1>4, <2>3 DEF memset, unsigned_char
    <3>2. counter < length  BY <1>1, <2>3
    <3>3. call.op \in Copies  BY <2>1 DEF Copies
    <3> QED  BY <1>4, <2>1, <3>1, <3>2, <3>3, WritesByte
  <2> QED  BY <2>2, <2>3
<1>5. CASE memcmp /\ UNCHANGED <<before, call, length>>
  <2> DEFINE s1 == call.dest + counter
             s2 == call.src + counter
  <2>1. result = NoResult /\ call.op \in Compares  BY <1>5 DEF memcmp, Running, Compares
  <2>2. /\ mem = before /\ call.op \notin Copies
        /\ \A k \in 0 .. counter - 1 : mem[call.dest + k] = mem[call.src + k]
    BY <2>1 DEF StringInv, CompareInv, Compares, Copies
  <2>3. CASE counter >= length
    <3>1. result' = 0 /\ UNCHANGED <<mem, counter>>  BY <1>5, <2>3 DEF memcmp, Return
    <3>2. ArgumentsInv'  BY <1>2, <1>5, <3>1
    <3> QED  BY <1>5, <2>2, <2>3, <3>1, <3>2 DEF StringInv, CopyInv, CompareInv
  <2>4. CASE ~ (counter >= length) /\ mem[s1] # mem[s2]
    <3>1. result' = Ordered(s1, s2) /\ UNCHANGED <<mem, counter>>
      BY <1>5, <2>4 DEF memcmp, Return, Different
    <3>2. ArgumentsInv' /\ Ordered(s1, s2)' = Ordered(s1, s2)
      BY <1>2, <1>5, <3>1 DEF Ordered, char
    <3>3. counter < length /\ result' # 0  BY <1>1, <2>4, <3>1 DEF Ordered
    <3> QED  BY <1>5, <2>2, <2>4, <3>1, <3>2, <3>3 DEF StringInv, CopyInv, CompareInv
  <2>5. CASE ~ (counter >= length) /\ mem[s1] = mem[s2]
    <3>1. counter' = counter + 1 /\ UNCHANGED <<mem, result>>
      BY <1>5, <2>5 DEF memcmp, Different
    <3>2. \A k \in 0 .. (counter + 1) - 1 : k \in 0 .. counter - 1 \/ k = counter  BY <1>1
    <3>3. \A k \in 0 .. (counter + 1) - 1 : mem[call.dest + k] = mem[call.src + k]
      BY <2>2, <2>5, <3>2
    <3>4. ArgumentsInv'  BY <1>1, <1>5, <3>1 DEF StringInv, ArgumentsInv, LengthIn
    <3> QED  BY <1>5, <2>1, <2>2, <3>1, <3>3, <3>4 DEF StringInv, CopyInv, CompareInv, NoResult
  <2> QED  BY <2>3, <2>4, <2>5
<1>6. CASE UNCHANGED stringVars
  <2>1. UNCHANGED <<before, call, length, mem, counter, result>>  BY <1>6 DEF stringVars
  <2>2. CopyInv'  BY <1>2, <2>1 DEF StringInv, CopyInv
  <2>3. CompareInv'  BY <2>1 DEF StringInv, CompareInv, Ordered, char
  <2> QED  BY <1>2, <2>1, <2>2, <2>3 DEF StringInv
<1> QED  BY <1>3, <1>4, <1>5, <1>6 DEF StringNext


LEMMA StringInvCopiedExactly == StringInv => CopiedExactly
<1> SUFFICES ASSUME StringInv, result = 0, call.op \in Copies, NEW a \in DOMAIN mem
             PROVE  mem[a] = Copied(IF call.op = "strcpy" THEN Strlen(before, call.src) + 1
                                    ELSE call.n, a)
  BY DEF CopiedExactly, Copied, Copies
<1>1. /\ length \in Nat /\ call.dest \in Int /\ call.src \in Int
      /\ DOMAIN before \subseteq Int
  BY ArgumentFacts DEF StringInv
<1>2. length = IF call.op = "strcpy" THEN Strlen(before, call.src) + 1 ELSE call.n
  BY DEF StringInv, ArgumentsInv, LengthIn, Copies
<1>3. /\ a \in DOMAIN before /\ mem[a] = Copied(counter, a)
      /\ call.op # "memset" /\ call.dest = call.src => counter = 0
      /\ counter = length \/ (call.op # "memset" /\ call.dest = call.src)
  BY DEF StringInv, CopyInv
<1>4. CASE counter = length  BY <1>2, <1>3, <1>4
<1>5. CASE call.op # "memset" /\ call.dest = call.src
  <2>1. a \in Int /\ a - call.dest \notin 0 .. 0 - 1  BY <1>1, <1>3
  <2>2. mem[a] = before[a]  BY <1>3, <1>5, <2>1 DEF Copied
  <2>3. call.dest - call.src = 0 /\ call.src + (a - call.dest) = a  BY <1>1, <1>5, <2>1
  <2>4. Source(a - call.dest) = before[a]  BY <2>3 DEF Source
  <2> QED  BY <1>5, <2>2, <2>4 DEF Copied
<1> QED  BY <1>3, <1>4, <1>5

(* For memories of any size and any arguments that lie in them: memcpy,    *)
(* strcpy and memset leave behind what they should, overlapping ranges     *)
(* included, and change no other byte.                                     *)
THEOREM StringsCopiedExactly == StringSpec => []CopiedExactly
BY StringInvCopiedExactly, StringInvInit, StringInvStep, PTL DEF StringSpec

(* As long as two strings agree, a comparison has passed the NUL of        *)
(* neither, or they are the same.                                          *)
LEMMA AgreeingStrings ==
  ASSUME StringInv, call.op = "strcmp"
  PROVE  LET d == Strlen(before, call.dest)
             s == Strlen(before, call.src)
         IN  /\ d \in Nat /\ s \in Nat
             /\ counter > d => s = d
             /\ counter > s => s = d
             /\ before[call.dest + d] = 0 /\ before[call.src + s] = 0
<1> DEFINE d == Strlen(before, call.dest)
           s == Strlen(before, call.src)
<1>1. /\ before \in Memories /\ call.dest \in DOMAIN before /\ call.src \in DOMAIN before
      /\ IsString(before, call.src) /\ IsString(before, call.dest) /\ counter \in Nat
  BY ArgumentFacts DEF StringInv, ArgumentsInv
<1>2. \A k \in 0 .. counter - 1 : before[call.dest + k] = before[call.src + k]
  BY DEF StringInv, CompareInv, Compares
<1>3. d \in Nat /\ before[call.dest + d] = 0  BY <1>1, StrlenFacts
<1>4. s \in Nat /\ before[call.src + s] = 0  BY <1>1, StrlenFacts
<1>5. \A k \in Nat : before[call.dest + k] = 0 => d <= k  BY <1>1, StrlenLeast
<1>6. \A k \in Nat : before[call.src + k] = 0 => s <= k  BY <1>1, StrlenLeast
<1> HIDE DEF d, s
<1>7. counter > d => s <= d
  <2>1. counter > d => d \in 0 .. counter - 1  BY <1>1, <1>3
  <2> QED  BY <1>2, <1>3, <1>6, <2>1
<1>8. counter > s => d <= s
  <2>1. counter > s => s \in 0 .. counter - 1  BY <1>1, <1>4
  <2> QED  BY <1>2, <1>4, <1>5, <2>1
<1>9. counter > d => s = d  BY <1>1, <1>3, <1>4, <1>7, <1>8
<1>10. counter > s => s = d  BY <1>1, <1>3, <1>4, <1>7, <1>8
<1> QED  BY <1>3, <1>4, <1>9, <1>10 DEF d, s

LEMMA StringInvComparesStrings == StringInv => ComparesStrings
<1>1. StringInv => StopsAtNul
  <2> SUFFICES ASSUME StringInv, call.op = "strcmp", counter < length
               PROVE  counter <= Strlen(mem, call.dest) /\ counter <= Strlen(mem, call.src)
    BY DEF StopsAtNul, strlen
  <2> DEFINE d == Strlen(before, call.dest)
             s == Strlen(before, call.src)
  <2>1. d \in Nat /\ s \in Nat /\ (counter > d => s = d) /\ (counter > s => s = d)
    BY AgreeingStrings
  <2>2. mem = before /\ counter \in Nat  BY DEF StringInv, CompareInv, ArgumentsInv, Compares
  <2>3. length = IF s > d THEN s ELSE d  BY DEF StringInv, ArgumentsInv, LengthIn
  <2> HIDE DEF d, s
  <2>4. counter <= d /\ counter <= s  BY <2>1, <2>2, <2>3
  <2> QED  BY <2>2, <2>4 DEF d, s
<1>2. StringInv => ComparesFirstDifference
  <2> SUFFICES ASSUME StringInv, result # NoResult, call.op \in Compares
               PROVE  ComparesFirstDifference
    BY DEF ComparesFirstDifference, Compares
  <2> DEFINE d == Strlen(mem, call.dest)
             s == Strlen(mem, call.src)
             n == IF call.op = "memcmp" THEN call.n ELSE IF d < s THEN d + 1 ELSE s + 1
  <2>1. /\ mem = before /\ counter \in Nat
        /\ \A k \in 0 .. counter - 1 : mem[call.dest + k] = mem[call.src + k]
    BY DEF StringInv, CompareInv, ArgumentsInv
  <2>2. length \in Nat /\ call.n \in Nat  BY ArgumentFacts DEF StringInv
  <2>3. call.op = "strcmp" =>
          /\ d \in Nat /\ s \in Nat /\ (counter > d => s = d) /\ (counter > s => s = d)
          /\ mem[call.dest + d] = 0 /\ mem[call.src + s] = 0
          /\ length = IF s > d THEN s ELSE d
    BY <2>1, AgreeingStrings DEF StringInv, ArgumentsInv, LengthIn
  <2>4. call.op = "memcmp" => length = call.n  BY DEF StringInv, ArgumentsInv, LengthIn
  <2>5. call.op = "memcmp" \/ call.op = "strcmp"  BY DEF Compares
  <2>6. ComparesFirstDifference <=>
          IF Differ(n) = {} THEN result = 0
          ELSE \E k \in Differ(n) : /\ \A l \in Differ(n) : k <= l
                                    /\ result = Ordered(call.dest + k, call.src + k)
    BY DEF ComparesFirstDifference, strlen, Compares, Ordered
  <2> HIDE DEF d, s
  <2>7. n \in Nat  BY <2>2, <2>3, <2>5
  <2>8. CASE result = 0
    <3>1. counter >= length  BY <2>8 DEF StringInv, CompareInv
    <3>2. ASSUME NEW k \in 0 .. n - 1 PROVE mem[call.dest + k] = mem[call.src + k]
      <4>1. CASE call.op = "memcmp"
        <5>1. k \in 0 .. counter - 1  BY <2>1, <2>2, <2>4, <2>7, <3>1, <3>2, <4>1
        <5> QED  BY <2>1, <5>1
      <4>2. CASE call.op = "strcmp"
        <5>1. d = s  BY <2>1, <2>3, <3>1, <4>2
        <5>2. counter >= d /\ n = d + 1 /\ d \in Nat  BY <2>1, <2>3, <3>1, <4>2, <5>1
        <5>3. k \in 0 .. counter - 1 \/ k = d  BY <2>1, <3>2, <5>2
        <5> QED  BY <2>1, <2>3, <4>2, <5>1, <5>3
      <4> QED  BY <2>5, <4>1, <4>2
    <3>3. Differ(n) = {}  BY <3>2 DEF Differ
    <3> QED  BY <2>6, <2>8, <3>3
  <2>9. CASE result # 0
    <3>1. /\ counter < length /\ mem[call.dest + counter] # mem[call.src + counter]
          /\ result = Ordered(call.dest + counter, call.src + counter)
      BY <2>9 DEF StringInv, CompareInv
    <3>2. counter < n
      <4>1. CASE call.op = "memcmp"  BY <2>4, <3>1, <4>1
      <4>2. CASE call.op = "strcmp"
        <5>1. counter <= d /\ counter <= s  BY <2>1, <2>3, <3>1, <4>2
        <5> QED  BY <2>1, <2>3, <4>2, <5>1
      <4> QED  BY <2>5, <4>1, <4>2
    <3> HIDE DEF n
    <3>3. counter \in Differ(n)  BY <2>1, <2>7, <3>1, <3>2 DEF Differ
    <3>4. ASSUME NEW l \in Differ(n) PROVE counter <= l
      <4>1. l \in 0 .. n - 1 /\ mem[call.dest + l] # mem[call.src + l]  BY <3>4 DEF Differ
      <4>2. l \notin 0 .. counter - 1  BY <2>1, <4>1
      <4> QED  BY <2>1, <2>7, <4>1, <4>2
    <3> QED  BY <2>6, <3>1, <3>3, <3>4
  <2> QED  BY <2>8, <2>9
<1> QED  BY <1>1, <1>2 DEF ComparesStrings

(* For memories of any size: memcmp and strcmp are decided by the first    *)
(* difference, and strcmp reads neither string past its NUL although it    *)
(* runs over the longer of the two.                                        *)
THEOREM StringsCompared == StringSpec => []ComparesStrings
BY StringInvComparesStrings, StringInvInit, StringInvStep, PTL DEF StringSpec

-----------------------------------------------------------------------------
(* Numerals.  The digits that itoa has written and what is left of the     *)
(* number make up the number, and reverse_string has put as many of them   *)
(* in their places as it has counted.                                      *)

(* LeftOfLongest and ValueUpTo, unfolded.                                  *)
LEMMA LongestFacts ==
  /\ LeftOfLongest \in [0 .. StackAlign - 2 -> Nat]
  /\ LeftOfLongest[0] = -IntMin
  /\ \A k \in 1 .. StackAlign - 2 : LeftOfLongest[k] = LeftOfLongest[k - 1] \div 10
<1> DEFINE n    == StackAlign - 2
           step == [k \in 1 .. n |-> [v \in Nat |-> v \div 10]]
           Body(h) == [k \in 0 .. n |-> IF k = 0 THEN -IntMin ELSE h[k - 1] \div 10]
<1>1. n \in Nat /\ -IntMin \in Nat  BY TempAssumption, IntMinAssumption
<1> HIDE DEF n
<1>2. PICK f : IsScan(f, Nat, -IntMin, n, step)
  <2>1. step \in [1 .. n -> [Nat -> Nat]]  OBVIOUS
  <2> HIDE DEF step
  <2> QED  BY <1>1, <2>1, Recursion, Zenon
<1>3. \A k \in 1 .. n : f[k] = f[k - 1] \div 10
  <2>1. \A k \in 1 .. n : f[k - 1] \in Nat  BY <1>1, <1>2 DEF IsScan
  <2> QED  BY <1>2, <2>1 DEF IsScan
<1>4. f = Body(f)  BY <1>1, <1>2, <1>3 DEF IsScan
<1>5. LeftOfLongest = CHOOSE h : h = Body(h)  BY DEF LeftOfLongest, n
<1> DEFINE left == LeftOfLongest
<1>6. left = Body(left)
  <2> HIDE DEF Body
  <2> QED  BY <1>4, <1>5
<1> HIDE DEF left
<1>7. left[0] = -IntMin /\ \A k \in 1 .. n : left[k] = left[k - 1] \div 10
  <2>1. left[0] = -IntMin  BY <1>1, <1>6
  <2>2. ASSUME NEW k \in 1 .. n PROVE left[k] = left[k - 1] \div 10
    <3>1. k \in 0 .. n /\ k # 0  BY <1>1
    <3> QED  BY <1>6, <3>1
  <2> QED  BY <2>1, <2>2
<1>8. \A k \in 0 .. n : left[k] = f[k]
  <2> DEFINE S == {m \in 1 .. n + 1 : left[m - 1] = f[m - 1]}
             last == n + 1
  <2>1. last \in Nat /\ 1 \in S  BY <1>1, <1>2, <1>7 DEF IsScan
  <2>2. ASSUME NEW m \in 1 .. last - 1, m \in S PROVE m + 1 \in S
    <3>1. m \in 1 .. n /\ (m + 1) - 1 = m /\ m + 1 \in 1 .. n + 1  BY <1>1, <2>2
    <3> QED  BY <1>3, <1>7, <2>2, <3>1
  <2> HIDE DEF S, last
  <2>3. 1 .. last \subseteq S  BY <2>1, <2>2, Induction
  <2>4. ASSUME NEW k \in 0 .. n PROVE left[k] = f[k]
    <3>1. k + 1 \in 1 .. last /\ (k + 1) - 1 = k  BY <1>1 DEF last
    <3> QED  BY <2>3, <3>1 DEF S
  <2> QED  BY <2>4
<1>9. left = f  BY <1>1, <1>2, <1>6, <1>8 DEF IsScan
<1> QED  BY <1>2, <1>3, <1>9 DEF n, left, IsScan

LEMMA ValueFacts ==
  ASSUME Numeral \in Seq(Int), base \in Int
  PROVE  /\ ValueUpTo[0] = 0
         /\ \A k \in 1 .. Len(Numeral) : ValueUpTo[k] = base * ValueUpTo[k - 1] + Numeral[k]
<1> DEFINE s == Numeral
           n == Len(s)
           step == [k \in 1 .. n |-> [v \in Int |-> base * v + s[k]]]
           Body(h) == [k \in 0 .. n |-> IF k = 0 THEN 0 ELSE base * h[k - 1] + s[k]]
<1>1. n \in Nat /\ \A k \in 1 .. n : s[k] \in Int  OBVIOUS
<1>2. ValueUpTo = CHOOSE h : h = Body(h)  BY DEF ValueUpTo
<1> HIDE DEF n, s
<1>3. PICK f : IsScan(f, Int, 0, n, step)
  <2>1. step \in [1 .. n -> [Int -> Int]]  BY <1>1
  <2>2. 0 \in Int  OBVIOUS
  <2> HIDE DEF step
  <2> QED  BY <1>1, <2>1, <2>2, Recursion, Zenon
<1>4. \A k \in 1 .. n : f[k] = base * f[k - 1] + s[k]
  <2>1. \A k \in 1 .. n : f[k - 1] \in Int  BY <1>1, <1>3 DEF IsScan
  <2> QED  BY <1>3, <2>1 DEF IsScan
<1>5. f = Body(f)  BY <1>1, <1>3, <1>4 DEF IsScan
<1>6. ValueUpTo = Body(ValueUpTo)
  <2> HIDE DEF Body
  <2> QED  BY <1>2, <1>5
<1> DEFINE value == ValueUpTo
<1> HIDE DEF value
<1>7. value[0] = 0 /\ \A k \in 1 .. n : value[k] = base * value[k - 1] + s[k]
  BY <1>1, <1>6 DEF value
<1> QED  BY <1>7 DEF n, s, value

(* The arguments that have a numeral, and the number that its digits are.  *)
HasNumeral == arg >= 0 \/ (base = 10 /\ arg # IntMin)
Magnitude  == IF arg < 0 /\ base = 10 THEN -arg ELSE arg

(* d has the first n digits of a number, lowest first; left[j] is what is  *)
(* left of it when j digits have been taken.                               *)
AreDigits(left, d, n) ==
  /\ left \in [0 .. n -> Nat] /\ left[0] = Magnitude
  /\ \A j \in 1 .. n : /\ d[j] \in 0 .. base - 1
                       /\ left[j - 1] = base * left[j] + d[j] /\ left[j - 1] # 0

ItoaTypeInv ==
  /\ arg \in IntMin .. -IntMin - 1 /\ base \in Bases
  /\ num \in Int /\ str \in Seq(Int) /\ copy \in Seq(Int) /\ c1 \in Nat
  /\ itoa_pc \in {"sign", "digits", "reverse", "done", "corrupt"}
  /\ itoa_pc = "sign" => num = arg /\ ~ negative /\ str = << >>
  /\ itoa_pc \in {"sign", "digits"} => c1 = 0
  /\ itoa_pc \in {"digits", "reverse"} => arg # 0
  /\ itoa_pc \in {"digits", "reverse"} => (negative <=> arg < 0 /\ base = 10)

DigitsInv ==
  itoa_pc = "digits" /\ HasNumeral =>
    \E left : AreDigits(left, str, Len(str)) /\ left[Len(str)] = num

(* copy has the digits, and the sign behind them.                          *)
CopyDone == \E left, n : /\ n \in Nat \ {0} /\ AreDigits(left, copy, n) /\ left[n] = 0
                         /\ IF arg < 0 /\ base = 10
                              THEN Len(copy) = n + 1 /\ copy[n + 1] = -3
                              ELSE Len(copy) = n

(* The characters before c1 are in their places.                           *)
ReverseInv ==
  /\ itoa_pc \in {"reverse", "done"} /\ arg # 0 =>
       /\ Len(str) = Len(copy) /\ c1 <= Len(copy)
       /\ \A k \in 1 .. Len(copy) : str[k] = IF k <= c1 THEN copy[Len(copy) - k + 1] ELSE copy[k]
       /\ itoa_pc = "done" => c1 = Len(copy)
       /\ HasNumeral => CopyDone
  /\ itoa_pc = "done" /\ arg = 0 => str = <<0>>

(* As many digits as have been written fit, and what is left is no longer  *)
(* than what would be left of the longest int.  There is at least one.     *)
FitsInv ==
  base = 10 =>
    /\ Len(str) <= StackAlign - 1
    /\ itoa_pc # "corrupt"
    /\ itoa_pc = "digits" => /\ num = 0 => Len(str) # 0
                             /\ Len(str) <= StackAlign - 2
                             /\ num <= LeftOfLongest[Len(str)]
                             /\ -num <= LeftOfLongest[Len(str)]

ItoaInv == ItoaTypeInv /\ DigitsInv /\ ReverseInv /\ FitsInv

LEMMA SmallestTemp == StackAlign \in Int /\ StackAlign >= 3 /\ ItoaTempSize \in Int
                      /\ StackAlign <= ItoaTempSize
BY TempAssumption, IntMinAssumption, LongestFacts

LEMMA ItoaInvInit == ItoaInit => ItoaInv
<1> SUFFICES ASSUME ItoaInit PROVE ItoaInv  OBVIOUS
<1> USE DEF ItoaInit
<1>1. ItoaTypeInv  BY IntMinAssumption DEF ItoaTypeInv
<1>2. DigitsInv /\ ReverseInv  BY DEF DigitsInv, ReverseInv
<1>3. FitsInv  BY SmallestTemp DEF FitsInv
<1> QED  BY <1>1, <1>2, <1>3 DEF ItoaInv

LEMMA BaseFacts == ItoaTypeInv => base \in Nat /\ base >= 2 /\ arg \in Int
<1> SUFFICES ASSUME ItoaTypeInv PROVE base \in Nat /\ base >= 2 /\ arg \in Int  OBVIOUS
<1>1. base \in Bases /\ arg \in IntMin .. -IntMin - 1  BY DEF ItoaTypeInv
<1>2. base \in 2 .. 10  BY <1>1, BasesAssumption
<1> QED  BY <1>1, <1>2, IntMinAssumption

LEMMA ZeroKeeps ==
  ASSUME ItoaInv, Zero
  PROVE  ItoaInv'
<1> USE DEF Zero, ItoaInv
<1>1. str' = <<0>> /\ <<0>> \in Seq(Int) /\ Len(<<0>>) = 1  OBVIOUS
<1>2. arg = 0  BY DEF ItoaTypeInv
<1>3. ItoaTypeInv'  BY <1>1 DEF ItoaTypeInv
<1>4. DigitsInv'  BY DEF DigitsInv
<1>5. ReverseInv'  BY <1>1, <1>2 DEF ReverseInv
<1>6. FitsInv'  BY <1>1, SmallestTemp DEF FitsInv
<1> QED  BY <1>3, <1>4, <1>5, <1>6 DEF ItoaInv

LEMMA TakeSignKeeps ==
  ASSUME ItoaInv, TakeSign
  PROVE  ItoaInv'
<1> USE DEF TakeSign, ItoaInv
<1>1. /\ arg \in Int /\ base \in Nat /\ IntMin \in Int /\ IntMin < 0
      /\ IntMin <= arg /\ arg <= -IntMin - 1 /\ arg # 0 /\ num = arg
  BY BaseFacts, IntMinAssumption DEF ItoaTypeInv
<1>2. \/ arg < 0 /\ base = 10 /\ negative' = TRUE /\ (num' = -arg \/ (arg = IntMin /\ num' = arg))
      \/ ~ (arg < 0 /\ base = 10) /\ ~ negative' /\ num' = arg
  BY <1>1 DEF Sign, Negated, ItoaTypeInv
<1>3. ItoaTypeInv'  BY <1>1, <1>2 DEF ItoaTypeInv
<1>4. DigitsInv'
  <2> SUFFICES ASSUME HasNumeral
               PROVE  \E left : AreDigits(left, str', Len(str')) /\ left[Len(str')] = num'
    BY DEF DigitsInv, HasNumeral, AreDigits, Magnitude
  <2>1. num' = Magnitude /\ num' \in Nat  BY <1>1, <1>2 DEF HasNumeral, Magnitude
  <2>2. str' = << >> /\ Len(str') = 0  BY DEF ItoaTypeInv
  <2> DEFINE left == [j \in 0 .. 0 |-> num']
  <2>3. left \in [0 .. 0 -> Nat] /\ left[0] = num'  BY <2>1
  <2>4. AreDigits(left, str', Len(str'))  BY <2>1, <2>2, <2>3 DEF AreDigits
  <2> QED  BY <2>2, <2>3, <2>4
<1>5. ReverseInv'  BY DEF ReverseInv
<1>6. FitsInv'
  <2>1. str' = << >> /\ Len(str') = 0  BY DEF ItoaTypeInv
  <2>2. num' \in Int /\ num' <= -IntMin /\ -num' <= -IntMin /\ num' # 0  BY <1>1, <1>2
  <2>3. LeftOfLongest[0] = -IntMin /\ itoa_pc' = "digits"  BY SmallestTemp, LongestFacts
  <2> QED  BY <2>1, <2>2, <2>3, SmallestTemp DEF FitsInv
<1> QED  BY <1>3, <1>4, <1>5, <1>6 DEF ItoaInv

(* C's division: what is left of a number, and a digit of it.              *)
LEMMA TakeDigit ==
  ASSUME NEW a \in Nat, NEW b \in Nat, b >= 2
  PROVE  /\ Quotient(a, b) \in Nat /\ Remainder(a, b) \in 0 .. b - 1
         /\ a = b * Quotient(a, b) + Remainder(a, b)
<1> DEFINE v == a \div b
           r == a % b
<1>1. v \in Int /\ r \in 0 .. b - 1 /\ a = b * v + r  BY Z3
<1>2. Quotient(a, b) = v  BY DEF Quotient
<1>3. Remainder(a, b) = a - b * v  BY <1>2 DEF Remainder
<1> HIDE DEF v, r
<1>4. v >= 0
  <2>1. SUFFICES ASSUME v <= -1 PROVE FALSE  BY <1>1
  <2>2. b * v <= b * (-1)  BY <1>1, <2>1
  <2> QED  BY <1>1, <2>2
<1>5. b * v \in Int  BY <1>1
<1>6. Remainder(a, b) = r  BY <1>1, <1>3, <1>5
<1> QED  BY <1>1, <1>2, <1>4, <1>6

(* In base 10 also for negative numbers.                                   *)
LEMMA TakeDecimal ==
  ASSUME NEW a \in Int, NEW m \in Nat, a <= m, -a <= m
  PROVE  /\ Quotient(a, 10) \in Int /\ Remainder(a, 10) \in Int
         /\ Quotient(a, 10) <= m \div 10 /\ -Quotient(a, 10) <= m \div 10
BY DEF Quotient, Remainder

LEMMA QuotientType ==
  ASSUME NEW a \in Int, NEW b \in Nat, b >= 2
  PROVE  Quotient(a, b) \in Int /\ Remainder(a, b) \in Int
<1>1. a \div b \in Int /\ (-a) \div b \in Int  OBVIOUS
<1>2. Quotient(a, b) \in Int  BY <1>1 DEF Quotient
<1> QED  BY <1>2 DEF Remainder

LEMMA DigitKeeps ==
  ASSUME ItoaInv, Digit
  PROVE  ItoaInv'
<1> USE DEF Digit, ItoaInv
<1>1. base \in Nat /\ base >= 2 /\ num \in Int /\ str \in Seq(Int)  BY BaseFacts DEF ItoaTypeInv
<1> DEFINE n == Len(str)
           r == Remainder(num, base)
<1>2. num' \in Int /\ r \in Int  BY <1>1, QuotientType
<1>3. /\ str' = Append(str, r) /\ str' \in Seq(Int) /\ Len(str') = n + 1 /\ n \in Nat
      /\ str'[n + 1] = r /\ \A j \in 1 .. n : str'[j] = str[j]
  BY <1>1, <1>2
<1> HIDE DEF r
<1>4. ItoaTypeInv'  BY <1>2, <1>3 DEF ItoaTypeInv
<1>5. DigitsInv'
  <2> SUFFICES ASSUME HasNumeral
               PROVE  \E left : AreDigits(left, str', Len(str')) /\ left[Len(str')] = num'
    BY DEF DigitsInv, HasNumeral, AreDigits, Magnitude
  <2>1. PICK left : AreDigits(left, str, n) /\ left[n] = num  BY DEF DigitsInv
  <2>2. num \in Nat /\ num # 0  BY <1>3, <2>1 DEF AreDigits
  <2>3. num' \in Nat /\ r \in 0 .. base - 1 /\ num = base * num' + r
    BY <1>1, <2>2, TakeDigit DEF r
  <2> DEFINE next == [j \in 0 .. n + 1 |-> IF j = n + 1 THEN num' ELSE left[j]]
  <2>4. next \in [0 .. n + 1 -> Nat] /\ next[0] = Magnitude /\ next[n + 1] = num'
    BY <1>3, <2>1, <2>3 DEF AreDigits
  <2>5. ASSUME NEW j \in 1 .. n + 1
        PROVE  /\ str'[j] \in 0 .. base - 1
               /\ next[j - 1] = base * next[j] + str'[j] /\ next[j - 1] # 0
    <3>1. CASE j = n + 1
      <4>1. next[j - 1] = num /\ next[j] = num' /\ str'[j] = r  BY <1>3, <2>1, <3>1
      <4> QED  BY <2>2, <2>3, <4>1
    <3>2. CASE j # n + 1
      <4>1. j \in 1 .. n /\ j - 1 \in 0 .. n + 1 /\ j \in 0 .. n + 1 /\ j - 1 # n + 1
        BY <1>3, <3>2
      <4>2. next[j - 1] = left[j - 1] /\ next[j] = left[j] /\ str'[j] = str[j]
        BY <1>3, <3>2, <4>1
      <4> QED  BY <2>1, <4>1, <4>2 DEF AreDigits
    <3> QED  BY <3>1, <3>2
  <2> HIDE DEF next
  <2>6. AreDigits(next, str', Len(str'))  BY <1>3, <2>4, <2>5 DEF AreDigits
  <2> QED  BY <1>3, <2>4, <2>6
<1>6. ReverseInv'  BY DEF ReverseInv
<1>7. FitsInv'
  <2> SUFFICES ASSUME base = 10
               PROVE  /\ n + 1 <= StackAlign - 2
                      /\ num' <= LeftOfLongest[n + 1] /\ -num' <= LeftOfLongest[n + 1]
    BY <1>3, SmallestTemp DEF FitsInv
  <2>1. /\ n <= StackAlign - 2 /\ num <= LeftOfLongest[n] /\ -num <= LeftOfLongest[n]
    BY DEF FitsInv
  <2>2. LeftOfLongest[n] \in Nat  BY <1>3, <2>1, SmallestTemp, LongestFacts
  <2>3. n # StackAlign - 2  BY <1>1, <2>1, TempAssumption
  <2>4. n + 1 \in 1 .. StackAlign - 2 /\ (n + 1) - 1 = n  BY <1>3, <2>1, <2>3, SmallestTemp
  <2>5. LeftOfLongest[n + 1] = LeftOfLongest[n] \div 10  BY <2>4, LongestFacts
  <2>6. num' <= LeftOfLongest[n] \div 10 /\ -num' <= LeftOfLongest[n] \div 10
    BY <1>1, <2>1, <2>2, TakeDecimal
  <2> QED  BY <2>4, <2>5, <2>6
<1> QED  BY <1>4, <1>5, <1>6, <1>7 DEF ItoaInv

LEMMA SmallRemainder ==
  ASSUME NEW a \in Nat, NEW b \in Nat, 0 < a, a < b
  PROVE  a % b # 0
<1> DEFINE v == a \div b
           r == a % b
<1>1. v \in Int /\ r \in 0 .. b - 1 /\ a = b * v + r  BY Z3
<1> HIDE DEF v, r
<1>2. SUFFICES ASSUME r = 0 PROVE FALSE  BY DEF r
<1>3. a = b * v  BY <1>1, <1>2
<1>4. v >= 1
  <2>1. SUFFICES ASSUME v <= 0 PROVE FALSE  BY <1>1
  <2>2. b * v <= b * 0  BY <1>1, <2>1
  <2> QED  BY <1>1, <1>3, <2>2
<1>5. b * v >= b * 1  BY <1>1, <1>4
<1> QED  BY <1>1, <1>3, <1>5

LEMMA TerminateKeeps ==
  ASSUME ItoaInv, Terminate
  PROVE  ItoaInv'
<1> USE DEF Terminate, ItoaInv
<1> DEFINE n == Len(str)
<1>1. /\ base \in Nat /\ base >= 2 /\ arg \in Int /\ num = 0 /\ str \in Seq(Int) /\ n \in Nat
      /\ arg # 0 /\ c1 = 0 /\ copy' = str' /\ -3 \in Int
  BY BaseFacts DEF ItoaTypeInv
<1>2. IF arg < 0 /\ base = 10 THEN str' = Append(str, -3) ELSE str' = str
  BY DEF ItoaTypeInv
<1>3. /\ str' \in Seq(Int) /\ \A j \in 1 .. n : str'[j] = str[j]
      /\ IF arg < 0 /\ base = 10 THEN Len(str') = n + 1 /\ str'[n + 1] = -3
                                 ELSE Len(str') = n
  BY <1>1, <1>2
<1>4. ItoaTypeInv'  BY <1>1, <1>3 DEF ItoaTypeInv
<1>5. DigitsInv'  BY DEF DigitsInv
<1>6. HasNumeral => CopyDone'
  <2> SUFFICES ASSUME HasNumeral PROVE CopyDone'  OBVIOUS
  <2>1. PICK left : AreDigits(left, str, n) /\ left[n] = num  BY DEF DigitsInv
  <2>2. n # 0
    <3>1. Magnitude # 0  BY <1>1 DEF Magnitude
    <3> QED  BY <1>1, <2>1, <3>1 DEF AreDigits
  <2>3. AreDigits(left, copy', n)  BY <1>1, <1>3, <2>1 DEF AreDigits
  <2>4. base' = base /\ arg' = arg  OBVIOUS
  <2>5. PICK m \in Nat : m = n  BY <1>1
  <2>6. AreDigits(left, copy, m)'  BY <2>3, <2>4, <2>5 DEF AreDigits, Magnitude
  <2>7. /\ m \in Nat \ {0} /\ left[m] = 0
        /\ (IF arg < 0 /\ base = 10 THEN Len(copy) = m + 1 /\ copy[m + 1] = -3
                                    ELSE Len(copy) = m)'
    BY <1>1, <1>3, <2>1, <2>2, <2>4, <2>5
  <2> QED  BY <2>6, <2>7 DEF CopyDone
<1>7. ReverseInv'  BY <1>1, <1>3, <1>6 DEF ReverseInv, HasNumeral
<1>8. FitsInv'
  <2> SUFFICES ASSUME base = 10
               PROVE  Len(str') <= StackAlign - 1 /\ itoa_pc' = "reverse"
    BY DEF FitsInv
  <2>1. n <= StackAlign - 2 /\ n # 0  BY <1>1 DEF FitsInv
  <2>2. Len(str') \in 1 .. StackAlign - 1  BY <1>1, <1>3, <2>1, SmallestTemp
  <2>3. Padded(Len(str'))
    <3>1. Len(str') \in Nat /\ 0 < Len(str') /\ Len(str') < StackAlign /\ StackAlign \in Nat
      BY <2>2, SmallestTemp
    <3> QED  BY <3>1, SmallRemainder DEF Padded
  <2> QED  BY <2>2, <2>3
<1> QED  BY <1>4, <1>5, <1>7, <1>8 DEF ItoaInv

LEMMA ReverseKeeps ==
  ASSUME ItoaInv, reverse_string
  PROVE  ItoaInv'
<1> USE DEF reverse_string, ItoaInv, LastIndex
<1> DEFINE n == Len(copy)
<1>1. /\ str \in Seq(Int) /\ copy \in Seq(Int) /\ n \in Nat /\ Len(str) = n /\ c1 \in Nat
      /\ c1 <= n /\ arg # 0
      /\ \A k \in 1 .. n : str[k] = IF k <= c1 THEN copy[n - k + 1] ELSE copy[k]
  BY DEF ItoaTypeInv, ReverseInv
<1>2. CopyDone' <=> CopyDone  BY DEF CopyDone, AreDigits, Magnitude
<1>3. DigitsInv'  BY DEF DigitsInv
<1>4. CASE c1 <= n - 1
  <2>1. str' = [str EXCEPT ![c1 + 1] = copy[n - 1 - c1 + 1]] /\ c1' = c1 + 1 /\ itoa_pc' = itoa_pc
    BY <1>4
  <2>2. c1 + 1 \in 1 .. n /\ n - 1 - c1 + 1 \in 1 .. n /\ n - 1 - c1 + 1 = n - (c1 + 1) + 1
    BY <1>1, <1>4
  <2>3. copy[n - (c1 + 1) + 1] \in Int  BY <1>1, <2>2
  <2>4. /\ str' \in Seq(Int) /\ Len(str') = n
        /\ \A k \in 1 .. n : str'[k] = IF k = c1 + 1 THEN copy[n - (c1 + 1) + 1] ELSE str[k]
    BY <1>1, <2>1, <2>2, <2>3
  <2>5. ItoaTypeInv'  BY <1>1, <2>1, <2>4 DEF ItoaTypeInv
  <2>6. ASSUME NEW k \in 1 .. n
        PROVE  str'[k] = IF k <= c1 + 1 THEN copy[n - k + 1] ELSE copy[k]
    <3>1. CASE k = c1 + 1  BY <1>1, <2>4, <3>1
    <3>2. CASE k # c1 + 1
      <4>1. str'[k] = str[k] /\ (k <= c1 + 1 <=> k <= c1)  BY <1>1, <2>4, <3>2
      <4> QED  BY <1>1, <4>1
    <3> QED  BY <3>1, <3>2
  <2>7. ReverseInv'  BY <1>1, <1>2, <1>4, <2>1, <2>4, <2>6 DEF ReverseInv, HasNumeral
  <2>8. FitsInv'  BY <1>1, <2>1, <2>4 DEF FitsInv
  <2> QED  BY <1>3, <2>5, <2>7, <2>8 DEF ItoaInv
<1>5. CASE ~ (c1 <= n - 1)
  <2>1. itoa_pc' = "done" /\ UNCHANGED <<str, c1>> /\ c1 = n  BY <1>1, <1>5
  <2>2. ItoaTypeInv'  BY <2>1 DEF ItoaTypeInv
  <2>3. ReverseInv'  BY <1>1, <1>2, <2>1 DEF ReverseInv, HasNumeral
  <2>4. FitsInv'  BY <2>1 DEF FitsInv
  <2> QED  BY <1>3, <2>2, <2>3, <2>4 DEF ItoaInv
<1> QED  BY <1>4, <1>5

LEMMA ItoaInvStep == ItoaInv /\ [itoa]_itoaVars => ItoaInv'
<1> SUFFICES ASSUME ItoaInv, [itoa]_itoaVars PROVE ItoaInv'  OBVIOUS
<1>1. CASE UNCHANGED itoaVars
  <2> USE <1>1 DEF itoaVars
  <2>1. ItoaTypeInv'  BY DEF ItoaInv, ItoaTypeInv
  <2>2. DigitsInv'  BY DEF ItoaInv, DigitsInv, HasNumeral, AreDigits, Magnitude
  <2>3. CopyDone' <=> CopyDone  BY DEF CopyDone, AreDigits, Magnitude
  <2>4. ReverseInv'  BY <2>3 DEF ItoaInv, ReverseInv, HasNumeral
  <2>5. FitsInv'  BY DEF ItoaInv, FitsInv
  <2> QED  BY <2>1, <2>2, <2>4, <2>5 DEF ItoaInv
<1> QED  BY <1>1, ZeroKeeps, TakeSignKeeps, DigitKeeps, TerminateKeeps, ReverseKeeps DEF itoa

(* What a reader of the digits finds, highest first: after k of them, what *)
(* is left when the others have been taken.                                *)
LEMMA ReadsBack ==
  ASSUME ItoaTypeInv, NEW left, NEW n \in Nat \ {0}, NEW d, AreDigits(left, d, n), left[n] = 0,
         Numeral \in Seq(Int), Len(Numeral) = n, \A k \in 1 .. n : Numeral[k] = d[n - k + 1]
  PROVE  /\ ValueUpTo[n] = Magnitude
         /\ \A k \in 1 .. n : Numeral[k] \in 0 .. base - 1
         /\ Numeral[1] # 0
<1>1. base \in Nat /\ base >= 2  BY BaseFacts
<1>2. /\ ValueUpTo[0] = 0
      /\ \A k \in 1 .. n : ValueUpTo[k] = base * ValueUpTo[k - 1] + Numeral[k]
  BY <1>1, ValueFacts
<1>3. /\ left \in [0 .. n -> Nat] /\ left[0] = Magnitude
      /\ \A j \in 1 .. n : d[j] \in 0 .. base - 1 /\ left[j - 1] = base * left[j] + d[j]
      /\ left[n - 1] # 0 /\ left[n - 1] = base * left[n] + d[n]
  BY DEF AreDigits
<1> DEFINE S == {m \in 1 .. n + 1 : ValueUpTo[m - 1] = left[n - (m - 1)]}
           last == n + 1
<1>4. last \in Nat /\ 1 \in S  BY <1>2
<1>5. ASSUME NEW m \in 1 .. last - 1, m \in S PROVE m + 1 \in S
  <2> DEFINE j == n - m + 1
  <2>1. /\ m \in 1 .. n /\ m + 1 \in 1 .. n + 1 /\ (m + 1) - 1 = m
        /\ j \in 1 .. n /\ j - 1 = n - m /\ n - (m - 1) = j
    OBVIOUS
  <2>2. ValueUpTo[m] = base * left[j] + d[j]  BY <1>2, <1>5, <2>1
  <2>3. left[n - m] = base * left[j] + d[j]  BY <1>3, <2>1
  <2> QED  BY <2>1, <2>2, <2>3
<1> HIDE DEF S, last
<1>6. 1 .. last \subseteq S  BY <1>4, <1>5, Induction
<1>7. ValueUpTo[n] = Magnitude
  <2>1. n + 1 \in 1 .. last /\ (n + 1) - 1 = n /\ n - n = 0  BY DEF last
  <2>2. n + 1 \in S  BY <1>6, <2>1
  <2>3. ValueUpTo[(n + 1) - 1] = left[n - ((n + 1) - 1)]  BY <2>2 DEF S
  <2>4. ValueUpTo[n] = left[n - n]  BY <2>1, <2>3
  <2> QED  BY <1>3, <2>1, <2>4
<1>8. \A k \in 1 .. n : Numeral[k] \in 0 .. base - 1
  <2> SUFFICES ASSUME NEW k \in 1 .. n PROVE Numeral[k] \in 0 .. base - 1  OBVIOUS
  <2>1. n - k + 1 \in 1 .. n  OBVIOUS
  <2>2. d[n - k + 1] \in 0 .. base - 1  BY <1>3, <2>1
  <2> QED  BY <2>2
<1>9. Numeral[1] # 0
  <2>1. Numeral[1] = d[n] /\ d[n] \in Int  BY <1>1, <1>3
  <2>2. base * left[n] = 0  BY <1>1
  <2> QED  BY <1>3, <2>1, <2>2
<1> QED  BY <1>7, <1>8, <1>9

LEMMA NumeralDone ==
  ASSUME ItoaInv, itoa_pc = "done", HasNumeral
  PROVE  IsNumeral
<1>1. /\ arg \in Int /\ base \in Nat /\ base >= 2 /\ str \in Seq(Int) /\ copy \in Seq(Int)
  BY BaseFacts DEF ItoaInv, ItoaTypeInv
<1>2. CASE arg = 0
  <2>1. str = <<0>>  BY <1>2 DEF ItoaInv, ReverseInv
  <2>2. str[1] = 0 /\ Len(str) = 1  BY <2>1
  <2>3. Numeral = str  BY <2>2 DEF Numeral
  <2>4. /\ ValueUpTo[0] = 0
        /\ \A k \in 1 .. Len(Numeral) : ValueUpTo[k] = base * ValueUpTo[k - 1] + Numeral[k]
    BY <1>1, <2>3, ValueFacts
  <2>5. 1 \in 1 .. Len(Numeral) /\ Numeral[1] = 0 /\ 1 - 1 = 0  BY <2>2, <2>3
  <2>6. ValueUpTo[1] = base * ValueUpTo[1 - 1] + Numeral[1]  BY <2>4, <2>5
  <2>7. ValueUpTo[1] = base * 0 + 0  BY <2>4, <2>5, <2>6
  <2>8. ValueUpTo[1] = 0  BY <1>1, <2>7
  <2>9. Value = 1 * ValueUpTo[1]
    <3>1. str[1] # -3 /\ Len(Numeral) = 1  BY <2>2, <2>3
    <3> QED  BY <3>1, Zenon DEF Value
  <2> QED  BY <1>1, <1>2, <2>2, <2>3, <2>8, <2>9 DEF IsNumeral
<1>3. CASE arg # 0
  <2>1. /\ Len(str) = Len(copy) /\ CopyDone
        /\ \A k \in 1 .. Len(copy) : str[k] = copy[Len(copy) - k + 1]
    BY <1>3 DEF ItoaInv, ReverseInv
  <2>2. PICK left, n : /\ n \in Nat \ {0} /\ AreDigits(left, copy, n) /\ left[n] = 0
                       /\ IF arg < 0 /\ base = 10
                            THEN Len(copy) = n + 1 /\ copy[n + 1] = -3
                            ELSE Len(copy) = n
    BY <2>1 DEF CopyDone
  <2>3. /\ IF str[1] = -3 THEN arg < 0 /\ base = 10 ELSE ~ (arg < 0 /\ base = 10)
        /\ Numeral \in Seq(Int) /\ Len(Numeral) = n
        /\ \A k \in 1 .. n : Numeral[k] = copy[n - k + 1]
    <3>1. CASE arg < 0 /\ base = 10
      <4>1. str[1] = -3 /\ Len(str) = n + 1  BY <2>1, <2>2, <3>1
      <4>2. Numeral = Tail(str)  BY <4>1 DEF Numeral
      <4>3. /\ Numeral \in Seq(Int) /\ Len(Numeral) = n
            /\ \A k \in 1 .. n : Numeral[k] = str[k + 1]
        BY <1>1, <2>2, <4>1, <4>2
      <4>4. \A k \in 1 .. n : k + 1 \in 1 .. Len(copy) /\ Len(copy) - (k + 1) + 1 = n - k + 1
        BY <2>2, <3>1
      <4> QED  BY <2>1, <3>1, <4>1, <4>3, <4>4
    <3>2. CASE ~ (arg < 0 /\ base = 10)
      <4>1. Len(copy) = n  BY <2>2, <3>2
      <4>2. copy[n] \in 0 .. base - 1  BY <2>2 DEF AreDigits
      <4>3. str[1] = copy[n]  BY <2>1, <2>2, <4>1
      <4>4. str[1] # -3  BY <1>1, <4>2, <4>3
      <4>5. Numeral = str  BY <4>4 DEF Numeral
      <4> QED  BY <1>1, <2>1, <3>2, <4>1, <4>4, <4>5
    <3> QED  BY <3>1, <3>2
  <2>4. /\ ValueUpTo[n] = Magnitude /\ Numeral[1] # 0
        /\ \A k \in 1 .. n : Numeral[k] \in 0 .. base - 1
    BY <2>2, <2>3, ReadsBack DEF ItoaInv
  <2>5. Value = arg
    <3>1. Value = (IF str[1] = -3 THEN -1 ELSE 1) * Magnitude  BY <2>3, <2>4 DEF Value
    <3> QED  BY <1>1, <2>3, <3>1 DEF Magnitude
  <2>6. DOMAIN Numeral = 1 .. n  BY <2>3
  <2> QED  BY <2>4, <2>5, <2>6 DEF IsNumeral
<1> QED  BY <1>2, <1>3

LEMMA ItoaInvWritesNumeral == ItoaInv => WritesNumeral
<1> SUFFICES ASSUME ItoaInv PROVE WritesNumeral  OBVIOUS
<1>1. IsNumeral  BY NumeralDone DEF IsNumeral, HasNumeral
<1>2. FitsTemp
  <2>1. Len(str) \in Nat  BY DEF ItoaInv, ItoaTypeInv
  <2> QED  BY <2>1, SmallestTemp DEF ItoaInv, FitsInv, FitsTemp
<1>3. HitsPadding  BY DEF ItoaInv, FitsInv, HitsPadding
<1> QED  BY <1>1, <1>2, <1>3 DEF WritesNumeral

(* itoa writes the numeral of every int that has a negation, sign, digits  *)
(* and all, and never more than the buffer of vsprintf holds, whatever     *)
(* the width of an int and the base: the digits are taken lowest first and *)
(* reverse_string, through its copy, puts them in their places.  The copy  *)
(* of a decimal numeral is one byte longer than its array, and that byte   *)
(* is padding.                                                             *)
THEOREM ItoaWritesNumeral == ItoaSpec => []WritesNumeral
BY ItoaInvWritesNumeral, ItoaInvInit, ItoaInvStep, PTL DEF ItoaSpec

-----------------------------------------------------------------------------
(* The table of a font: its entries stand for the codes in their order,    *)
(* each for as many as the walk steps over.                                *)

(* A finite set of numbers that has everything below its members is an     *)
(* interval.                                                               *)
LEMMA InitialSegment ==
  ASSUME NEW D, NEW m \in Nat, D \subseteq 0 .. m,
         \A c \in D : \A d \in 0 .. m : d <= c => d \in D
  PROVE  Cardinality(D) \in Nat /\ D = 0 .. Cardinality(D) - 1
<1> DEFINE T == {c \in Nat : c \notin D}
<1>1. T \subseteq Nat /\ T # {}
  <2>1. m + 1 \in T  OBVIOUS
  <2> QED  BY <2>1
<1> HIDE DEF T
<1>2. PICK e \in T : \A c \in T : e <= c  BY <1>1, LeastNumber
<1>3. e \in Nat /\ e \notin D  BY <1>2 DEF T
<1>4. D = 0 .. e - 1
  <2>1. ASSUME NEW c \in 0 .. e - 1 PROVE c \in D
    <3>1. c \in Nat /\ ~ (e <= c)  BY <1>3
    <3> QED  BY <1>2, <3>1 DEF T
  <2>2. ASSUME NEW c \in D PROVE c \in 0 .. e - 1
    <3>1. c \in 0 .. m  OBVIOUS
    <3>2. CASE e <= c
      <4>1. e \in 0 .. m  BY <1>3, <3>1, <3>2
      <4> QED  BY <1>3, <3>2, <4>1
    <3>3. CASE ~ (e <= c)  BY <1>3, <3>1, <3>3
    <3> QED  BY <3>2, <3>3
  <2> QED  BY <2>1, <2>2
<1>5. Cardinality(0 .. e - 1) = e
  <2>1. e - 1 \in Int /\ 0 \in Int  BY <1>3
  <2>2. Cardinality(0 .. e - 1) = IF 0 > e - 1 THEN 0 ELSE (e - 1) - 0 + 1  BY <2>1, FS_Interval
  <2> QED  BY <1>3, <2>2
<1> QED  BY <1>3, <1>4, <1>5

LEMMA FontFacts ==
  ASSUME font \in Fonts
  PROVE  /\ LastCode \in Nat /\ font.height \in Nat
         /\ Len(font.characters) \in Nat /\ DOMAIN font.characters = 1 .. Len(font.characters)
         /\ Len(font.characters) >= 1
         /\ \A k \in DOMAIN font.characters : font.characters[k] \in TableEntry
<1>1. /\ LastCode \in Nat /\ font.height \in Nat /\ font.characters \in Seq(TableEntry)
      /\ Encodes(font.characters, font.glyphs)
  BY FontsAssumption
<1> DEFINE s == font.characters
<1>2. s \in Seq(TableEntry)  BY <1>1
<1>3. 1 .. Len(s) # {}
  <2>1. PICK at : at \in [0 .. LastCode -> DOMAIN s]  BY <1>1 DEF Encodes
  <2>2. 0 \in 0 .. LastCode  BY <1>1
  <2>3. at[0] \in DOMAIN s  BY <2>1, <2>2
  <2> HIDE DEF s
  <2> QED  BY <1>2, <2>3
<1> HIDE DEF s
<1>4. Len(s) \in Nat /\ DOMAIN s = 1 .. Len(s) /\ \A k \in DOMAIN s : s[k] \in TableEntry
  BY <1>2
<1>5. Len(s) >= 1  BY <1>3, <1>4
<1> QED  BY <1>1, <1>4, <1>5 DEF s

LEMMA SpanType ==
  ASSUME NEW e \in TableEntry
  PROVE  /\ Span(e) \in Nat \ {0} /\ (e.kind = "glyph" => Span(e) = 1)
         /\ Span(e) = IF e.kind = "glyph" THEN 1 ELSE e.n + 1
<1>1. e.kind = "glyph" \/ e.n \in Nat  BY DEF TableEntry
<1> QED  BY <1>1 DEF Span

(* CodeOf, unfolded.                                                       *)
LEMMA CodeOfFacts ==
  ASSUME font \in Fonts
  PROVE  /\ \A k \in 1 .. Len(font.characters) : CodeOf[k] \in Nat
         /\ CodeOf[1] = 0
         /\ \A k \in 2 .. Len(font.characters) :
              CodeOf[k] = CodeOf[k - 1] + Span(font.characters[k - 1])
<1> DEFINE n == Len(font.characters)
           span == [k \in 1 .. n |-> Span(font.characters[k])]
           step == [k \in 1 .. n - 1 |-> [v \in Nat |-> v + span[k]]]
           Body(h) == [k \in 1 .. n |-> IF k = 1 THEN 0 ELSE h[k - 1] + Span(font.characters[k - 1])]
<1>1. n \in Nat /\ n >= 1  BY FontFacts
<1>2. \A k \in 1 .. n : span[k] \in Nat /\ span[k] = Span(font.characters[k])
  BY FontFacts, SpanType
<1>3. CodeOf = CHOOSE h : h = Body(h)  BY DEF CodeOf
<1> HIDE DEF n, span
<1>4. PICK f : IsScan(f, Nat, 0, n - 1, step)
  <2>1. step \in [1 .. n - 1 -> [Nat -> Nat]]  BY <1>1, <1>2
  <2>2. 0 \in Nat /\ n - 1 \in Nat  BY <1>1
  <2> DEFINE m == n - 1
  <2> HIDE DEF step, m
  <2>3. \E f : IsScan(f, Nat, 0, m, step)
    <3>1. m \in Nat /\ step \in [1 .. m -> [Nat -> Nat]]  BY <2>1, <2>2 DEF m
    <3> QED  BY <2>2, <3>1, Recursion, Zenon
  <2> QED  BY <2>3 DEF m
<1>5. /\ f \in [0 .. n - 1 -> Nat] /\ f[0] = 0
      /\ \A k \in 1 .. n - 1 : f[k] = f[k - 1] + span[k]
  <2>1. \A k \in 1 .. n - 1 : f[k - 1] \in Nat  BY <1>1, <1>4 DEF IsScan
  <2> QED  BY <1>4, <2>1 DEF IsScan
<1> DEFINE g == [k \in 1 .. n |-> f[k - 1]]
<1>6. g = Body(g)
  <2>1. ASSUME NEW k \in 1 .. n
        PROVE  g[k] = IF k = 1 THEN 0 ELSE g[k - 1] + Span(font.characters[k - 1])
    <3>1. CASE k = 1  BY <1>1, <1>5, <3>1
    <3>2. CASE k # 1
      <4>1. k - 1 \in 1 .. n /\ k - 1 \in 1 .. n - 1  BY <1>1, <3>2
      <4>2. f[k - 1] = f[k - 1 - 1] + span[k - 1]  BY <1>5, <4>1
      <4>3. g[k] = f[k - 1] /\ g[k - 1] = f[k - 1 - 1]  BY <4>1
      <4> HIDE DEF g
      <4> QED  BY <1>2, <3>2, <4>1, <4>2, <4>3
    <3> QED  BY <3>1, <3>2
  <2>2. g = [k \in 1 .. n |-> g[k]]  OBVIOUS
  <2> HIDE DEF g
  <2> QED  BY <2>1, <2>2
<1>7. CodeOf = Body(CodeOf)
  <2> HIDE DEF Body
  <2> QED  BY <1>3, <1>6
<1> DEFINE code == CodeOf
<1> HIDE DEF code
<1>8. /\ code[1] = 0
      /\ \A k \in 2 .. n : code[k] = code[k - 1] + Span(font.characters[k - 1])
  BY <1>1, <1>7 DEF code
<1>9. 1 .. n \subseteq {k \in 1 .. n : code[k] \in Nat}
  <2> DEFINE S == {k \in 1 .. n : code[k] \in Nat}
  <2>1. 1 \in S  BY <1>1, <1>8
  <2>2. ASSUME NEW k \in 1 .. n - 1, k \in S PROVE k + 1 \in S
    <3>1. k + 1 \in 2 .. n /\ k \in 1 .. n /\ (k + 1) - 1 = k  BY <1>1
    <3>2. code[k + 1] = code[k] + Span(font.characters[k])  BY <1>8, <3>1
    <3>3. Span(font.characters[k]) \in Nat  BY <1>2, <3>1
    <3> QED  BY <1>1, <2>2, <3>1, <3>2, <3>3
  <2> HIDE DEF S
  <2>3. 1 .. n \subseteq S  BY <1>1, <2>1, <2>2, Induction
  <2> QED  BY <2>3 DEF S
<1> QED  BY <1>8, <1>9 DEF n, code
(* The walk over the table of a font comes to the entry of every code at   *)
(* its code.                                                               *)
LEMMA WalkInOrder ==
  ASSUME font \in Fonts,
         NEW at \in [0 .. LastCode -> DOMAIN font.characters],
         \A c \in 1 .. LastCode : at[c - 1] <= at[c],
         \A k \in DOMAIN font.characters :
           Cardinality({c \in 0 .. LastCode : at[c] = k}) = Span(font.characters[k]),
         NEW k \in DOMAIN font.characters
  PROVE  {c \in 0 .. LastCode : at[c] < k} = 0 .. CodeOf[k] - 1
<1> DEFINE n == Len(font.characters)
           Below(j) == {c \in 0 .. LastCode : at[c] < j}
           For(j)   == {c \in 0 .. LastCode : at[c] = j}
<1>1. /\ LastCode \in Nat /\ n \in Nat /\ n >= 1 /\ DOMAIN font.characters = 1 .. n
      /\ \A c \in 0 .. LastCode : at[c] \in 1 .. n
  BY FontFacts
<1> HIDE DEF n
<1>2. ASSUME NEW c \in 0 .. LastCode, NEW d \in 0 .. LastCode, d <= c
      PROVE  at[d] <= at[c]
  <2> DEFINE S == {m \in 1 .. LastCode + 1 : d <= m - 1 => at[d] <= at[m - 1]}
             last == LastCode + 1
  <2>1. last \in Nat /\ 1 \in S
    <3>1. 1 \in 1 .. LastCode + 1 /\ 1 - 1 = 0 /\ (d <= 0 => d = 0)  BY <1>1
    <3>2. at[d] \in Int  BY <1>1
    <3> QED  BY <1>1, <3>1, <3>2
  <2>2. ASSUME NEW m \in 1 .. last - 1, m \in S PROVE m + 1 \in S
    <3>1. /\ m \in 1 .. LastCode /\ m + 1 \in 1 .. LastCode + 1 /\ (m + 1) - 1 = m
          /\ m - 1 \in 0 .. LastCode /\ m \in 0 .. LastCode
      BY <1>1
    <3>2. at[m - 1] <= at[m] /\ at[m] \in Int /\ at[m - 1] \in Int /\ at[d] \in Int
      BY <1>1, <3>1
    <3>3. d <= m => d <= m - 1 \/ d = m  BY <1>1, <3>1
    <3>4. d <= m => at[d] <= at[m]  BY <2>2, <3>2, <3>3
    <3> QED  BY <3>1, <3>4
  <2> HIDE DEF S, last
  <2>3. 1 .. last \subseteq S  BY <2>1, <2>2, Induction
  <2>4. c + 1 \in 1 .. last /\ (c + 1) - 1 = c  BY <1>1 DEF last
  <2>5. c + 1 \in S  BY <2>3, <2>4
  <2> QED  BY <1>2, <2>4, <2>5 DEF S
<1>3. ASSUME NEW j \in Int
      PROVE  Cardinality(Below(j)) \in Nat /\ Below(j) = 0 .. Cardinality(Below(j)) - 1
  <2>1. ASSUME NEW c \in Below(j), NEW d \in 0 .. LastCode, d <= c PROVE d \in Below(j)
    <3>1. c \in 0 .. LastCode /\ at[c] < j  OBVIOUS
    <3>2. at[d] <= at[c] /\ at[d] \in Int /\ at[c] \in Int  BY <1>1, <1>2, <2>1, <3>1
    <3> QED  BY <3>1, <3>2
  <2>2. Below(j) \subseteq 0 .. LastCode  OBVIOUS
  <2> HIDE DEF Below
  <2> QED  BY <1>1, <2>1, <2>2, InitialSegment
<1>4. ASSUME NEW j \in 1 .. n
      PROVE  Cardinality(Below(j + 1)) = Cardinality(Below(j)) + Span(font.characters[j])
  <2>1. Below(j + 1) = Below(j) \cup For(j) /\ Below(j) \cap For(j) = {}  BY <1>1
  <2>2. IsFiniteSet(0 .. LastCode)
    <3>1. 0 \in Int /\ LastCode \in Int  BY <1>1
    <3> QED  BY <3>1, FS_Interval
  <2>3. IsFiniteSet(Below(j)) /\ IsFiniteSet(For(j))
    <3>1. Below(j) \in SUBSET (0 .. LastCode) /\ For(j) \in SUBSET (0 .. LastCode)  OBVIOUS
    <3> HIDE DEF Below, For
    <3> QED  BY <2>2, <3>1, FS_Subset
  <2>4. Cardinality(For(j)) = Span(font.characters[j])  BY <1>1
  <2> HIDE DEF Below, For
  <2>5. Cardinality(Below(j) \cup For(j))
          = Cardinality(Below(j)) + Cardinality(For(j)) - Cardinality({})
    BY <2>1, <2>3, FS_Union
  <2>6. Cardinality({}) = 0  BY FS_EmptySet
  <2>7. Cardinality(Below(j)) \in Nat  BY <1>3
  <2>8. Span(font.characters[j]) \in Nat  BY <1>1, FontFacts, SpanType
  <2>9. Cardinality(Below(j + 1)) = Cardinality(Below(j) \cup For(j))  BY <2>1, Zenon
  <2> QED  BY <2>4, <2>5, <2>6, <2>7, <2>8, <2>9
<1> DEFINE S == {j \in 1 .. n : Cardinality(Below(j)) = CodeOf[j]}
<1> HIDE DEF Below, For
<1>5. 1 \in S
  <2>1. Below(1) = {}  BY <1>1 DEF Below
  <2>2. Cardinality(Below(1)) = 0  BY <2>1, FS_EmptySet, Zenon
  <2>3. 1 \in 1 .. n  BY <1>1
  <2> QED  BY <2>2, <2>3, CodeOfFacts
<1>6. ASSUME NEW j \in 1 .. n - 1, j \in S PROVE j + 1 \in S
  <2>1. j \in 1 .. n /\ j + 1 \in 2 .. n /\ j + 1 \in 1 .. n /\ (j + 1) - 1 = j  BY <1>1
  <2>2. CodeOf[j + 1] = CodeOf[j] + Span(font.characters[j])  BY <2>1, CodeOfFacts DEF n
  <2>3. Cardinality(Below(j)) = CodeOf[j]  BY <1>6
  <2>4. Cardinality(Below(j + 1)) = CodeOf[j + 1]  BY <1>4, <2>1, <2>2, <2>3
  <2> QED  BY <2>1, <2>4
<1> HIDE DEF S
<1>7. 1 .. n \subseteq S  BY <1>1, <1>5, <1>6, Induction
<1>8. Cardinality(Below(k)) = CodeOf[k] /\ k \in Int  BY <1>1, <1>7 DEF S
<1>9. Below(k) = 0 .. CodeOf[k] - 1  BY <1>3, <1>8
<1> QED  BY <1>9 DEF Below

(* The glyph that the renderer finds is the one of the font.               *)
LEMMA GlyphFound ==
  ASSUME font \in Fonts, NEW c
  PROVE  /\ Glyph(c) = IF c \in DOMAIN font.glyphs THEN font.glyphs[c] ELSE None
         /\ c \in DOMAIN font.glyphs => font.glyphs[c] \in GlyphType
<1> DEFINE s == font.characters
<1>1. PICK at \in [0 .. LastCode -> DOMAIN s] :
        /\ \A e \in 1 .. LastCode : at[e - 1] <= at[e]
        /\ \A k \in DOMAIN s :
             Cardinality({e \in 0 .. LastCode : at[e] = k}) =
               IF s[k].kind = "glyph" THEN 1 ELSE s[k].n + 1
        /\ DOMAIN font.glyphs = {e \in 0 .. LastCode : s[at[e]].kind = "glyph"}
        /\ \A e \in DOMAIN font.glyphs : font.glyphs[e] = s[at[e]].glyph
  BY FontsAssumption DEF Encodes
<1>2. /\ DOMAIN s = 1 .. Len(s) /\ \A k \in DOMAIN s : s[k] \in TableEntry
      /\ LastCode \in Nat /\ Len(s) \in Nat
  BY FontFacts
<1>3. \A k \in DOMAIN s : Cardinality({e \in 0 .. LastCode : at[e] = k}) = Span(s[k])
  BY <1>1, <1>2, SpanType
<1>4. \A k \in DOMAIN s : /\ {e \in 0 .. LastCode : at[e] < k} = 0 .. CodeOf[k] - 1
                          /\ CodeOf[k] \in Nat
  BY <1>1, <1>2, <1>3, WalkInOrder, CodeOfFacts
<1> HIDE DEF s
<1>5. ASSUME NEW e \in 0 .. LastCode, s[at[e]].kind = "glyph"
      PROVE  CodeOf[at[e]] = e
  <2> DEFINE k == at[e]
  <2>1. k \in DOMAIN s /\ k \in Int  BY <1>1, <1>2
  <2>2. ~ (e < CodeOf[k])
    <3>1. e \notin {d \in 0 .. LastCode : at[d] < k}  BY <2>1
    <3>2. e \notin 0 .. CodeOf[k] - 1  BY <1>4, <2>1, <3>1
    <3> QED  BY <1>4, <2>1, <3>2
  <2>3. ASSUME CodeOf[k] < e PROVE FALSE
    <3>1. CodeOf[k] \in 0 .. LastCode  BY <1>2, <1>4, <2>1, <2>3
    <3>2. at[e - 1] = k
      <4>1. e - 1 \in 0 .. LastCode /\ e \in 1 .. LastCode  BY <1>2, <1>4, <2>1, <2>3
      <4>2. at[e - 1] <= k  BY <1>1, <4>1
      <4>3. at[e - 1] \in Int
        <5>1. at[e - 1] \in DOMAIN s  BY <4>1
        <5> QED  BY <1>2, <5>1
      <4>4. e - 1 \notin 0 .. CodeOf[k] - 1  BY <1>4, <2>1, <2>3
      <4>5. ~ (at[e - 1] < k)  BY <1>4, <2>1, <4>1, <4>4
      <4> QED  BY <2>1, <4>2, <4>3, <4>5
    <3> DEFINE For == {d \in 0 .. LastCode : at[d] = k}
    <3>3. e \in For /\ e - 1 \in For /\ e - 1 # e  BY <1>2, <1>4, <2>1, <2>3, <3>2
    <3>4. Cardinality(For) = 1  BY <1>1, <1>5, <2>1
    <3>5. IsFiniteSet(For)
      <4>1. For \in SUBSET (0 .. LastCode) /\ IsFiniteSet(0 .. LastCode)  BY <1>2, FS_Interval
      <4> HIDE DEF For
      <4> QED  BY <4>1, FS_Subset
    <3> HIDE DEF For
    <3>6. PICK d : For = {d}  BY <3>4, <3>5, FS_Singleton
    <3> QED  BY <3>3, <3>6
  <2>4. CodeOf[k] \in Nat  BY <1>4, <2>1
  <2> QED  BY <2>2, <2>3, <2>4
<1>6. ASSUME NEW k \in DOMAIN s, s[k].kind = "glyph"
      PROVE  \E e \in 0 .. LastCode : at[e] = k
  <2>1. Cardinality({e \in 0 .. LastCode : at[e] = k}) = 1  BY <1>1, <1>6
  <2> DEFINE For == {e \in 0 .. LastCode : at[e] = k}
  <2>2. For # {}
    <3>1. Cardinality(For) # Cardinality({})  BY <2>1, FS_EmptySet
    <3> HIDE DEF For
    <3> QED  BY <3>1
  <2> QED  BY <2>2
<1>7. CASE c \in DOMAIN font.glyphs
  <2>1. /\ c \in 0 .. LastCode /\ s[at[c]].kind = "glyph" /\ font.glyphs[c] = s[at[c]].glyph
        /\ at[c] \in DOMAIN s
    BY <1>1, <1>7
  <2>2. at[c] \in Found(c)  BY <1>5, <2>1 DEF Found, s
  <2>3. ASSUME NEW k \in Found(c) PROVE k = at[c]
    <3>1. k \in DOMAIN s /\ s[k].kind = "glyph" /\ CodeOf[k] = c  BY DEF Found, s
    <3>2. PICK e \in 0 .. LastCode : at[e] = k  BY <1>6, <3>1
    <3> QED  BY <1>5, <3>1, <3>2
  <2>4. (CHOOSE k \in Found(c) : TRUE) = at[c]  BY <2>2, <2>3
  <2>5. Glyph(c) = s[at[c]].glyph  BY <2>2, <2>4 DEF Glyph, s
  <2>6. s[at[c]].glyph \in GlyphType  BY <1>2, <2>1 DEF TableEntry
  <2> QED  BY <1>7, <2>1, <2>5, <2>6
<1>8. CASE c \notin DOMAIN font.glyphs
  <2>1. ASSUME NEW k \in Found(c) PROVE FALSE
    <3>1. k \in DOMAIN s /\ s[k].kind = "glyph" /\ CodeOf[k] = c  BY DEF Found, s
    <3>2. PICK e \in 0 .. LastCode : at[e] = k  BY <1>6, <3>1
    <3>3. e = c  BY <1>5, <3>1, <3>2
    <3> QED  BY <1>1, <1>8, <3>1, <3>2, <3>3
  <2> QED  BY <1>8, <2>1 DEF Glyph
<1> QED  BY <1>7, <1>8

GlyphInv == font \in Fonts /\ ShowsItsGlyph

LEMMA GlyphInvInit == ConsoleInit => GlyphInv
BY DEF ConsoleInit, GlyphInv, ShowsItsGlyph

LEMMA GlyphInvStep == GlyphInv /\ [ssfn_printf]_consoleVars => GlyphInv'
<1> SUFFICES ASSUME GlyphInv, [ssfn_printf]_consoleVars PROVE GlyphInv'  OBVIOUS
<1>1. CASE UNCHANGED consoleVars  BY <1>1 DEF consoleVars, GlyphInv, ShowsItsGlyph, Works
<1>2. CASE ssfn_printf
  <2>1. PICK c \in Characters : ssfn_put(c)  BY <1>2 DEF ssfn_printf
  <2>2. font' = font /\ p' = p /\ font \in Fonts  BY <2>1 DEF ssfn_put, GlyphInv
  <2>3. shown' = <<c, IF c \in {LF, CR} \/ ~ Works THEN None ELSE Glyph(c)>>
    BY <2>1 DEF ssfn_put
  <2>4. /\ shown'[1] = c
        /\ c \notin {LF, CR} /\ Works => shown'[2] = Glyph(c)
    BY <2>3
  <2> QED  BY <2>2, <2>4, GlyphFound DEF GlyphInv, ShowsItsGlyph, Works
<1> QED  BY <1>1, <1>2

(* The console shows each character with its own glyph, and nothing for a  *)
(* character that the font does not have: the walk over the compressed     *)
(* table, which counts codes, and the order of the entries agree, whatever *)
(* the gaps are.                                                           *)
THEOREM ConsoleShowsItsGlyph == ConsoleSpec => []ShowsItsGlyph
<1>1. GlyphInv => ShowsItsGlyph  BY DEF GlyphInv
<1> QED  BY <1>1, GlyphInvInit, GlyphInvStep, PTL DEF ConsoleSpec

-----------------------------------------------------------------------------
(* Where text goes.  On a screen that holds the font the cursor is at the  *)
(* line that the line feeds so far have begun, and inside the margins.     *)

Reached == HoldsFont /\ Works /\ lines < Rows

CursorInv ==
  Reached => /\ y = fb.margin + lines * font.height
             /\ x \in Int /\ fb.margin <= x /\ x <= fb.width - fb.margin - 5 /\ x < ShortMax

ConsoleInv == /\ fb \in Screens /\ font \in Fonts
              /\ p = (4 * fb.pixels_per_scanline) % PitchWrap
              /\ lines \in Nat /\ CursorInv

(* Numbers that the types hold are not changed by them.                    *)
LEMMA InShort ==
  ASSUME NEW n \in Nat, n < ShortMax
  PROVE  int16_t(n) = n
<1>1. ShortMax \in Nat  BY WidthsAssumption
<1>2. (n + ShortMax) % (2 * ShortMax) = n + ShortMax  BY <1>1
<1> QED  BY <1>1, <1>2 DEF int16_t

LEMMA InSize ==
  ASSUME NEW n \in Nat, n < SizeWrap
  PROVE  size_t(n) = n
BY WidthsAssumption DEF size_t

LEMMA ScreenFacts ==
  ASSUME fb \in Screens
  PROVE  /\ fb.width \in Nat /\ fb.height \in Nat /\ fb.pixels_per_scanline \in Nat
         /\ fb.margin \in Nat /\ fb.width <= fb.pixels_per_scanline /\ fb.margin < ShortMax
BY ScreensAssumption

(* As long as lines are left there is room for the one that was begun.     *)
LEMMA RoomForLine ==
  ASSUME NEW m \in Nat, NEW room \in Int, NEW h \in Nat, h > 0, m < room \div h
  PROVE  m * h \in Nat /\ (m + 1) * h = m * h + h /\ m * h + h <= room
<1> DEFINE v == room \div h
           r == room % h
<1>1. v \in Int /\ r \in Int /\ 0 <= r /\ r < h /\ room = h * v + r  BY Z3
<1> HIDE DEF r
<1>2. m + 1 <= v  BY <1>1
<1> HIDE DEF v
<1>3. v - (m + 1) \in Nat /\ v = (m + 1) + (v - (m + 1))  BY <1>1, <1>2
<1>4. PICK d \in Nat : v = (m + 1) + d  BY <1>3
<1>5. h * v = h * (m + 1) + h * d /\ h * d \in Nat  BY <1>4
<1>6. m * h \in Nat /\ (m + 1) * h = m * h + h /\ h * (m + 1) = m * h + h  OBVIOUS
<1>7. room = (m * h + h) + h * d + r  BY <1>1, <1>5, <1>6
<1> QED  BY <1>1, <1>5, <1>6, <1>7

(* The line that the cursor is on, and the room behind it.                 *)
LEMMA OnLine ==
  ASSUME ConsoleInv, Reached
  PROVE  /\ lines * font.height \in Nat /\ font.height \in Nat /\ font.height > 0
         /\ (lines + 1) * font.height = lines * font.height + font.height
         /\ y \in Nat /\ y >= fb.margin /\ y + font.height <= fb.height
         /\ fb.height < ShortMax /\ x \in Nat
<1>1. /\ fb.height \in Nat /\ fb.margin \in Nat /\ font.height \in Nat /\ lines \in Nat
      /\ font.height > 0 /\ fb.height < ShortMax
  BY ScreenFacts, FontFacts DEF ConsoleInv, Reached, HoldsFont
<1>2. lines < (fb.height - fb.margin) \div font.height  BY DEF Reached, Rows
<1> DEFINE room == fb.height - fb.margin
<1>3. room \in Int /\ lines < room \div font.height  BY <1>1, <1>2
<1> HIDE DEF room
<1>4. /\ lines * font.height \in Nat /\ lines * font.height + font.height <= room
      /\ (lines + 1) * font.height = lines * font.height + font.height
  BY <1>1, <1>3, RoomForLine
<1>5. /\ y = fb.margin + lines * font.height /\ x \in Int /\ fb.margin <= x
  BY DEF ConsoleInv, CursorInv
<1> QED  BY <1>1, <1>4, <1>5 DEF room

(* Where ssfn_put leaves the cursor, in numbers.                           *)
LEMMA PutMoves ==
  ASSUME ConsoleInv, Reached, NEW c \in Characters, ssfn_put(c)
  PROVE  /\ fb' = fb /\ font' = font /\ p' = p
         /\ shown' = <<c, IF c \in {LF, CR} THEN None ELSE Glyph(c)>>
         /\ \/ /\ x' = fb.margin /\ y' = y + font.height /\ lines' = lines + 1
            \/ /\ c = CR /\ x' = fb.margin /\ y' = y /\ lines' = lines
            \/ /\ c \notin {LF, CR} /\ y' = y /\ lines' = lines
               /\ x' = x + Glyph(c).advance /\ Glyph(c).advance \in Nat
               /\ x' <= fb.width - fb.margin - 5 /\ x' < ShortMax
<1> DEFINE g    == Glyph(c)
           put  == ssfn_putc(c)
           edge == fb.width - fb.margin - 5
           fed  == IF PastEdge(put) THEN LineFeed(put) ELSE put
<1>1. Works /\ HoldsFont  BY DEF Reached
<1>2. /\ fb' = fb /\ font' = font /\ p' = p
      /\ shown' = <<c, IF c \in {LF, CR} THEN None ELSE g>>
      /\ x' = IF size_t(fed.x) < fb.margin THEN fb.margin ELSE fed.x
      /\ y' = IF size_t(fed.y) < fb.margin THEN fb.margin ELSE fed.y
      /\ lines' = fed.lines
  BY <1>1 DEF ssfn_put
<1>3. /\ fb.margin \in Nat /\ fb.width \in Nat /\ fb.margin < ShortMax
      /\ edge \in Nat /\ edge >= fb.margin /\ edge < SizeWrap
      /\ ShortMax \in Nat /\ ShortMax < SizeWrap /\ SizeWrap \in Nat /\ ShortMax > 0
  <2>1. /\ fb.width \in Nat /\ fb.margin \in Nat /\ fb.pixels_per_scanline \in Nat
        /\ fb.width <= fb.pixels_per_scanline /\ fb.margin < ShortMax
    BY ScreenFacts DEF ConsoleInv
  <2>2. fb.width >= 2 * fb.margin + 5 /\ 4 * fb.pixels_per_scanline < PitchWrap
    BY <1>1 DEF HoldsFont
  <2> QED  BY <2>1, <2>2, WidthsAssumption
<1>4. /\ x \in Nat /\ y \in Nat /\ lines \in Nat /\ x < ShortMax /\ y < ShortMax
      /\ fb.margin <= x /\ x <= edge /\ fb.margin <= y
      /\ font.height \in Nat /\ y + font.height < ShortMax
  <2>1. lines \in Nat /\ x < ShortMax /\ fb.margin <= x /\ x <= edge
    BY DEF ConsoleInv, CursorInv
  <2>2. fb.height \in Nat  BY ScreenFacts DEF ConsoleInv
  <2> QED  BY <1>3, <2>1, <2>2, OnLine
<1>5. size_t(edge) = edge /\ \A n \in Nat : n < ShortMax => size_t(n) = n /\ int16_t(n) = n
  <2>1. size_t(edge) = edge  BY <1>3, InSize
  <2>2. \A n \in Nat : n < ShortMax => n < SizeWrap  BY <1>3
  <2> QED  BY <2>1, <2>2, InSize, InShort
<1> HIDE DEF put, fed, edge
(* A line feed, wherever it came from.                                     *)
<1>6. ASSUME NEW cursor, cursor.y = y, cursor.lines = lines
      PROVE  /\ LineFeed(cursor).x = 0 /\ LineFeed(cursor).y = y + font.height
             /\ LineFeed(cursor).lines = lines + 1
  BY <1>4, <1>5, <1>6 DEF LineFeed
<1>7. ASSUME fed.x = 0, fed.y = y + font.height, fed.lines = lines + 1
      PROVE  x' = fb.margin /\ y' = y + font.height /\ lines' = lines + 1
  <2>1. size_t(0) = 0  BY <1>3, <1>5
  <2>2. size_t(y + font.height) = y + font.height  BY <1>4, <1>5
  <2> QED  BY <1>2, <1>3, <1>4, <1>7, <2>1, <2>2
<1>8. ASSUME put.x \in Nat, put.x < ShortMax
      PROVE  PastEdge(put) <=> put.x > edge
  BY <1>5, <1>8 DEF PastEdge, edge
<1>9. CASE c = LF
  <2>1. put.x = 0 /\ put.y = int16_t(y + font.height) /\ put.lines = lines + 1
    BY <1>1, <1>9 DEF put, ssfn_putc, LineFeed, LF, CR
  <2>2. put.x = 0 /\ put.y = y + font.height /\ put.lines = lines + 1  BY <1>4, <1>5, <2>1
  <2>3. ~ PastEdge(put)  BY <1>3, <1>8, <2>2
  <2>4. fed = put  BY <2>3 DEF fed
  <2> QED  BY <1>2, <1>7, <2>2, <2>4
<1>10. CASE c = CR
  <2>1. put = [[x |-> x, y |-> y, lines |-> lines] EXCEPT !.x = 0]
    BY <1>1, <1>10 DEF put, ssfn_putc, LF, CR
  <2>2. put.x = 0 /\ put.y = y /\ put.lines = lines  BY <2>1
  <2>3. ~ PastEdge(put)  BY <1>3, <1>8, <2>2
  <2>4. fed = put  BY <2>3 DEF fed
  <2>5. size_t(0) = 0 /\ size_t(y) = y  BY <1>3, <1>4, <1>5
  <2>6. x' = fb.margin /\ y' = y /\ lines' = lines  BY <1>2, <1>3, <1>4, <2>2, <2>4, <2>5
  <2> QED  BY <1>2, <1>10, <2>6
<1>11. CASE c \notin {LF, CR}
  <2>1. g.advance \in Nat /\ g.down = 0 /\ x + g.advance < ShortMax
    <3>1. CASE c \in DOMAIN font.glyphs
      <4>1. g = font.glyphs[c] /\ g \in GlyphType  BY <3>1, GlyphFound DEF ConsoleInv
      <4>2. g.down = 0 /\ fb.width + g.advance < ShortMax  BY <1>1, <3>1, <4>1 DEF HoldsFont
      <4>3. g.advance \in Nat  BY <4>1 DEF GlyphType
      <4> HIDE DEF g
      <4> QED  BY <1>3, <1>4, <4>2, <4>3 DEF edge
    <3>2. CASE c \notin DOMAIN font.glyphs
      <4>1. g = None  BY <3>2, GlyphFound DEF ConsoleInv
      <4> QED  BY <1>4, <4>1 DEF None
    <3> QED  BY <3>1, <3>2
  <2> HIDE DEF g
  <2>2. put = [[x |-> x, y |-> y, lines |-> lines] EXCEPT !.x = int16_t(x + g.advance),
                                                         !.y = int16_t(y + g.down)]
    BY <1>1, <1>11 DEF put, ssfn_putc, g
  <2>3. int16_t(x + g.advance) = x + g.advance /\ int16_t(y + g.down) = y
    BY <1>4, <1>5, <2>1
  <2>4. put.x = x + g.advance /\ put.y = y /\ put.lines = lines  BY <2>2, <2>3
  <2>5. PastEdge(put) <=> x + g.advance > edge  BY <1>4, <1>8, <2>1, <2>4
  <2>6. CASE x + g.advance > edge
    <3>1. fed = LineFeed(put)  BY <2>5, <2>6 DEF fed
    <3> QED  BY <1>2, <1>6, <1>7, <2>4, <3>1 DEF g
  <2>7. CASE ~ (x + g.advance > edge)
    <3>1. fed = put  BY <2>5, <2>7 DEF fed
    <3>2. size_t(x + g.advance) = x + g.advance /\ size_t(y) = y  BY <1>4, <1>5, <2>1
    <3>3. x' = x + g.advance /\ y' = y /\ lines' = lines
      BY <1>2, <1>3, <1>4, <2>1, <2>4, <3>1, <3>2
    <3>4. x' <= edge /\ x' < ShortMax  BY <1>3, <1>4, <2>1, <2>7, <3>3
    <3> QED  BY <1>2, <1>11, <2>1, <3>3, <3>4 DEF g, edge
  <2> QED  BY <2>6, <2>7
<1> QED  BY <1>9, <1>10, <1>11

LEMMA ConsoleInvInit == ConsoleInit => ConsoleInv
<1> SUFFICES ASSUME ConsoleInit PROVE ConsoleInv  OBVIOUS
<1>1. /\ fb \in Screens /\ font \in Fonts /\ p = (4 * fb.pixels_per_scanline) % PitchWrap
      /\ x = fb.margin /\ y = fb.margin /\ lines = 0
  BY DEF ConsoleInit
<1>2. CursorInv
  <2> SUFFICES ASSUME Reached
               PROVE  /\ y = fb.margin + lines * font.height /\ x \in Int /\ fb.margin <= x
                      /\ x <= fb.width - fb.margin - 5 /\ x < ShortMax
    BY DEF CursorInv
  <2>1. fb.margin \in Nat /\ fb.width \in Nat /\ fb.margin < ShortMax /\ font.height \in Nat
    BY <1>1, ScreenFacts, FontFacts
  <2>2. fb.width >= 2 * fb.margin + 5  BY DEF Reached, HoldsFont
  <2>3. lines * font.height = 0  BY <1>1, <2>1
  <2> QED  BY <1>1, <2>1, <2>2, <2>3
<1> QED  BY <1>1, <1>2 DEF ConsoleInv

(* Lines are begun, never taken back.                                      *)
LEMMA LinesGrow ==
  ASSUME ConsoleInv, NEW c, ssfn_put(c)
  PROVE  lines' \in Nat /\ lines' >= lines /\ fb' = fb /\ font' = font /\ p' = p
<1> DEFINE put == ssfn_putc(c)
<1>1. lines \in Nat  BY DEF ConsoleInv
<1>2. lines' = put.lines \/ lines' = put.lines + 1
  BY DEF ssfn_put, LineFeed
<1>3. put.lines = lines \/ put.lines = lines + 1
  <2>1. CASE ~ Works  BY <2>1 DEF ssfn_putc
  <2>2. CASE Works /\ c = LF  BY <2>2 DEF ssfn_putc, LineFeed, LF
  <2>3. CASE Works /\ c = CR  BY <2>3 DEF ssfn_putc, LF, CR
  <2>4. CASE Works /\ c # LF /\ c # CR  BY <2>4 DEF ssfn_putc
  <2> QED  BY <2>1, <2>2, <2>3, <2>4
<1> HIDE DEF put
<1>4. fb' = fb /\ font' = font /\ p' = p  BY DEF ssfn_put
<1> QED  BY <1>1, <1>2, <1>3, <1>4

LEMMA ConsoleInvStep == ConsoleInv /\ [ssfn_printf]_consoleVars => ConsoleInv'
<1> SUFFICES ASSUME ConsoleInv, [ssfn_printf]_consoleVars PROVE ConsoleInv'  OBVIOUS
<1>1. CASE UNCHANGED consoleVars
  BY <1>1 DEF consoleVars, ConsoleInv, CursorInv, Reached, HoldsFont, Works, Rows
<1>2. CASE ssfn_printf
  <2>1. PICK c \in Characters : ssfn_put(c)  BY <1>2 DEF ssfn_printf
  <2>2. lines' \in Nat /\ lines' >= lines /\ fb' = fb /\ font' = font /\ p' = p  BY <2>1, LinesGrow
  <2>3. CursorInv'
    <3> SUFFICES ASSUME Reached' PROVE CursorInv'  BY DEF CursorInv
    <3>1. HoldsFont /\ Works /\ lines' < Rows  BY <2>2 DEF Reached, HoldsFont, Works, Rows
    <3>2. Reached
      <4>1. fb.height \in Nat /\ fb.margin \in Nat /\ font.height \in Nat /\ font.height > 0
        BY <3>1, ScreenFacts, FontFacts DEF ConsoleInv, HoldsFont
      <4>2. Rows \in Int  BY <4>1 DEF Rows
      <4>3. lines \in Nat  BY DEF ConsoleInv
      <4> QED  BY <2>2, <3>1, <4>2, <4>3 DEF Reached
    <3>3. /\ fb.margin \in Nat /\ fb.width \in Nat /\ fb.margin < ShortMax
          /\ fb.width >= 2 * fb.margin + 5
      BY <3>1, ScreenFacts DEF ConsoleInv, HoldsFont
    <3>4. /\ y = fb.margin + lines * font.height /\ x \in Int /\ fb.margin <= x
          /\ lines * font.height \in Nat /\ font.height \in Nat
          /\ (lines + 1) * font.height = lines * font.height + font.height
      BY <3>2, OnLine DEF ConsoleInv, CursorInv
    <3>5. /\ y' = fb.margin + lines' * font.height /\ x' \in Int /\ fb.margin <= x'
          /\ x' <= fb.width - fb.margin - 5 /\ x' < ShortMax
      <4>1. CASE x' = fb.margin /\ y' = y + font.height /\ lines' = lines + 1
        BY <3>3, <3>4, <4>1
      <4>2. CASE x' = fb.margin /\ y' = y /\ lines' = lines  BY <3>3, <3>4, <4>2
      <4>3. CASE /\ y' = y /\ lines' = lines
                 /\ x' = x + Glyph(c).advance /\ Glyph(c).advance \in Nat
                 /\ x' <= fb.width - fb.margin - 5 /\ x' < ShortMax
        BY <3>3, <3>4, <4>3
      <4> QED  BY <2>1, <3>2, <4>1, <4>2, <4>3, PutMoves
    <3> QED  BY <2>2, <3>5 DEF CursorInv
  <2> QED  BY <2>2, <2>3 DEF ConsoleInv
<1> QED  BY <1>1, <1>2

LEMMA PixelOffset ==
  ASSUME NEW pps \in Nat, NEW row \in Nat, NEW column \in Nat, NEW line \in Nat, NEW left \in Nat
  PROVE  line * (4 * pps) + left * 4 + row * ((4 * pps) \div 4) * 4 + column * 4
           = 4 * ((line + row) * pps + (left + column))
<1>1. (4 * pps) \div 4 = pps  OBVIOUS
<1>2. line * (4 * pps) = 4 * (line * pps) /\ row * pps * 4 = 4 * (row * pps)  OBVIOUS
<1>3. (line + row) * pps = line * pps + row * pps  OBVIOUS
<1>4. line * pps \in Nat /\ row * pps \in Nat  OBVIOUS
<1> QED  BY <1>1, <1>2, <1>3, <1>4

(* What is drawn of a glyph is on the screen.                              *)
LEMMA GlyphInside ==
  ASSUME ConsoleInv, Reached, NEW c \in Characters
  PROVE  Painted(Glyph(c)) \subseteq Pixels
<1>1. CASE c \notin DOMAIN font.glyphs
  <2>1. Glyph(c) = None  BY <1>1, GlyphFound DEF ConsoleInv
  <2>2. None.fragments = << >>  BY DEF None
  <2> QED  BY <2>1, <2>2 DEF Painted
<1>2. CASE c \in DOMAIN font.glyphs
  <2> DEFINE g == Glyph(c)
             pps == fb.pixels_per_scanline
  <2>1. g = font.glyphs[c] /\ g \in GlyphType  BY <1>2, GlyphFound DEF ConsoleInv
  <2>2. /\ pps \in Nat /\ fb.width \in Nat /\ fb.height \in Nat /\ fb.margin \in Nat
        /\ 4 * pps < PitchWrap /\ PitchWrap \in Nat
    BY ScreenFacts, WidthsAssumption DEF ConsoleInv, Reached, HoldsFont
  <2>3. p = 4 * pps  BY <2>2 DEF ConsoleInv
  <2>4. /\ y \in Nat /\ x \in Nat /\ font.height \in Nat /\ y + font.height <= fb.height
        /\ x <= fb.width - fb.margin - 5
    BY OnLine DEF ConsoleInv, CursorInv
  <2>5. /\ \A n \in Columns(g) : n <= fb.margin + 5
        /\ \A n \in RowsOf(g) : n <= font.height
    BY <1>2, <2>1 DEF Reached, HoldsFont
  <2> HIDE DEF g
  <2>6. ASSUME NEW k \in DOMAIN g.fragments, NEW b \in g.fragments[k].bits
        PROVE  Offset(b[1], g.fragments[k].y + b[2]) \in Pixels
    <3> DEFINE row == g.fragments[k].y + b[2]
    <3>1. g.fragments[k] \in [y: Nat, bits: SUBSET (Nat \X Nat)]
      <4> DEFINE s == g.fragments
                 T == [y: Nat, bits: SUBSET (Nat \X Nat)]
      <4>1. s \in Seq(T) /\ k \in DOMAIN s  BY <2>1 DEF GlyphType
      <4> HIDE DEF s, T
      <4>2. s[k] \in T  BY <4>1
      <4> QED  BY <4>2 DEF s, T
    <3>2. b[1] \in Nat /\ b[2] \in Nat /\ g.fragments[k].y \in Nat  BY <3>1
    <3>3. b[1] + 1 \in Columns(g) /\ row + 1 \in RowsOf(g)  BY DEF Columns, RowsOf
    <3>4. b[1] + 1 <= fb.margin + 5 /\ row + 1 <= font.height  BY <2>5, <3>3
    <3>5. Offset(b[1], row) = 4 * ((y + row) * pps + (x + b[1]))
      <4>1. row \in Nat  BY <3>2
      <4> HIDE DEF row, pps
      <4> QED  BY <2>2, <2>3, <2>4, <3>2, <4>1, PixelOffset DEF Offset
    <3>6. y + row \in 0 .. fb.height - 1 /\ x + b[1] \in 0 .. fb.width - 1
      BY <2>2, <2>4, <3>2, <3>4
    <3> QED  BY <3>5, <3>6 DEF Pixels
  <2> QED  BY <2>6 DEF Painted, g
<1> QED  BY <1>1, <1>2

LEMMA StepDrawsInside ==
  ConsoleInv /\ [ssfn_printf]_consoleVars =>
    [HoldsFont /\ lines < Rows => drawn' \subseteq Pixels]_consoleVars
<1> SUFFICES ASSUME ConsoleInv, ssfn_printf, HoldsFont, lines < Rows
             PROVE  drawn' \subseteq Pixels
  OBVIOUS
<1>1. PICK c \in Characters : ssfn_put(c)  BY DEF ssfn_printf
<1>2. drawn' = Painted(IF c \in {LF, CR} \/ ~ Works THEN None ELSE Glyph(c))
  BY <1>1 DEF ssfn_put
<1>3. CASE c \in {LF, CR} \/ ~ Works
  <2>1. None.fragments = << >>  BY DEF None
  <2> QED  BY <1>2, <1>3, <2>1 DEF Painted
<1>4. CASE ~ (c \in {LF, CR} \/ ~ Works)  BY <1>1, <1>2, <1>4, GlyphInside DEF Reached
<1> QED  BY <1>3, <1>4

LEMMA StepMovesOn ==
  ConsoleInv /\ [ssfn_printf]_consoleVars =>
    [HoldsFont /\ Works /\ lines < Rows /\ shown'[1] # CR =>
       y' > y \/ (y' = y /\ x' >= x + shown'[2].advance)]_consoleVars
<1> SUFFICES ASSUME ConsoleInv, ssfn_printf, Reached, shown'[1] # CR
             PROVE  y' > y \/ (y' = y /\ x' >= x + shown'[2].advance)
  BY DEF Reached
<1>1. PICK c \in Characters : ssfn_put(c)  BY DEF ssfn_printf
<1>2. shown' = <<c, IF c \in {LF, CR} THEN None ELSE Glyph(c)>>  BY <1>1, PutMoves
<1>3. y \in Nat /\ x \in Nat /\ font.height \in Nat /\ font.height > 0  BY OnLine
<1>4. CASE y' = y + font.height  BY <1>3, <1>4
<1>5. CASE /\ c \notin {LF, CR} /\ y' = y /\ x' = x + Glyph(c).advance
           /\ Glyph(c).advance \in Nat
  <2>1. shown'[2] = Glyph(c)  BY <1>2, <1>5
  <2> QED  BY <1>3, <1>5, <2>1
<1>6. c # CR  BY <1>2
<1> QED  BY <1>1, <1>4, <1>5, <1>6, PutMoves

(* On a screen that holds the font, as long as it has lines left, whatever *)
(* is printed is drawn on its pixels, from left to right and from top to   *)
(* bottom, for every width of the cursor, every screen and every font: the *)
(* line is broken in time, in unsigned arithmetic, and the cursor moves on *)
(* by what was drawn.                                                      *)
THEOREM ConsoleDrawsInOrder == ConsoleSpec => DrawsInOrder
BY StepDrawsInside, StepMovesOn, ConsoleInvInit, ConsoleInvStep, PTL
   DEF ConsoleSpec, DrawsInOrder, DrawsInside, MovesOn

-----------------------------------------------------------------------------
(* Formatted output.  The output is what the format up to the position     *)
(* says, and temp holds NULs behind the longest number so far.             *)

Symbol == (character \cup {"NUL", "argument"}) \X Nat \X Nat

(* What has been read of a format.                                         *)
ReadState == [ok: BOOLEAN, text: Seq(Symbol), taken: 0 .. MaxArguments,
              longest: 0 .. TempSize - 1, skip: Nat]
NothingRead == [ok |-> TRUE, text |-> << >>, taken |-> 0, longest |-> 0, skip |-> 0]

CallTypeInv == format \in Formats /\ lengths \in [1 .. MaxArguments -> Lengths]

LEMMA CallFacts ==
  ASSUME CallTypeInv
  PROVE  /\ format \in Seq(character) /\ Len(format) \in Nat
         /\ \A n \in 0 .. Len(format) - 1 : format[n + 1] \in character
         /\ Hex32 \in 1 .. TempSize - 1 /\ Hex64 \in 1 .. TempSize - 1
         /\ TempSize \in Nat /\ TempSize >= 2 /\ MaxArguments \in Nat
         /\ \A k \in 1 .. MaxArguments : lengths[k] \in 0 .. TempSize - 1
<1>1. format \in Seq(character)  BY FormatsAssumption DEF CallTypeInv
<1>2. \A n \in 1 .. Len(format) : format[n] \in character  BY <1>1
<1>3. Len(format) \in Nat  BY <1>1
<1>4. \A n \in 0 .. Len(format) - 1 : format[n + 1] \in character
  <2> SUFFICES ASSUME NEW n \in 0 .. Len(format) - 1 PROVE format[n + 1] \in character  OBVIOUS
  <2>1. n + 1 \in 1 .. Len(format)  BY <1>3
  <2> QED  BY <1>2, <2>1
<1>5. /\ Hex32 \in 1 .. TempSize - 1 /\ Hex64 \in 1 .. TempSize - 1
      /\ TempSize \in Nat /\ TempSize >= 2 /\ MaxArguments \in Nat
      /\ \A n \in Lengths : n \in 0 .. TempSize - 1
  BY SizesAssumption
<1>6. \A k \in 1 .. MaxArguments : lengths[k] \in 0 .. TempSize - 1
  BY <1>5 DEF CallTypeInv
<1> QED  BY <1>1, <1>3, <1>4, <1>5, <1>6

LEMMA AtFacts ==
  ASSUME CallTypeInv, NEW n \in Nat
  PROVE  /\ At(n) \in character \cup {"NUL"}
         /\ n < Len(format) <=> At(n) # "NUL"
<1>1. "NUL" \notin character  BY DEF character
<1>2. CASE n < Len(format)
  <2>1. n \in 0 .. Len(format) - 1  BY <1>2, CallFacts
  <2>2. At(n) \in character  BY <1>2, <2>1, CallFacts DEF At
  <2> QED  BY <1>1, <1>2, <2>2
<1>3. CASE ~ (n < Len(format))  BY <1>3 DEF At
<1> QED  BY <1>2, <1>3

(* What a "%" converts, and that the characters it skips are there.        *)
LEMMA KindFacts ==
  ASSUME CallTypeInv, NEW n \in Nat, n < Len(format)
  PROVE  /\ Kind(n) \in {"c", "d", "x", "s", "llx", "none"}
         /\ Kind(n) \in {"c", "d", "x", "s"} => Width(n) = 2
         /\ Kind(n) = "llx" => Width(n) = 4
         /\ At(n + 1) = "%" => Kind(n) = "none" /\ Width(n) = 1
         /\ Width(n) \in 1 .. 4 /\ n + Width(n) <= Len(format)
<1>1. n + 1 \in Nat /\ n + 2 \in Nat /\ n + 3 \in Nat /\ Len(format) \in Nat  BY CallFacts
<1>2. /\ At(n + 1) # "NUL" => n + 1 < Len(format)
      /\ At(n + 2) # "NUL" => n + 2 < Len(format)
      /\ At(n + 3) # "NUL" => n + 3 < Len(format)
  BY <1>1, AtFacts
<1>3. CASE At(n + 1) \in {"c", "d", "x", "s"}
  <2>1. Kind(n) = At(n + 1)  BY <1>3 DEF Kind
  <2>2. Width(n) = 2  BY <1>3, <2>1 DEF Width
  <2> QED  BY <1>1, <1>2, <1>3, <2>1, <2>2
<1>4. CASE At(n + 1) = "l" /\ At(n + 2) = "l" /\ At(n + 3) = "x"
  <2>1. Kind(n) = "llx"  BY <1>4 DEF Kind
  <2>2. Width(n) = 4  BY <2>1 DEF Width
  <2> QED  BY <1>1, <1>2, <1>4, <2>1, <2>2
<1>5. CASE /\ At(n + 1) \notin {"c", "d", "x", "s"}
           /\ ~ (At(n + 1) = "l" /\ At(n + 2) = "l" /\ At(n + 3) = "x")
  <2>1. Kind(n) = "none"  BY <1>5 DEF Kind
  <2>2. Width(n) = IF At(n + 1) = "l" THEN IF At(n + 2) = "l" THEN 3 ELSE 2 ELSE 1
    BY <2>1 DEF Width
  <2>3. CASE At(n + 1) = "l" /\ At(n + 2) = "l"  BY <1>1, <1>2, <2>1, <2>2, <2>3
  <2>4. CASE At(n + 1) = "l" /\ At(n + 2) # "l"  BY <1>1, <1>2, <2>1, <2>2, <2>4
  <2>5. CASE At(n + 1) # "l"  BY <1>1, <2>1, <2>2, <2>5
  <2> QED  BY <2>3, <2>4, <2>5
<1> QED  BY <1>3, <1>4, <1>5

LEMMA SymbolFacts ==
  ASSUME CallTypeInv
  PROVE  /\ \A n \in Nat : Literal(At(n)) \in Symbol
         /\ Literal("%") \in Symbol /\ NUL \in Symbol
         /\ \A k, q \in Nat : Of(k, q) \in Symbol /\ Of(k, q) # NUL
<1>1. ASSUME NEW n \in Nat PROVE Literal(At(n)) \in Symbol
  BY AtFacts DEF Literal, Symbol
<1>2. Literal("%") \in Symbol /\ NUL \in Symbol  BY DEF NUL, Literal, Symbol, character
<1>3. ASSUME NEW k \in Nat, NEW q \in Nat PROVE Of(k, q) \in Symbol /\ Of(k, q) # NUL
  BY DEF Of, NUL, Literal, Symbol
<1> QED  BY <1>1, <1>2, <1>3

LEMMA TextFacts ==
  ASSUME CallTypeInv, NEW k \in Nat, NEW n \in Nat
  PROVE  /\ Text(k, n) \in Seq(Symbol) /\ Len(Text(k, n)) = n
         /\ \A q \in 1 .. n : Text(k, n)[q] = Of(k, q)
<1> DEFINE s == [q \in 1 .. n |-> Of(k, q)]
<1>1. s \in [1 .. n -> Symbol]  BY SymbolFacts
<1>2. \A q \in 1 .. n : s[q] = Of(k, q)  OBVIOUS
<1>3. Text(k, n) = s  BY DEF Text
<1> HIDE DEF s
<1>4. s \in Seq(Symbol) /\ Len(s) = n  BY <1>1, LenProperties, SeqDef
<1> QED  BY <1>2, <1>3, <1>4

LEMMA LengthFacts ==
  ASSUME CallTypeInv, NEW k \in 1 .. MaxArguments, NEW kind
  PROVE  LengthOf(kind, k) \in 0 .. TempSize - 1
<1>1. 1 \in 0 .. TempSize - 1 /\ Hex32 \in 0 .. TempSize - 1 /\ Hex64 \in 0 .. TempSize - 1
  BY CallFacts
<1>2. lengths[k] \in 0 .. TempSize - 1  BY CallFacts
<1> QED  BY <1>1, <1>2 DEF LengthOf

(* What is read is again something read.                                   *)
LEMMA ReadType ==
  ASSUME CallTypeInv, NEW r \in ReadState, NEW n \in 0 .. Len(format) - 1
  PROVE  ReadCharacter(r, n) \in ReadState
<1> USE DEF ReadCharacter
<1>1. /\ n \in Nat /\ n < Len(format) /\ MaxArguments \in Nat /\ TempSize \in Nat
      /\ r.ok \in BOOLEAN /\ r.text \in Seq(Symbol) /\ r.taken \in 0 .. MaxArguments
      /\ r.longest \in 0 .. TempSize - 1 /\ r.skip \in Nat
  BY CallFacts DEF ReadState
<1>2. CASE ~ r.ok  BY <1>2
<1>3. CASE r.ok /\ r.skip > 0  BY <1>1, <1>3 DEF ReadState
<1>4. CASE r.ok /\ ~ (r.skip > 0) /\ At(n) # "%"
  <2>1. Append(r.text, Literal(At(n))) \in Seq(Symbol)  BY <1>1, SymbolFacts
  <2> QED  BY <1>4, <2>1 DEF ReadState
<1>5. CASE r.ok /\ ~ (r.skip > 0) /\ At(n) = "%" /\ At(n + 1) = "%"
  <2>1. Append(r.text, Literal("%")) \in Seq(Symbol)  BY <1>1, SymbolFacts
  <2> QED  BY <1>5, <2>1 DEF ReadState
<1>6. CASE r.ok /\ ~ (r.skip > 0) /\ At(n) = "%" /\ At(n + 1) # "%" /\ ~ Converts(r, n)
  BY <1>6 DEF ReadState
<1>7. CASE r.ok /\ ~ (r.skip > 0) /\ At(n) = "%" /\ At(n + 1) # "%" /\ Converts(r, n)
  <2> DEFINE k == r.taken + 1
             len == LengthOf(Kind(n), k)
             long == IF Kind(n) \in {"c", "s"} THEN r.longest ELSE Larger(r.longest, len)
  <2>1. k \in 1 .. MaxArguments /\ k \in 0 .. MaxArguments /\ k \in Nat
    BY <1>1, <1>7 DEF Converts
  <2>2. len \in 0 .. TempSize - 1 /\ len \in Nat  BY <1>1, <2>1, LengthFacts
  <2>3. long \in 0 .. TempSize - 1  BY <1>1, <2>2 DEF Larger
  <2>4. Width(n) - 1 \in Nat  BY <1>1, KindFacts
  <2>5. r.text \o Text(k, len) \in Seq(Symbol)
    <3>1. Text(k, len) \in Seq(Symbol)  BY <2>1, <2>2, TextFacts
    <3> HIDE DEF k, len
    <3> QED  BY <1>1, <3>1, ConcatProperties
  <2>6. ReadCharacter(r, n) = [r EXCEPT !.text = r.text \o Text(k, len), !.taken = k,
                                        !.skip = Width(n) - 1, !.longest = long]
    BY <1>7
  <2> HIDE DEF k, len, long, ReadCharacter
  <2> QED  BY <2>1, <2>3, <2>4, <2>5, <2>6 DEF ReadState
<1> QED  BY <1>2, <1>3, <1>4, <1>5, <1>6, <1>7

(* f is the reading of the format.                                         *)
IsReading(f) ==
  /\ f \in [0 .. Len(format) -> ReadState] /\ f[0] = NothingRead
  /\ \A n \in 1 .. Len(format) : f[n] = ReadCharacter(f[n - 1], n - 1)

LEMMA ReadingExists ==
  ASSUME CallTypeInv
  PROVE  IsReading(Reading)
<1> DEFINE n == Len(format)
           step == [m \in 1 .. n |-> [r \in ReadState |-> ReadCharacter(r, m - 1)]]
           Body(h) == [m \in 0 .. n |-> IF m = 0 THEN NothingRead ELSE ReadCharacter(h[m - 1], m - 1)]
<1>1. n \in Nat  BY CallFacts
<1>2. NothingRead \in ReadState
  <2>1. MaxArguments \in Nat /\ TempSize \in Nat /\ TempSize >= 2 /\ << >> \in Seq(Symbol)
    BY CallFacts
  <2> QED  BY <2>1 DEF NothingRead, ReadState
<1>3. Reading = CHOOSE h : h = Body(h)  BY DEF Reading, NothingRead
<1>4. \A m \in 1 .. n : \A r \in ReadState : ReadCharacter(r, m - 1) \in ReadState
  <2> SUFFICES ASSUME NEW m \in 1 .. n, NEW r \in ReadState
               PROVE  ReadCharacter(r, m - 1) \in ReadState
    OBVIOUS
  <2>1. m - 1 \in 0 .. Len(format) - 1  BY <1>1
  <2> QED  BY <2>1, ReadType
<1> HIDE DEF n
<1>5. PICK f : IsScan(f, ReadState, NothingRead, n, step)
  <2>1. step \in [1 .. n -> [ReadState -> ReadState]]  BY <1>4
  <2> HIDE DEF step
  <2> QED  BY <1>1, <1>2, <2>1, Recursion, Zenon
<1>6. \A m \in 1 .. n : f[m - 1] \in ReadState /\ f[m] = ReadCharacter(f[m - 1], m - 1)
  <2>1. \A m \in 1 .. n : f[m - 1] \in ReadState  BY <1>1, <1>5 DEF IsScan
  <2> QED  BY <1>5, <2>1 DEF IsScan
<1>7. f = Body(f)  BY <1>1, <1>5, <1>6 DEF IsScan
<1>8. Reading = Body(Reading)
  <2> HIDE DEF Body
  <2> QED  BY <1>3, <1>7
<1> DEFINE g == Reading
<1> HIDE DEF g
<1>9. /\ g[0] = NothingRead /\ g = [m \in 0 .. n |-> g[m]]
      /\ \A m \in 1 .. n : g[m] = ReadCharacter(g[m - 1], m - 1)
  BY <1>1, <1>8 DEF g
<1>10. \A m \in 0 .. n : g[m] \in ReadState
  <2> DEFINE S == {m \in 1 .. n + 1 : g[m - 1] \in ReadState}
             last == n + 1
  <2>1. last \in Nat /\ 1 \in S  BY <1>1, <1>2, <1>9
  <2>2. ASSUME NEW m \in 1 .. last - 1, m \in S PROVE m + 1 \in S
    <3>1. m \in 1 .. n /\ (m + 1) - 1 = m /\ m + 1 \in 1 .. n + 1  BY <1>1
    <3>2. g[m] \in ReadState  BY <1>4, <1>9, <2>2, <3>1
    <3> QED  BY <3>1, <3>2
  <2> HIDE DEF S, last
  <2>3. 1 .. last \subseteq S  BY <2>1, <2>2, Induction
  <2>4. ASSUME NEW m \in 0 .. n PROVE g[m] \in ReadState
    <3>1. m + 1 \in 1 .. last /\ (m + 1) - 1 = m  BY <1>1 DEF last
    <3>2. m + 1 \in S  BY <2>3, <3>1
    <3>3. g[(m + 1) - 1] \in ReadState  BY <3>2 DEF S
    <3> QED  BY <3>1, <3>3
  <2> QED  BY <2>4
<1> QED  BY <1>9, <1>10 DEF IsReading, n, g

(* A format that is well formed is so up to every position.                *)
LEMMA WellFormedSoFar ==
  ASSUME CallTypeInv, NEW f, IsReading(f), f[Len(format)].ok, NEW n \in 0 .. Len(format)
  PROVE  f[n].ok
<1> DEFINE L == Len(format)
           S == {m \in 1 .. L + 1 : f[L - (m - 1)].ok}
           last == L + 1
<1>1. L \in Nat  BY CallFacts
<1>2. last \in Nat /\ 1 \in S
  <2>1. L - (1 - 1) = L /\ 1 \in 1 .. L + 1  BY <1>1
  <2> QED  BY <1>1, <2>1
<1>3. ASSUME NEW m \in 1 .. last - 1, m \in S PROVE m + 1 \in S
  <2> DEFINE j == L - (m - 1)
  <2>1. j \in 1 .. L /\ L - ((m + 1) - 1) = j - 1 /\ m + 1 \in 1 .. L + 1  BY <1>1
  <2>2. f[j] = ReadCharacter(f[j - 1], j - 1) /\ f[j].ok  BY <1>3, <2>1 DEF IsReading
  <2> HIDE DEF j
  <2>3. f[j - 1].ok  BY <2>2 DEF ReadCharacter
  <2> QED  BY <2>1, <2>3
<1> HIDE DEF S, last
<1>4. 1 .. last \subseteq S  BY <1>2, <1>3, Induction
<1> DEFINE m == L - n + 1
<1>5. m \in 1 .. last /\ L - (m - 1) = n  BY <1>1 DEF last
<1>6. m \in S  BY <1>4, <1>5
<1>7. f[L - (m - 1)].ok  BY <1>6 DEF S
<1> QED  BY <1>5, <1>7

(* The string in a buffer that begins with a text and a NUL.               *)
LEMMA StringOfText ==
  ASSUME CallTypeInv, NEW k \in Nat, NEW n \in 0 .. TempSize - 1, NEW b,
         \A q \in 1 .. n : b[q] = Of(k, q), b[n + 1] = NUL
  PROVE  String(b) = Text(k, n)
<1>1. TempSize \in Nat /\ n + 1 \in 1 .. TempSize /\ n \in Nat  BY CallFacts
<1> DEFINE P(m) == b[m] = NUL /\ \A q \in 1 .. m - 1 : b[q] # NUL
<1>2. \A q \in 1 .. n : b[q] # NUL /\ b[q] \in Symbol  BY <1>1, SymbolFacts
<1>3. ASSUME NEW m \in 1 .. TempSize PROVE P(m) <=> m = n + 1
  <2>1. CASE m < n + 1
    <3>1. m \in 1 .. n  BY <1>1, <2>1
    <3> QED  BY <1>1, <1>2, <2>1, <3>1
  <2>2. CASE m > n + 1
    <3>1. n + 1 \in 1 .. m - 1  BY <1>1, <2>2
    <3> QED  BY <1>1, <2>2, <3>1
  <2>3. CASE m = n + 1
    <3>1. m - 1 = n  BY <1>1, <2>3
    <3> QED  BY <1>2, <2>3, <3>1
  <2> QED  BY <1>1, <2>1, <2>2, <2>3
<1>4. (CHOOSE m \in 1 .. TempSize : P(m)) = n + 1
  <2> HIDE DEF P
  <2> QED  BY <1>1, <1>3
<1>5. String(b) = SubSeq(b, 1, n + 1 - 1)
  <2> DEFINE end == CHOOSE m \in 1 .. TempSize : P(m)
  <2>1. String(b) = SubSeq(b, 1, end - 1)  BY Zenon DEF String
  <2> HIDE DEF end
  <2>2. end = n + 1  BY <1>4 DEF end
  <2> QED  BY <2>1, <2>2
<1>6. String(b) = SubSeq(b, 1, n)
  <2>1. n + 1 - 1 = n  BY <1>1
  <2> QED  BY <1>5, <2>1
<1> HIDE DEF P
<1> DEFINE s == SubSeq(b, 1, n)
<1>7. s \in Seq(Symbol) /\ Len(s) = n /\ \A q \in 1 .. n : s[q] = b[q]
  <2>1. \A q \in 1 .. n : b[q] \in Symbol  BY <1>2
  <2>2. 1 \in Int /\ n \in Int  BY <1>1
  <2>3. /\ s \in Seq(Symbol) /\ Len(s) = IF 1 <= n THEN n - 1 + 1 ELSE 0
        /\ \A q \in 1 .. n - 1 + 1 : s[q] = b[1 + q - 1]
    BY <2>1, <2>2, SubSeqProperties
  <2> HIDE DEF s
  <2>4. Len(s) = n /\ n - 1 + 1 = n /\ \A q \in 1 .. n : 1 + q - 1 = q  BY <1>1, <2>3
  <2> QED  BY <2>3, <2>4
<1> HIDE DEF s
<1>8. \A q \in 1 .. n : s[q] = Text(k, n)[q]  BY <1>1, <1>7, TextFacts
<1>9. s = Text(k, n)  BY <1>1, <1>7, <1>8, TextFacts, SeqEqual
<1> QED  BY <1>6, <1>9 DEF s

(* temp holds NULs behind the longest number.                              *)
TempHolds(b, n) == b \in [1 .. TempSize -> Symbol] /\ \A q \in n + 1 .. TempSize : b[q] = NUL

(* A conversion prints the whole text of its argument, and nothing that    *)
(* was in temp before.                                                     *)
LEMMA ConvertsWhole ==
  ASSUME CallTypeInv, NEW kind \in {"c", "d", "x", "s", "llx"}, NEW k \in 1 .. MaxArguments,
         NEW n \in 0 .. TempSize - 1, TempHolds(temp, n),
         kind \in {"x", "llx"} => n <= LengthOf(kind, k)
  PROVE  /\ Converted(kind, k) = Text(k, LengthOf(kind, k))
         /\ TempHolds(NewTemp(kind, k),
                      IF kind \in {"c", "s"} THEN n ELSE Larger(n, LengthOf(kind, k)))
<1> DEFINE len == LengthOf(kind, k)
           b   == NewTemp(kind, k)
           o   == Overwrite(k, len)
<1>1. /\ TempSize \in Nat /\ k \in Nat /\ n \in Nat /\ len \in Nat /\ len \in 0 .. TempSize - 1
      /\ MaxArguments \in Nat
  BY CallFacts, LengthFacts
<1>2. CASE kind = "c"
  <2>1. len = 1 /\ b = temp  BY <1>2 DEF LengthOf, NewTemp
  <2> QED  BY <1>2, <2>1 DEF Converted
<1>3. CASE kind = "s"
  <2>1. len = lengths[k] /\ b = temp  BY <1>3 DEF LengthOf, NewTemp
  <2> QED  BY <1>3, <2>1 DEF Converted
<1>4. CASE kind \in {"d", "x", "llx"}
  <2> HIDE DEF len, b
  <2>1. /\ o \in [1 .. TempSize -> Symbol]
        /\ \A q \in 1 .. TempSize : o[q] = IF q <= len THEN Of(k, q) ELSE temp[q]
    BY <1>1, SymbolFacts DEF Overwrite, TempHolds
  <2> HIDE DEF o
  <2>2. /\ b \in [1 .. TempSize -> Symbol] /\ b[len + 1] = NUL
        /\ \A q \in 1 .. TempSize : q # len + 1 => b[q] = IF q <= len THEN Of(k, q) ELSE temp[q]
    <3>1. CASE kind = "d"
      <4>1. len = lengths[k]  BY <3>1 DEF LengthOf, len
      <4>2. b = [o EXCEPT ![len + 1] = NUL]
        BY <3>1, <4>1 DEF NewTemp, itoa_to_temp, b, o
      <4>3. NUL \in Symbol /\ len + 1 \in 1 .. TempSize  BY <1>1, SymbolFacts
      <4> QED  BY <2>1, <4>2, <4>3
    <3>2. CASE kind \in {"x", "llx"}
      <4>1. b = o  BY <3>2 DEF NewTemp, x32toa, x64toa, LengthOf, len, b, o
      <4>2. len + 1 \in n + 1 .. TempSize /\ len + 1 \in 1 .. TempSize  BY <1>1, <3>2 DEF len
      <4>3. temp[len + 1] = NUL  BY <4>2 DEF TempHolds
      <4>4. b[len + 1] = temp[len + 1]  BY <1>1, <2>1, <4>1, <4>2
      <4> QED  BY <2>1, <4>1, <4>3, <4>4
    <3> QED  BY <1>4, <3>1, <3>2
  <2>3. \A q \in 1 .. len : b[q] = Of(k, q)
    <3>1. \A q \in 1 .. len : q \in 1 .. TempSize /\ q # len + 1 /\ q <= len  BY <1>1
    <3> QED  BY <2>2, <3>1
  <2>4. String(b) = Text(k, len)  BY <1>1, <2>2, <2>3, StringOfText
  <2>5. Converted(kind, k) = String(b)  BY <1>4 DEF Converted, b
  <2>6. TempHolds(b, Larger(n, len))
    <3>1. ASSUME NEW q \in Larger(n, len) + 1 .. TempSize PROVE b[q] = NUL
      <4>1. q \in n + 1 .. TempSize /\ q \in 1 .. TempSize /\ ~ (q <= len)
        BY <1>1 DEF Larger
      <4>2. temp[q] = NUL  BY <4>1 DEF TempHolds
      <4> QED  BY <2>2, <4>1, <4>2
    <3> QED  BY <2>2, <3>1 DEF TempHolds
  <2> QED  BY <1>4, <2>4, <2>5, <2>6 DEF len, b
<1> QED  BY <1>2, <1>3, <1>4

(* The state of vsprintf is what the reading of the format says.           *)
Agrees(f) ==
  f[Len(format)].ok =>
    /\ i <= Len(format) /\ f[i].skip = 0
    /\ output = f[i].text /\ taken = f[i].taken /\ TempHolds(temp, f[i].longest)

VsprintfInv == /\ CallTypeInv /\ i \in Nat /\ StaysInFormat
               /\ \E f : IsReading(f) /\ Agrees(f)

LEMMA VsprintfInvInit == VsprintfInit => VsprintfInv
<1> SUFFICES ASSUME VsprintfInit PROVE VsprintfInv  OBVIOUS
<1>1. CallTypeInv  BY DEF VsprintfInit, CallTypeInv
<1>2. i = 0 /\ taken = 0 /\ output = << >> /\ temp = [q \in 1 .. TempSize |-> NUL]
  BY DEF VsprintfInit
<1>3. Len(format) \in Nat  BY <1>1, CallFacts
<1>4. TempHolds(temp, 0)  BY <1>1, <1>2, SymbolFacts DEF TempHolds
<1>5. IsReading(Reading)  BY <1>1, ReadingExists
<1> DEFINE f == Reading
<1>6. f[0] = NothingRead  BY <1>5 DEF IsReading
<1> HIDE DEF f
<1>7. /\ f[i].skip = 0 /\ f[i].text = << >> /\ f[i].taken = 0 /\ f[i].longest = 0
  BY <1>2, <1>6 DEF NothingRead
<1>8. Agrees(f)  BY <1>2, <1>3, <1>4, <1>7 DEF Agrees
<1>9. \E h : IsReading(h) /\ Agrees(h)  BY <1>5, <1>8 DEF f
<1> QED  BY <1>1, <1>2, <1>3, <1>9 DEF VsprintfInv, StaysInFormat

(* A call keeps its arguments, so its format reads as before.              *)
LEMMA SameReading ==
  ASSUME format' = format, lengths' = lengths, NEW f, IsReading(f)
  PROVE  IsReading(f)'
<1>1. ASSUME NEW n PROVE At(n)' = At(n)  BY DEF At
<1>2. ASSUME NEW n PROVE Kind(n)' = Kind(n)  BY <1>1 DEF Kind
<1>3. ASSUME NEW n PROVE Width(n)' = Width(n)  BY <1>1, <1>2 DEF Width
<1>4. ASSUME NEW kind, NEW k PROVE LengthOf(kind, k)' = LengthOf(kind, k)  BY DEF LengthOf
<1>5. ASSUME NEW r, NEW n PROVE Converts(r, n)' <=> Converts(r, n)
  BY <1>1, <1>2, <1>3, <1>4 DEF Converts
<1>6. ASSUME NEW r, NEW n PROVE ReadCharacter(r, n)' = ReadCharacter(r, n)
  BY <1>1, <1>2, <1>3, <1>4, <1>5 DEF ReadCharacter
<1> QED  BY <1>6 DEF IsReading

LEMMA SkipsOne ==
  ASSUME CallTypeInv, NEW f, IsReading(f), NEW n \in Nat, n < Len(format),
         f[n].ok, f[n].skip > 0
  PROVE  /\ f[n + 1].skip = f[n].skip - 1 /\ f[n + 1].ok /\ f[n + 1].text = f[n].text
         /\ f[n + 1].taken = f[n].taken /\ f[n + 1].longest = f[n].longest
<1>1. n + 1 \in 1 .. Len(format) /\ (n + 1) - 1 = n /\ n \in 0 .. Len(format)  BY CallFacts
<1>2. f[n + 1] = ReadCharacter(f[n], n) /\ f[n] \in ReadState  BY <1>1 DEF IsReading
<1>3. f[n + 1] = [f[n] EXCEPT !.skip = f[n].skip - 1]  BY <1>2 DEF ReadCharacter
<1> QED  BY <1>2, <1>3 DEF ReadState

(* The characters of a conversion behind its "%" are skipped.              *)
LEMMA SkipsConversion ==
  ASSUME CallTypeInv, NEW f, IsReading(f), f[Len(format)].ok, NEW n \in Nat, NEW w \in {2, 4},
         n + w < Len(format), f[n + 1].skip = w - 1
  PROVE  /\ f[n + w].skip = 0 /\ f[n + w].text = f[n + 1].text
         /\ f[n + w].taken = f[n + 1].taken /\ f[n + w].longest = f[n + 1].longest
<1>1. /\ Len(format) \in Nat /\ n + 1 \in Nat /\ n + 2 \in Nat /\ n + 3 \in Nat
      /\ (n + 1) + 1 = n + 2 /\ (n + 2) + 1 = n + 3 /\ (n + 3) + 1 = n + 4
  BY CallFacts
<1>2. f[n + 1].ok
  <2>1. n + 1 \in 0 .. Len(format)  BY <1>1
  <2> QED  BY <2>1, WellFormedSoFar
<1>3. CASE w = 2
  <2>1. n + 1 < Len(format) /\ f[n + 1].skip = 1  BY <1>1, <1>3
  <2>2. /\ f[n + 2].skip = f[n + 1].skip - 1 /\ f[n + 2].text = f[n + 1].text
        /\ f[n + 2].taken = f[n + 1].taken /\ f[n + 2].longest = f[n + 1].longest
    <3>1. f[n + 1].skip > 0  BY <2>1
    <3>2. /\ f[(n + 1) + 1].skip = f[n + 1].skip - 1 /\ f[(n + 1) + 1].text = f[n + 1].text
          /\ f[(n + 1) + 1].taken = f[n + 1].taken /\ f[(n + 1) + 1].longest = f[n + 1].longest
      BY <1>1, <1>2, <2>1, <3>1, SkipsOne
    <3> QED  BY <1>1, <3>2
  <2> QED  BY <1>3, <2>1, <2>2
<1>4. CASE w = 4
  <2>1. n + 1 < Len(format) /\ n + 2 < Len(format) /\ n + 3 < Len(format) /\ f[n + 1].skip = 3
    BY <1>1, <1>4
  <2>2. /\ f[n + 2].skip = 2 /\ f[n + 2].ok /\ f[n + 2].text = f[n + 1].text
        /\ f[n + 2].taken = f[n + 1].taken /\ f[n + 2].longest = f[n + 1].longest
    <3>1. f[n + 1].skip > 0  BY <2>1
    <3>2. /\ f[(n + 1) + 1].skip = f[n + 1].skip - 1 /\ f[(n + 1) + 1].text = f[n + 1].text
          /\ f[(n + 1) + 1].taken = f[n + 1].taken /\ f[(n + 1) + 1].longest = f[n + 1].longest
          /\ f[(n + 1) + 1].ok
      BY <1>1, <1>2, <2>1, <3>1, SkipsOne
    <3> QED  BY <1>1, <2>1, <3>2
  <2>3. /\ f[n + 3].skip = 1 /\ f[n + 3].ok /\ f[n + 3].text = f[n + 2].text
        /\ f[n + 3].taken = f[n + 2].taken /\ f[n + 3].longest = f[n + 2].longest
    <3>1. f[n + 2].skip > 0  BY <2>2
    <3>2. /\ f[(n + 2) + 1].skip = f[n + 2].skip - 1 /\ f[(n + 2) + 1].text = f[n + 2].text
          /\ f[(n + 2) + 1].taken = f[n + 2].taken /\ f[(n + 2) + 1].longest = f[n + 2].longest
          /\ f[(n + 2) + 1].ok
      BY <1>1, <2>1, <2>2, <3>1, SkipsOne
    <3> QED  BY <1>1, <2>2, <3>2
  <2>4. /\ f[n + 4].skip = 0 /\ f[n + 4].text = f[n + 3].text
        /\ f[n + 4].taken = f[n + 3].taken /\ f[n + 4].longest = f[n + 3].longest
    <3>1. f[n + 3].skip > 0  BY <2>3
    <3>2. /\ f[(n + 3) + 1].skip = f[n + 3].skip - 1 /\ f[(n + 3) + 1].text = f[n + 3].text
          /\ f[(n + 3) + 1].taken = f[n + 3].taken /\ f[(n + 3) + 1].longest = f[n + 3].longest
      BY <1>1, <2>1, <2>3, <3>1, SkipsOne
    <3> QED  BY <1>1, <2>3, <3>2
  <2> QED  BY <1>4, <2>2, <2>3, <2>4
<1> QED  BY <1>3, <1>4

(* An ordinary character is read as itself.                                *)
LEMMA ReadsOrdinary ==
  ASSUME CallTypeInv, NEW f, IsReading(f), f[Len(format)].ok, NEW n \in Nat, n < Len(format),
         f[n].skip = 0, At(n) # "%"
  PROVE  /\ f[n + 1].skip = 0 /\ f[n + 1].text = Append(f[n].text, Literal(At(n)))
         /\ f[n + 1].taken = f[n].taken /\ f[n + 1].longest = f[n].longest
<1>1. n + 1 \in 1 .. Len(format) /\ (n + 1) - 1 = n /\ n \in 0 .. Len(format)  BY CallFacts
<1>2. f[n + 1] = ReadCharacter(f[n], n) /\ f[n] \in ReadState  BY <1>1 DEF IsReading
<1>3. f[n].ok  BY <1>1, WellFormedSoFar
<1>4. f[n + 1] = [f[n] EXCEPT !.text = Append(f[n].text, Literal(At(n)))]
  BY <1>2, <1>3 DEF ReadCharacter
<1> QED  BY <1>2, <1>4 DEF ReadState

LEMMA ReadsPercent ==
  ASSUME CallTypeInv, NEW f, IsReading(f), f[Len(format)].ok, NEW n \in Nat, n + 1 < Len(format),
         f[n].skip = 0, At(n) = "%", At(n + 1) = "%"
  PROVE  /\ f[n + 2].skip = 0 /\ f[n + 2].text = Append(f[n].text, Literal("%"))
         /\ f[n + 2].taken = f[n].taken /\ f[n + 2].longest = f[n].longest
<1>1. /\ n + 1 \in 1 .. Len(format) /\ (n + 1) - 1 = n /\ n \in 0 .. Len(format)
      /\ n + 1 \in Nat /\ (n + 1) + 1 = n + 2 /\ n + 1 \in 0 .. Len(format)
  BY CallFacts
<1>2. f[n + 1] = ReadCharacter(f[n], n) /\ f[n] \in ReadState  BY <1>1 DEF IsReading
<1>3. f[n].ok /\ f[n + 1].ok  BY <1>1, WellFormedSoFar
<1>4. f[n + 1] = [f[n] EXCEPT !.text = Append(f[n].text, Literal("%")), !.skip = 1]
  BY <1>2, <1>3 DEF ReadCharacter
<1>5. /\ f[n + 1].skip = 1 /\ f[n + 1].text = Append(f[n].text, Literal("%"))
      /\ f[n + 1].taken = f[n].taken /\ f[n + 1].longest = f[n].longest
  BY <1>2, <1>4 DEF ReadState
<1>6. f[n + 1].skip > 0  BY <1>5
<1>7. /\ f[(n + 1) + 1].skip = f[n + 1].skip - 1 /\ f[(n + 1) + 1].text = f[n + 1].text
      /\ f[(n + 1) + 1].taken = f[n + 1].taken /\ f[(n + 1) + 1].longest = f[n + 1].longest
  BY <1>1, <1>3, <1>6, SkipsOne
<1> QED  BY <1>1, <1>5, <1>7

(* The conversion at position n is read as the text of argument k and the  *)
(* character behind it.                                                    *)
ConversionRead(f, n, k) ==
  LET w   == Width(n)
      len == LengthOf(Kind(n), k)
  IN  /\ Converts(f[n], n) /\ w \in {2, 4} /\ n + w < Len(format)
      /\ k \in 1 .. MaxArguments /\ k \in Nat /\ len \in Nat
      /\ f[n].longest \in 0 .. TempSize - 1
      /\ f[n + w + 1].skip = 0 /\ f[n + w + 1].taken = k
      /\ f[n + w + 1].text = Append(f[n].text \o Text(k, len), Literal(At(n + w)))
      /\ f[n + w + 1].longest
           = IF Kind(n) \in {"c", "s"} THEN f[n].longest ELSE Larger(f[n].longest, len)

LEMMA ReadsConversion ==
  ASSUME CallTypeInv, NEW f, IsReading(f), f[Len(format)].ok, NEW n \in Nat, n < Len(format),
         f[n].skip = 0, At(n) = "%", At(n + 1) # "%"
  PROVE  ConversionRead(f, n, f[n].taken + 1)
<1> DEFINE r == f[n]
           k == r.taken + 1
           w == Width(n)
           len == LengthOf(Kind(n), k)
           long == IF Kind(n) \in {"c", "s"} THEN r.longest ELSE Larger(r.longest, len)
<1>1. /\ n + 1 \in 1 .. Len(format) /\ (n + 1) - 1 = n /\ n \in 0 .. Len(format)
      /\ n + 1 \in 0 .. Len(format) /\ Len(format) \in Nat /\ MaxArguments \in Nat
      /\ TempSize \in Nat
  BY CallFacts
<1>2. f[n + 1] = ReadCharacter(r, n) /\ r \in ReadState  BY <1>1 DEF IsReading
<1>3. r.ok /\ f[n + 1].ok  BY <1>1, WellFormedSoFar
<1>4. /\ r.skip \in Nat /\ r.taken \in 0 .. MaxArguments /\ r.text \in Seq(Symbol)
      /\ r.longest \in 0 .. TempSize - 1
  BY <1>2 DEF ReadState
<1>5. Converts(r, n)
  <2>1. ASSUME ~ Converts(r, n) PROVE FALSE
    <3>1. f[n + 1] = [r EXCEPT !.ok = FALSE]  BY <1>2, <1>3, <2>1 DEF ReadCharacter
    <3>2. f[n + 1].ok = FALSE  BY <1>2, <3>1 DEF ReadState
    <3> QED  BY <1>3, <3>2
  <2> QED  BY <2>1
<1>6. /\ w \in {2, 4} /\ k \in 1 .. MaxArguments /\ k \in Nat
      /\ At(n + w) # "%" /\ At(n + w) # "NUL"
  <2>1. w \in {2, 4}  BY <1>5, KindFacts DEF Converts
  <2>2. k \in 1 .. MaxArguments /\ k \in Nat  BY <1>1, <1>4, <1>5 DEF Converts
  <2> QED  BY <1>5, <2>1, <2>2 DEF Converts
<1>7. len \in Nat  BY <1>1, <1>6, LengthFacts
<1>8. n + w < Len(format) /\ n + w \in Nat
  <2>1. n + w \in Nat  BY <1>6
  <2> QED  BY <1>6, <2>1, AtFacts
<1>9. f[n + 1] = [r EXCEPT !.text = r.text \o Text(k, len), !.taken = k,
                           !.skip = w - 1, !.longest = long]
  BY <1>2, <1>3, <1>5 DEF ReadCharacter
<1> HIDE DEF r, k, w, len, long
<1>10. /\ f[n + 1].text = r.text \o Text(k, len) /\ f[n + 1].taken = k
       /\ f[n + 1].skip = w - 1 /\ f[n + 1].longest = long
  BY <1>2, <1>9 DEF ReadState
<1>11. /\ f[n + w].skip = 0 /\ f[n + w].text = r.text \o Text(k, len)
       /\ f[n + w].taken = k /\ f[n + w].longest = long
  <2>1. f[n + 1].skip = w - 1  BY <1>10
  <2>2. /\ f[n + w].skip = 0 /\ f[n + w].text = f[n + 1].text
        /\ f[n + w].taken = f[n + 1].taken /\ f[n + w].longest = f[n + 1].longest
    <3>1. PICK m \in {2, 4} : m = w  BY <1>6
    <3>2. n + m < Len(format) /\ f[n + 1].skip = m - 1  BY <1>8, <2>1, <3>1
    <3>3. /\ f[n + m].skip = 0 /\ f[n + m].text = f[n + 1].text
          /\ f[n + m].taken = f[n + 1].taken /\ f[n + m].longest = f[n + 1].longest
      BY <3>2, SkipsConversion
    <3> QED  BY <3>1, <3>3
  <2> QED  BY <1>10, <2>2
<1>12. /\ f[(n + w) + 1].skip = 0 /\ f[(n + w) + 1].text = Append(f[n + w].text, Literal(At(n + w)))
       /\ f[(n + w) + 1].taken = f[n + w].taken /\ f[(n + w) + 1].longest = f[n + w].longest
  BY <1>6, <1>8, <1>11, ReadsOrdinary
<1> QED
  BY <1>4, <1>5, <1>6, <1>7, <1>8, <1>11, <1>12 DEF ConversionRead, r, k, w, len, long

(* A step leaves the state at a later position of the reading.             *)
LEMMA VsprintfKeeps ==
  ASSUME CallTypeInv, i \in Nat, vsprintf, NEW f, IsReading(f), Agrees(f), f[Len(format)].ok
  PROVE  /\ i' <= Len(format) /\ f[i'].skip = 0
         /\ output' = f[i'].text /\ taken' = f[i'].taken /\ TempHolds(temp', f[i'].longest)
<1>1. i < Len(format) /\ Len(format) \in Nat /\ i + 1 \in Nat  BY CallFacts DEF vsprintf
<1>2. /\ f[i].skip = 0 /\ output = f[i].text /\ taken = f[i].taken
      /\ TempHolds(temp, f[i].longest)
  BY DEF Agrees
<1>3. output \in Seq(Symbol)
  <2>1. i \in 0 .. Len(format)  BY <1>1
  <2>2. f[i] \in ReadState  BY <2>1 DEF IsReading
  <2> QED  BY <1>2, <2>2 DEF ReadState
<1>4. CASE CopyCharacter
  <2>1. /\ At(i) # "%" /\ output' = Append(output, Literal(At(i))) /\ i' = i + 1
        /\ taken' = taken /\ temp' = temp
    BY <1>4 DEF CopyCharacter
  <2>2. /\ f[i + 1].skip = 0 /\ f[i + 1].text = Append(f[i].text, Literal(At(i)))
        /\ f[i + 1].taken = f[i].taken /\ f[i + 1].longest = f[i].longest
    BY <1>1, <1>2, <2>1, ReadsOrdinary
  <2> QED  BY <1>1, <1>2, <2>1, <2>2
<1>5. CASE Convert
  <2> DEFINE k == taken + 1
             w == Width(i)
             L == Literal(At(i + w))
  <2>1. /\ At(i) = "%" /\ temp' = NewTemp(Kind(i), k) /\ i' = i + w + 1
        /\ output' = output \o Converted(Kind(i), k) \o <<L>>
        /\ taken' = IF Kind(i) = "none" THEN taken ELSE k
    BY <1>5 DEF Convert
  <2>2. CASE At(i + 1) = "%"
    <3>1. Kind(i) = "none" /\ w = 1  BY <1>1, <2>2, KindFacts
    <3>2. i + 1 < Len(format)  BY <1>1, <2>2, AtFacts
    <3>3. temp' = temp /\ taken' = taken /\ Converted(Kind(i), k) = << >>
      BY <2>1, <3>1 DEF NewTemp, Converted
    <3>4. L = Literal("%") /\ i' = i + 2  BY <2>1, <2>2, <3>1
    <3>5. output' = Append(output, Literal("%"))
      <4>1. output' = (output \o << >>) \o <<Literal("%")>>  BY <2>1, <3>3, <3>4
      <4>2. output \o << >> = output  BY <1>3, ConcatEmptySeq
      <4>3. output' = output \o <<Literal("%")>>  BY <4>1, <4>2, Zenon
      <4>4. Literal("%") \in Symbol  BY SymbolFacts
      <4>5. Append(output, Literal("%")) = output \o <<Literal("%")>>
        BY <1>3, <4>4, AppendIsConcat
      <4> QED  BY <4>3, <4>5, Zenon
    <3>6. /\ f[i + 2].skip = 0 /\ f[i + 2].text = Append(f[i].text, Literal("%"))
          /\ f[i + 2].taken = f[i].taken /\ f[i + 2].longest = f[i].longest
      BY <1>2, <2>1, <2>2, <3>2, ReadsPercent
    <3> QED  BY <1>1, <1>2, <3>2, <3>3, <3>4, <3>5, <3>6
  <2>3. CASE At(i + 1) # "%"
    <3> DEFINE len == LengthOf(Kind(i), k)
               long == IF Kind(i) \in {"c", "s"} THEN f[i].longest ELSE Larger(f[i].longest, len)
    <3>1. /\ Converts(f[i], i) /\ w \in {2, 4} /\ i + w < Len(format)
          /\ k \in 1 .. MaxArguments /\ k \in Nat /\ len \in Nat
          /\ f[i].longest \in 0 .. TempSize - 1
          /\ f[i + w + 1].skip = 0 /\ f[i + w + 1].taken = k
          /\ f[i + w + 1].text = Append(f[i].text \o Text(k, len), L)
          /\ f[i + w + 1].longest = long
      <4>1. ConversionRead(f, i, f[i].taken + 1)  BY <1>1, <1>2, <2>1, <2>3, ReadsConversion
      <4>2. ConversionRead(f, i, k)  BY <1>2, <4>1
      <4> HIDE DEF k
      <4> QED  BY <4>2 DEF ConversionRead
    <3>2. /\ Kind(i) \in {"c", "d", "x", "s", "llx"}
          /\ Kind(i) \in {"x", "llx"} => f[i].longest <= len
      BY <1>1, <1>2, <3>1, KindFacts DEF Converts
    <3>3. Converted(Kind(i), k) = Text(k, len) /\ TempHolds(NewTemp(Kind(i), k), long)
      BY <1>2, <3>1, <3>2, ConvertsWhole
    <3>4. output' = Append(output \o Text(k, len), L)
      <4> DEFINE s == output \o Text(k, len)
      <4>1. Text(k, len) \in Seq(Symbol)  BY <3>1, TextFacts
      <4>2. s \in Seq(Symbol)
        <5> HIDE DEF k, len
        <5> QED  BY <1>3, <4>1, ConcatProperties
      <4>3. L \in Symbol
        <5>1. i + w \in Nat  BY <3>1
        <5> QED  BY <5>1, SymbolFacts
      <4>4. output' = s \o <<L>>  BY <2>1, <3>3, Zenon
      <4> HIDE DEF s, L
      <4>5. Append(s, L) = s \o <<L>>  BY <4>2, <4>3, AppendIsConcat
      <4> QED  BY <4>4, <4>5, Zenon DEF s
    <3>5. i' <= Len(format) /\ i' = i + w + 1  BY <1>1, <2>1, <3>1
    <3>6. taken' = k /\ temp' = NewTemp(Kind(i), k)  BY <2>1, <3>2
    <3> HIDE DEF k, w, L, len, long
    <3> QED  BY <1>2, <3>1, <3>3, <3>4, <3>5, <3>6
  <2> QED  BY <2>2, <2>3
<1> QED  BY <1>4, <1>5 DEF vsprintf

LEMMA VsprintfInvStep == VsprintfInv /\ [vsprintf]_vsprintfVars => VsprintfInv'
<1> SUFFICES ASSUME VsprintfInv, [vsprintf]_vsprintfVars PROVE VsprintfInv'  OBVIOUS
<1>1. format' = format /\ lengths' = lengths  BY DEF vsprintf, vsprintfVars
<1>2. CallTypeInv /\ CallTypeInv'  BY <1>1 DEF VsprintfInv, CallTypeInv
<1>3. PICK f : IsReading(f) /\ Agrees(f)  BY DEF VsprintfInv
<1>4. IsReading(f)'  BY <1>1, <1>3, SameReading
<1>5. CASE UNCHANGED vsprintfVars
  <2>1. Agrees(f)'  BY <1>3, <1>5 DEF Agrees, TempHolds, vsprintfVars
  <2> QED  BY <1>2, <1>4, <1>5, <2>1 DEF VsprintfInv, StaysInFormat, vsprintfVars
<1>6. CASE vsprintf
  <2>1. i \in Nat /\ i < Len(format) /\ Len(format) \in Nat
    BY <1>2, <1>6, CallFacts DEF VsprintfInv, vsprintf
  <2>2. i' \in Nat /\ i' <= Len(format) + 1
    <3>1. CASE CopyCharacter  BY <2>1, <3>1 DEF CopyCharacter
    <3>2. CASE Convert
      <4>1. i' = i + Width(i) + 1  BY <3>2 DEF Convert
      <4>2. Width(i) \in 1 .. 4 /\ i + Width(i) <= Len(format)  BY <1>2, <2>1, KindFacts
      <4> QED  BY <2>1, <4>1, <4>2
    <3> QED  BY <1>6, <3>1, <3>2 DEF vsprintf
  <2>3. StaysInFormat'  BY <1>1, <2>2 DEF StaysInFormat
  <2>4. Agrees(f)'
    <3>1. CASE f[Len(format)].ok
      <4>1. /\ i' <= Len(format) /\ f[i'].skip = 0
            /\ output' = f[i'].text /\ taken' = f[i'].taken /\ TempHolds(temp', f[i'].longest)
        BY <1>2, <1>3, <1>6, <2>1, <3>1, VsprintfKeeps
      <4> QED  BY <1>1, <4>1 DEF Agrees, TempHolds
    <3>2. CASE ~ f[Len(format)].ok  BY <1>1, <3>2 DEF Agrees
    <3> QED  BY <3>1, <3>2
  <2>5. (\E h : IsReading(h) /\ Agrees(h))'  BY <1>4, <2>4
  <2> QED  BY <1>2, <2>2, <2>3, <2>5 DEF VsprintfInv
<1> QED  BY <1>5, <1>6

(* A format has one reading.                                               *)
LEMMA OneReading ==
  ASSUME CallTypeInv, NEW f, NEW g, IsReading(f), IsReading(g), NEW n \in 0 .. Len(format)
  PROVE  f[n] = g[n]
<1> DEFINE S == {m \in 1 .. Len(format) + 1 : f[m - 1] = g[m - 1]}
           last == Len(format) + 1
<1>1. Len(format) \in Nat  BY CallFacts
<1>2. last \in Nat /\ 1 \in S
  <2>1. 1 \in 1 .. Len(format) + 1 /\ 1 - 1 = 0  BY <1>1
  <2> QED  BY <1>1, <2>1 DEF IsReading
<1>3. ASSUME NEW m \in 1 .. last - 1, m \in S PROVE m + 1 \in S
  <2>1. m \in 1 .. Len(format) /\ (m + 1) - 1 = m /\ m + 1 \in 1 .. Len(format) + 1  BY <1>1
  <2>2. f[m - 1] = g[m - 1]  BY <1>3
  <2>3. f[m] = g[m]  BY <2>1, <2>2 DEF IsReading
  <2> QED  BY <2>1, <2>3
<1> HIDE DEF S, last
<1>4. 1 .. last \subseteq S  BY <1>2, <1>3, Induction
<1>5. n + 1 \in 1 .. last /\ (n + 1) - 1 = n  BY <1>1 DEF last
<1>6. n + 1 \in S  BY <1>4, <1>5
<1>7. f[(n + 1) - 1] = g[(n + 1) - 1]  BY <1>6 DEF S
<1> QED  BY <1>5, <1>7

LEMMA VsprintfInvFormatsText == VsprintfInv => FormatsText
<1> SUFFICES ASSUME VsprintfInv PROVE FormatsText  OBVIOUS
<1> DEFINE L == Len(format)
           whole == Reading[L]
<1>1. PICK f : IsReading(f) /\ Agrees(f)  BY DEF VsprintfInv
<1>2. CallTypeInv /\ L \in Nat /\ L \in 0 .. L /\ i \in Nat  BY CallFacts DEF VsprintfInv
<1>3. IsReading(Reading)  BY <1>2, ReadingExists
<1>4. whole = f[L]  BY <1>1, <1>2, <1>3, OneReading
<1>5. ASSUME i >= L, whole.ok PROVE output = whole.text /\ taken = whole.taken
  <2>1. f[L].ok  BY <1>4, <1>5
  <2>2. i <= L /\ output = f[i].text /\ taken = f[i].taken  BY <1>1, <2>1 DEF Agrees
  <2>3. i = L  BY <1>2, <1>5, <2>2
  <2> QED  BY <1>4, <2>2, <2>3
<1>6. PrintsFormat  BY <1>5 DEF PrintsFormat
<1> QED  BY <1>6 DEF FormatsText, VsprintfInv

(* vsprintf prints what a well-formed format says, each argument once, in  *)
(* its place and in full, though numbers go through a buffer that is not   *)
(* cleared, and it reads no format past its end, for formats, texts and    *)
(* buffers of any length.                                                  *)
THEOREM VsprintfFormatsText == VsprintfSpec => []FormatsText
BY VsprintfInvFormatsText, VsprintfInvInit, VsprintfInvStep, PTL DEF VsprintfSpec

-----------------------------------------------------------------------------
(* The routines together.  The part that runs keeps its invariant, and the *)
(* others rest as they did.                                                *)

FreadPart    == IF running = "fread"    THEN FreadInv    ELSE FreadRests
StringPart   == IF running = "string"   THEN StringInv   ELSE StringRests
ItoaPart     == IF running = "itoa"     THEN ItoaInv     ELSE ItoaRests
VsprintfPart == IF running = "vsprintf" THEN VsprintfInv ELSE VsprintfRests
ConsolePart  == IF running = "console"  THEN ConsoleInv /\ GlyphInv ELSE ConsoleRests
GdtPart      == IF running = "gdt"      THEN GdtInv      ELSE GdtRests
IdtPart      == IF running = "idt"      THEN IdtInv      ELSE IdtRests
AcpiPart     == IF running = "acpi"     THEN AcpiInv     ELSE AcpiRests

RoutinesInv == /\ FreadPart /\ StringPart /\ ItoaPart /\ VsprintfPart /\ ConsolePart
               /\ GdtPart /\ IdtPart /\ AcpiPart

LEMMA RoutinesInvInit == Init => RoutinesInv
BY FreadInvInit, StringInvInit, ItoaInvInit, VsprintfInvInit, ConsoleInvInit, GlyphInvInit,
   GdtInvInit, IdtInvInit, AcpiInvInit
   DEF Init, RoutinesInv, FreadPart, StringPart, ItoaPart, VsprintfPart, ConsolePart,
       GdtPart, IdtPart, AcpiPart

(* A step is one of the part that runs, and nothing else changes.          *)
LEMMA OneRuns ==
  ASSUME [Next]_vars
  PROVE  /\ running' = running
         /\ IF running = "fread"    THEN [efi_fread]_freadVars     ELSE UNCHANGED freadVars
         /\ IF running = "string"   THEN [StringNext]_stringVars   ELSE UNCHANGED stringVars
         /\ IF running = "itoa"     THEN [itoa]_itoaVars           ELSE UNCHANGED itoaVars
         /\ IF running = "vsprintf" THEN [vsprintf]_vsprintfVars   ELSE UNCHANGED vsprintfVars
         /\ IF running = "console"  THEN [ssfn_printf]_consoleVars ELSE UNCHANGED consoleVars
         /\ IF running = "gdt"      THEN [GdtNext]_gdtVars         ELSE UNCHANGED gdtVars
         /\ IF running = "idt"      THEN [IdtNext]_idtVars         ELSE UNCHANGED idtVars
         /\ IF running = "acpi"     THEN [AcpiNext]_acpiVars       ELSE UNCHANGED acpiVars
<1>1. CASE UNCHANGED vars  BY <1>1 DEF vars
<1>2. CASE Next
  <2>1. running' = running  BY <1>2 DEF Next
  <2>2. CASE running = "fread" /\ efi_fread /\ UNCHANGED <<printVars, tableVars>>
    BY <2>1, <2>2 DEF printVars, tableVars
  <2>3. CASE PrintStep /\ UNCHANGED <<freadVars, tableVars>>
    BY <2>1, <2>3 DEF PrintStep, tableVars
  <2>4. CASE TableStep /\ UNCHANGED <<freadVars, printVars>>
    BY <2>1, <2>4 DEF TableStep, printVars
  <2> QED  BY <1>2, <2>2, <2>3, <2>4 DEF Next
<1> QED  BY <1>1, <1>2

LEMMA RoutinesInvStep == RoutinesInv /\ [Next]_vars => RoutinesInv'
<1> SUFFICES ASSUME RoutinesInv, [Next]_vars PROVE RoutinesInv'  OBVIOUS
<1>1. running' = running  BY OneRuns
<1>2. FreadPart'
  BY <1>1, OneRuns, FreadInvStep DEF RoutinesInv, FreadPart, FreadRests, freadVars
<1>3. StringPart'
  BY <1>1, OneRuns, StringInvStep DEF RoutinesInv, StringPart, StringRests, stringVars
<1>4. ItoaPart'
  BY <1>1, OneRuns, ItoaInvStep DEF RoutinesInv, ItoaPart, ItoaRests, itoaVars
<1>5. VsprintfPart'
  BY <1>1, OneRuns, VsprintfInvStep DEF RoutinesInv, VsprintfPart, VsprintfRests, vsprintfVars
<1>6. ConsolePart'
  BY <1>1, OneRuns, ConsoleInvStep, GlyphInvStep
     DEF RoutinesInv, ConsolePart, ConsoleRests, consoleVars
<1>7. GdtPart'
  BY <1>1, OneRuns, GdtInvStep DEF RoutinesInv, GdtPart, GdtRests, gdtVars
<1>8. IdtPart'
  BY <1>1, OneRuns, IdtInvStep DEF RoutinesInv, IdtPart, IdtRests, idtVars
<1>9. AcpiPart'
  BY <1>1, OneRuns, AcpiInvStep DEF RoutinesInv, AcpiPart, AcpiRests, acpiVars
<1> QED  BY <1>2, <1>3, <1>4, <1>5, <1>6, <1>7, <1>8, <1>9 DEF RoutinesInv

(* A part that rests shows nothing wrong.                                  *)
LEMMA RestsAreRight ==
  /\ FreadRests => ReleasesOnce /\ ReadsFirstFile
  /\ StringRests => CopiedExactly /\ ComparesStrings
  /\ ItoaRests => WritesNumeral
  /\ VsprintfRests => FormatsText
  /\ ConsoleRests => ShowsItsGlyph
  /\ GdtRests => DescriptorsHold
  /\ IdtRests => GatesHold
  /\ AcpiRests => WalksRight
<1>1. FreadRests => ReleasesOnce /\ ReadsFirstFile
  BY DEF FreadRests, ReleasesOnce, NothingLeaks, UsesOnlyWhatIsOpen, ReadsFirstFile,
         BufferIsFile, FirstVolumeWins
<1>2. StringRests => CopiedExactly /\ ComparesStrings
  BY DEF StringRests, CopiedExactly, ComparesStrings, StopsAtNul, ComparesFirstDifference
<1>3. ItoaRests => WritesNumeral
  BY SmallestTemp DEF ItoaRests, WritesNumeral, IsNumeral, FitsTemp, HitsPadding
<1>4. VsprintfRests => FormatsText
  BY DEF VsprintfRests, FormatsText, PrintsFormat, StaysInFormat
<1>5. ConsoleRests => ShowsItsGlyph  BY DEF ConsoleRests, ShowsItsGlyph, Works
<1>6. GdtRests => DescriptorsHold
  <2> SUFFICES ASSUME GdtRests PROVE DescriptorsHold  OBVIOUS
  <2>1. SelectorsFit  BY DEF GdtRests, SelectorsFit
  <2>2. probe.base = {} /\ probe.lim = {} /\ probe.access = {} /\ probe.flags = {}
    BY DEF GdtRests
  <2>3. /\ {} \in SUBSET (0 .. 31) /\ {} \in SUBSET (0 .. 7) /\ {} \cap (0 .. 7) = {}
    OBVIOUS
  <2>4. RoundTrips  BY <2>2, <2>3, UnpacksWhatWasPacked DEF RoundTrips
  <2> QED  BY <2>1, <2>4 DEF DescriptorsHold
<1>7. IdtRests => GatesHold  BY DEF IdtRests, GatesHold, GatesAreLastAdded, DumpShowsGates
<1>8. AcpiRests => WalksRight
  BY DEF AcpiRests, WalksRight, AnswersRight, LeavesOnlyIfLengthWrong
<1> QED  BY <1>1, <1>2, <1>3, <1>4, <1>5, <1>6, <1>7, <1>8

(* Whichever routine is called, and with whatever arguments, all of the    *)
(* safety properties of the routines hold of the whole: the results about  *)
(* single parts are not lost when they stand side by side.                 *)
THEOREM RoutinesAreRight ==
  Spec => /\ [](ReleasesOnce /\ ReadsFirstFile)
          /\ [](CopiedExactly /\ ComparesStrings)
          /\ [](WritesNumeral /\ FormatsText)
          /\ []ShowsItsGlyph /\ DrawsInOrder
          /\ [](DescriptorsHold /\ GatesHold /\ WalksRight)
<1>1. RoutinesInv => /\ ReleasesOnce /\ ReadsFirstFile
                     /\ CopiedExactly /\ ComparesStrings
                     /\ WritesNumeral /\ FormatsText
                     /\ ShowsItsGlyph
                     /\ DescriptorsHold /\ GatesHold /\ WalksRight
  <2> SUFFICES ASSUME RoutinesInv
               PROVE  /\ ReleasesOnce /\ ReadsFirstFile
                      /\ CopiedExactly /\ ComparesStrings
                      /\ WritesNumeral /\ FormatsText
                      /\ ShowsItsGlyph
                      /\ DescriptorsHold /\ GatesHold /\ WalksRight
    OBVIOUS
  <2> USE RestsAreRight DEF RoutinesInv
  <2>1. ReleasesOnce /\ ReadsFirstFile
    BY FreadInvReleasesOnce, FreadInvReadsFirstFile DEF FreadPart
  <2>2. CopiedExactly /\ ComparesStrings
    BY StringInvCopiedExactly, StringInvComparesStrings DEF StringPart
  <2>3. WritesNumeral  BY ItoaInvWritesNumeral DEF ItoaPart
  <2>4. FormatsText  BY VsprintfInvFormatsText DEF VsprintfPart
  <2>5. ShowsItsGlyph  BY DEF ConsolePart, GlyphInv
  <2>6. DescriptorsHold  BY GdtInvDescriptorsHold DEF GdtPart
  <2>7. GatesHold  BY IdtInvGatesHold DEF IdtPart
  <2>8. WalksRight  BY AcpiInvWalksRight DEF AcpiPart
  <2> QED  BY <2>1, <2>2, <2>3, <2>4, <2>5, <2>6, <2>7, <2>8
<1>2. RoutinesInv /\ [Next]_vars =>
        [HoldsFont /\ lines < Rows => drawn' \subseteq Pixels]_consoleVars
  <2> SUFFICES ASSUME RoutinesInv, [Next]_vars
               PROVE  [HoldsFont /\ lines < Rows => drawn' \subseteq Pixels]_consoleVars
    OBVIOUS
  <2>1. CASE running = "console"
    BY <2>1, OneRuns, StepDrawsInside DEF RoutinesInv, ConsolePart
  <2>2. CASE running # "console"  BY <2>2, OneRuns
  <2> QED  BY <2>1, <2>2
<1>3. RoutinesInv /\ [Next]_vars =>
        [HoldsFont /\ Works /\ lines < Rows /\ shown'[1] # CR =>
           y' > y \/ (y' = y /\ x' >= x + shown'[2].advance)]_consoleVars
  <2> SUFFICES ASSUME RoutinesInv, [Next]_vars
               PROVE  [HoldsFont /\ Works /\ lines < Rows /\ shown'[1] # CR =>
                         y' > y \/ (y' = y /\ x' >= x + shown'[2].advance)]_consoleVars
    OBVIOUS
  <2>1. CASE running = "console"
    BY <2>1, OneRuns, StepMovesOn DEF RoutinesInv, ConsolePart
  <2>2. CASE running # "console"  BY <2>2, OneRuns
  <2> QED  BY <2>1, <2>2
<1> QED  BY <1>1, <1>2, <1>3, RoutinesInvInit, RoutinesInvStep, PTL
         DEF Spec, DrawsInOrder, DrawsInside, MovesOn
=============================================================================
