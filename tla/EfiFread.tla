------------------------------ MODULE EfiFread ------------------------------
(***************************************************************************)
(* Reading a file in the loader, efi-stage/efi_fs.c.  One step is one call *)
(* into the firmware, any of which may fail.  root and file of the code    *)
(* are <<"root", index>> and <<"file", index>>; the model keeps what the   *)
(* firmware has open and allocated, so that a leak and a use of something  *)
(* released can be seen.  EfiBoot takes the whole call as one step:        *)
(* NothingLeaks is what justifies that.                                    *)
(***************************************************************************)
EXTENDS Integers, Sequences

CONSTANT Machines  \* the volumes of a machine, as sequences of volume states

(* HandleProtocol fails, OpenVolume fails, Open fails, the file is there.  *)
volume == {"no_protocol", "unreadable", "no_file", "has_file"}

ASSUME MachinesAssumption == Machines \subseteq Seq(volume)

VARIABLES
  volumes,  \* the machine
  label,    \* where efi_fread is
  index,    \* the volume it has reached
  outcome,  \* its result
  buffer,   \* what is in *buffer of the caller
  open,     \* what the firmware has open: external
  pool      \* what the firmware has allocated: external

freadVars == <<volumes, label, index, outcome, buffer, open, pool>>

root == <<"root", index>>
file == <<"file", index>>

FreadInit == /\ volumes \in Machines /\ label = "locate" /\ index = 1
             /\ outcome = "none" /\ buffer = "none" /\ open = {} /\ pool = {}

(* A call that takes the loader from one label to the next.                *)
GoTo(from, to) == label = from /\ label' = to /\ UNCHANGED volumes

LocateHandleBuffer ==
  /\ \/ GoTo("locate", "volume") /\ pool' = {"handles"} /\ outcome' = "EFI_NOT_FOUND"
     \/ GoTo("locate", "done") /\ outcome' = "LOCATE_ERROR" /\ UNCHANGED pool
  /\ UNCHANGED <<index, buffer, open>>

(* A mistake: "continue" without the step of the for loop.                 *)
SameVolume == index
NextVolume == index + 1

(* HandleProtocol and OpenVolume; continue if one of them fails.           *)
OpenVolume ==
  /\ label = "volume" /\ index <= Len(volumes)
  /\ IF volumes[index] \in {"no_protocol", "unreadable"}
       THEN GoTo("volume", "volume") /\ index' = NextVolume /\ UNCHANGED open
       ELSE GoTo("volume", "open") /\ open' = open \cup {root} /\ UNCHANGED index
  /\ UNCHANGED <<outcome, buffer, pool>>

(* A mistake: no break, the search goes on after the file was found.       *)
SearchOn == "close_volume"
FileFound == "free_handles"

Open ==
  /\ label = "open"
  /\ IF volumes[index] = "has_file"
       THEN GoTo("open", FileFound) /\ open' = open \cup {file} /\ outcome' = "EFI_SUCCESS"
       ELSE GoTo("open", "close_volume") /\ outcome' = "OPEN_ERROR" /\ UNCHANGED open
  /\ UNCHANGED <<index, buffer, pool>>

(* A mistake: the volume without the file stays open.                      *)
LeaveVolume == UNCHANGED open
CloseRoot   == open' = open \ {root}

CloseVolume == /\ GoTo("close_volume", "volume")
               /\ CloseRoot /\ index' = NextVolume
               /\ UNCHANGED <<outcome, buffer, pool>>

(* The handles are freed before the file is used; without a file efi_fread *)
(* returns the last error.                                                 *)
FreeHandles == /\ \/ GoTo("free_handles", "info")
                  \/ index > Len(volumes) /\ GoTo("volume", "done")
               /\ pool' = pool \ {"handles"}
               /\ UNCHANGED <<index, outcome, buffer, open>>

GetInfo == /\ \/ GoTo("info", "malloc") /\ UNCHANGED outcome
              \/ GoTo("info", "close_file") /\ outcome' = "INFO_ERROR"
           /\ UNCHANGED <<index, buffer, open, pool>>

Malloc ==
  /\ \/ GoTo("malloc", "read") /\ pool' = pool \cup {"data"} /\ UNCHANGED outcome
     \/ GoTo("malloc", "close_file") /\ outcome' = "EFI_OUT_OF_RESOURCES" /\ UNCHANGED pool
  /\ UNCHANGED <<index, buffer, open>>

(* A read without an error that got less than the file has is an error.    *)
ReadStatus(status, got) ==
  IF status = "EFI_SUCCESS" /\ got # "whole" THEN "EFI_END_OF_FILE" ELSE status

Read ==
  /\ \E status \in {"EFI_SUCCESS", "READ_ERROR"}, got \in {"whole", "part"} :
        /\ outcome' = ReadStatus(status, got)
        /\ IF outcome' = "EFI_SUCCESS" THEN GoTo("read", "close_file") /\ buffer' = got
                                      ELSE GoTo("read", "free_data") /\ UNCHANGED buffer
  /\ UNCHANGED <<index, open, pool>>

FreeData == /\ GoTo("free_data", "close_file") /\ pool' = pool \ {"data"}
            /\ UNCHANGED <<index, outcome, buffer, open>>

(* close: the file, then its volume.                                       *)
Close == /\ \/ GoTo("close_file", "close_root") /\ open' = open \ {file}
            \/ GoTo("close_root", "done") /\ CloseRoot
         /\ UNCHANGED <<index, outcome, buffer, pool>>

efi_fread == \/ LocateHandleBuffer \/ OpenVolume \/ Open \/ CloseVolume \/ FreeHandles
             \/ GetInfo \/ Malloc \/ Read \/ FreeData \/ Close

FreadSpec == FreadInit /\ [][efi_fread]_freadVars /\ WF_freadVars(efi_fread)

-----------------------------------------------------------------------------

(* "on failure nothing is allocated", and on every path each handle is     *)
(* closed: when efi_fread returns, the only thing left is the buffer of a  *)
(* successful read.                                                        *)
NothingLeaks ==
  label = "done" => /\ open = {}
                    /\ pool = IF outcome = "EFI_SUCCESS" THEN {"data"} ELSE {}

(* "On success *buffer and *length describe the file": the caller gets a   *)
(* buffer exactly when the result says so, and all of the file is in it.   *)
BufferIsFile ==
  label = "done" => buffer = IF outcome = "EFI_SUCCESS" THEN "whole" ELSE "none"

(* No call goes through a handle that is closed, and nothing is closed or  *)
(* freed twice, whichever volume had the file and whichever call failed.   *)
UsesOnlyWhatIsOpen ==
  /\ label \in {"open", "close_volume", "info", "read", "close_file", "close_root"}
       => root \in open
  /\ label \in {"info", "read", "close_file"} => file \in open
  /\ label \in {"read", "free_data"} => "data" \in pool
  /\ label \in {"volume", "open", "close_volume", "free_handles"} => "handles" \in pool

(* "from the first volume that has it": volumes that cannot be opened, or  *)
(* do not have the file, neither hide it nor decide the result.            *)
HaveFile == {v \in DOMAIN volumes : volumes[v] = "has_file"}

FirstVolumeWins ==
  /\ file \in open => index \in HaveFile /\ \A v \in HaveFile : index <= v
  /\ label = "done" /\ outcome \in {"EFI_NOT_FOUND", "OPEN_ERROR"} => HaveFile = {}

(* On every path through efi_fread handles and buffers are released        *)
(* exactly once, and not before their last use.                            *)
ReleasesOnce == NothingLeaks /\ UsesOnlyWhatIsOpen

(* A success means the whole file of the first volume that has it, and a   *)
(* failure no buffer; volumes without the file do not matter.              *)
ReadsFirstFile == BufferIsFile /\ FirstVolumeWins

(* efi_fread returns, however many volumes there are and whatever fails.   *)
FreadReturns == label = "locate" ~> label = "done"
=============================================================================
