-------------------------- MODULE MCPhysicalMemory --------------------------
(***************************************************************************)
(* Instances of PhysicalMemory for TLC: block lists as build_pmm leaves    *)
(* them, with words of two bits so that blocks have partial last words.    *)
(***************************************************************************)
EXTENDS PhysicalMemory

Usable(address, frames) ==
  LET used == {b \in MapBits(frames) : b >= frames \/ address + b = 0}
  IN  [address |-> address, frames_total |-> frames,
       frames_free |-> Cardinality(MapBits(frames) \ used),
       has_map |-> TRUE, map |-> used, type |-> "PM_USABLE"]

Reclaimable(address, frames) ==
  [address |-> address, frames_total |-> frames, frames_free |-> 0,
   has_map |-> TRUE, map |-> MapBits(frames), type |-> "PM_RECLAIMABLE"]

Unmanaged(address, frames, type) ==
  [address |-> address, frames_total |-> frames, frames_free |-> 0,
   has_map |-> FALSE, map |-> {}, type |-> type]

(* Frame 0 in a usable block; a hole in the middle; a reclaimable block    *)
(* next to a usable one; a usable block that got no bitmap.                *)
MCPmms ==
  { <<Usable(0, 3), Reclaimable(3, 2), Unmanaged(5, 1, "PM_MMIO"), Usable(6, 3)>>,
    <<Unmanaged(0, 2, "PM_USABLE"), Usable(3, 5), Reclaimable(8, 1)>> }

(* Frame 0 in memory the firmware or the loader used.                      *)
MCReclaimPmms == { <<Reclaimable(0, 2), Usable(2, 1)>> }
=============================================================================
