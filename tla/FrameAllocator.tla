--------------------------- MODULE FrameAllocator ---------------------------
(***************************************************************************)
(* What the physical memory manager promises its callers, without bitmaps, *)
(* counters or search order: a frame is free, held by a caller, or neither *)
(* (in use since boot); an allocation takes a run of free frames of one    *)
(* region and fails only when no region has such a run.                    *)
(* PhysicalMemory is shown to implement this specification.                *)
(***************************************************************************)
EXTENDS Integers

CONSTANTS Counts,    \* the run lengths that callers ask for
          Freeable   \* the frames that callers hand back

VARIABLES regions,   \* the managed regions: disjoint sets of frames
          free,      \* frames nobody uses
          held,      \* frames handed out and not given back
          last       \* the last call: operation, argument and result

vars == <<regions, free, held, last>>

NoFrame == -1

Run(start, count) == start .. start + count - 1

Init ==
  /\ free \subseteq UNION regions
  /\ held = {}
  /\ last = [op |-> "boot", arg |-> 0, result |-> NoFrame]

(* A successful call hands out a run of free frames of one region.         *)
Grant(op, count) ==
  \E r \in regions : \E start \in r :
     /\ count > 0
     /\ Run(start, count) \subseteq r \cap free
     /\ free' = free \ Run(start, count)
     /\ held' = held \cup Run(start, count)
     /\ last' = [op |-> op, arg |-> count, result |-> start]
     /\ UNCHANGED regions

(* A call fails only when it asks for nothing or when no region can serve. *)
Refuse(op, count) ==
  /\ \/ count = 0
     \/ \A r \in regions : \A start \in r :
          ~ (Run(start, count) \subseteq r \cap free)
  /\ last' = [op |-> op, arg |-> count, result |-> NoFrame]
  /\ UNCHANGED <<regions, free, held>>

(* A frame of a managed region becomes free; any other address is ignored. *)
Release(frame) ==
  /\ free' = free \cup ({frame} \cap UNION regions)
  /\ held' = held \ {frame}
  /\ last' = [op |-> "frame_free", arg |-> frame, result |-> NoFrame]
  /\ UNCHANGED regions

Next ==
  \/ Grant("frame_allocate", 1) \/ Refuse("frame_allocate", 1)
  \/ \E count \in Counts : \/ Grant("frames_allocate", count)
                           \/ Refuse("frames_allocate", count)
  \/ \E frame \in Freeable : Release(frame)

Spec == Init /\ [][Next]_vars
=============================================================================
