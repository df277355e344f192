----------------------------- MODULE MCBuildPmm -----------------------------
(***************************************************************************)
(* Instances of BuildPmm for TLC.  A shape says where regions begin; the   *)
(* memory maps are the shapes with every choice of types, one type for     *)
(* each row of the switch that build_pmm treats differently.               *)
(***************************************************************************)
EXTENDS BuildPmm

Desc(type, start, pages) ==
  [Type |-> type, PhysicalStart |-> start, NumberOfPages |-> pages]

Types == {"EfiConventionalMemory", "EfiLoaderData", "Other"}

(* Region boundaries: one frame, whole words, partial words, an empty      *)
(* descriptor, and a hole; words have two bits.                            *)
Shapes == { <<0, 1, 3>>, <<0, 2, 5, 6>>, <<1, 1, 4>>, <<0, 3>> }

Typed(shape) ==
  {[i \in 1 .. Len(shape) - 1 |-> Desc(t[i], shape[i], shape[i + 1] - shape[i])] :
      t \in [1 .. Len(shape) - 1 -> Types]}

OneOfEach ==
  [i \in 1 .. 7 |->
     Desc(<<"EfiACPIReclaimMemory", "EfiACPIMemoryNVS", "EfiRuntimeServicesData",
            "EfiMemoryMappedIO", "EfiBootServicesCode", "EfiConventionalMemory",
            "Other">>[i], i, 1)]

MCMemoryMaps == UNION {Typed(shape) : shape \in Shapes} \cup {OneOfEach}
=============================================================================
