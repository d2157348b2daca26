----------------------------- MODULE MC_VirtMem -----------------------------
(* Small instances of VirtMem: ten frames under five directory entries,      *)
(* with room for none to six allocations.                                    *)
EXTENDS VirtMem

Region(base, length, type) == [base |-> base, length |-> length, type |-> type]

\* RAM from every frame up to every frame, below the target or across it.
RamMaps ==
  {b \in [regions : {{Region(2 * f, 2 * n, 1)} : f \in 2 .. 6, n \in 0 .. 8} \cup {{}},
          kernel_end : {5, 7}, info_start : {0, 9}, info_size : {1}] :
     TargetOutOfReach(b)}
=============================================================================
