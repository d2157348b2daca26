----------------------------- MODULE MC_PhysMem -----------------------------
(* Small instances of PhysMem: frames of two bytes, eight frames of which   *)
(* six can be allocated, and memory maps with overlapping, partial, clamped *)
(* and adjacent entries.                                                    *)
EXTENDS PhysSearch

Region(base, length, type) == [base |-> base, length |-> length, type |-> type]
Ram == {Region(0, 16, 1), Region(5, 20, 1)}
Firmware == {Region(0, 4, 2), Region(11, 2, 2), Region(13, 9, 3), Region(30, 2, 2)}

SmallMaps ==
  [regions : {{r, s} : r \in Ram, s \in Firmware} \cup {{}, {Region(4, 5, 1), Region(11, 5, 1)}},
   kernel_end : {5, 7}, info_start : {0, 11}, info_size : {2}]
=============================================================================
