----------------------------- MODULE MC_SmpBoot -----------------------------
(* Tables of one to four processors with room for three, the BSP first or  *)
(* second, and memory for too few or for enough stacks.                    *)
EXTENDS SmpBoot

SmallTables == {<<0>>, <<0, 1, 2>>, <<1, 0, 2>>, <<0, 1, 2, 3>>}
=============================================================================
