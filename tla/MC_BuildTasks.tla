--------------------------- MODULE MC_BuildTasks ---------------------------
(* All graphs of three tasks, cyclic ones and self-loops included. *)
EXTENDS BuildTasks
=============================================================================
