--------------------------- MODULE MC_BuildCache ---------------------------
(* Two processes, two contents, three seconds; kills and failures, or      *)
(* edits the modification times do not show, or both.                      *)
EXTENDS BuildCache

QuietModes == {{"faults"}, {"coarse"}}
HardMode == {{"faults", "coarse"}}
=============================================================================
