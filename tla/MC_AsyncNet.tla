---------------------------- MODULE MC_AsyncNet ----------------------------
(* Instances of AsyncNet for TLC.                                          *)
EXTENDS AsyncNet, TLC

WorkerSymmetry == Permutations(Workers)
=============================================================================
