---------------------------- MODULE MCBuildCache ---------------------------
(***************************************************************************)
(* Instances of BuildCache for TLC.                                        *)
(***************************************************************************)
EXTENDS BuildCache, TLC

Symmetry == Permutations(Procs) \cup Permutations(Contents)
=============================================================================
