----------------------------- MODULE MCGcCycle -----------------------------
(***************************************************************************)
(* Instances of GcCycle for TLC.  In MainMix and DropMix every operation   *)
(* is somewhere; no drop body uses a literal, which GcCycle_literal does.  *)
(***************************************************************************)
EXTENDS GcCycle

Limits == [node |-> 1, drop |-> 2, weak |-> 1, string |-> 1]
MainMix == OpNames \ {"node", "call"}
DropMix == {"drop", "upgrade", "store", "clear", "call", "collect"}
=============================================================================
