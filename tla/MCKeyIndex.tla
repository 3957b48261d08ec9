---------------------------- MODULE MCKeyIndex -----------------------------
(***************************************************************************)
(* Instances of KeyIndex for TLC.  The hashes are real ones: `home` folds  *)
(* h >> 16 into h (h >> 32 is 0 below 2^32), so 65537 starts where 0 does, *)
(* and 7 starts at the last of 8 cells, so that its sequence wraps.        *)
(***************************************************************************)
EXTENDS KeyIndex, Bitwise, TLC

CONSTANTS ka, kb, kc, kd

Keys4 == {ka, kb, kc, kd}
Hashes4 == (ka :> 7) @@ (kb :> 7) @@ (kc :> 65537) @@ (kd :> 6)

Fold == (6 :> 6) @@ (7 :> 7) @@ (65537 :> 65536)
ASSUME FoldAssumption == \A h \in DOMAIN Fold : Fold[h] = h ^^ shiftR(h, 16)
=============================================================================
