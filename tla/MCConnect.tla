------------------------------ MODULE MCConnect -----------------------------
(***************************************************************************)
(* An instance of Connect for TLC: a name and an address with a timeout,   *)
(* another name without one and a port that is out of range.               *)
(***************************************************************************)
EXTENDS Connect

MCArgs == {"name", "other", "address", "badPort"}
MCHost == [a \in MCArgs |-> CASE a \in {"name", "other"} -> "name"
                              [] a = "address" -> "literal"
                              [] a = "badPort" -> "invalid"]
MCMs == [a \in MCArgs |-> IF a = "other" THEN 0 ELSE 1]
=============================================================================
